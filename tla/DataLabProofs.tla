-------------------------------- MODULE DataLabProofs --------------------------------
(***************************************************************************)
(* What holds of btest, ishow and fshow for words of any width, whatever   *)
(* the command line, the values drawn, the slow puzzles and those that     *)
(* never return.  First what words and floats are, for every width: powers *)
(* of two count subsets, the sums of Bits are folds; with them what the    *)
(* thirteen puzzles compute.  Then the invariant of btest: the verdicts    *)
(* are right, the points agree with them, the last option decides.  At the *)
(* end what ishow and fshow display.                                       *)
(***************************************************************************)
EXTENDS DataLab, WellFoundedInduction, FiniteSetTheorems, TLAPS

-------------------------------------------------------------------------------
(* Least numbers, and recursive functions. *)

\* A nonempty set of naturals has a least element.
LEMMA LeastNat ==
  ASSUME NEW S \in SUBSET Nat, S # {}
  PROVE  \E m \in S : \A n \in S : m <= n
<1>1. \E m \in S : \A n \in S : <<n, m>> \notin OpToRel(<, Nat)
  BY NatLessThanWellFounded, WFMin
<1>2. \A n, m \in S : <<n, m>> \notin OpToRel(<, Nat) => m <= n
  BY DEF OpToRel
<1> QED
  BY <1>1, <1>2

\* Induction, on a set of numbers.
LEMMA AllNat ==
  ASSUME NEW S \in SUBSET Nat, 0 \in S, \A m \in Nat : m \in S => m + 1 \in S
  PROVE  \A m \in Nat : m \in S
<1> DEFINE Rest == Nat \ S
<1> SUFFICES ASSUME Rest # {} PROVE FALSE
  OBVIOUS
<1>1. Rest \in SUBSET Nat
  OBVIOUS
<1> HIDE DEF Rest
<1>2. PICK m \in Rest : \A l \in Rest : m <= l
  BY <1>1, LeastNat
<1>3. m \in Nat /\ m \notin S
  BY <1>2 DEF Rest
<1>4. m - 1 \in Nat
  BY <1>3
<1>5. m - 1 \in Rest => m <= m - 1
  BY <1>2
<1> QED
  BY <1>3, <1>4, <1>5 DEF Rest

-------------------------------------------------------------------------------
(* Powers of two: there are 2^n subsets of n things. *)

\* 2^n subsets of n things.
LEMMA SubsetsAre ==
  ASSUME NEW n \in Nat
  PROVE  IsFiniteSet(SUBSET (1 .. n)) /\ Cardinality(SUBSET (1 .. n)) = 2 ^ n
<1>1. IsFiniteSet(1 .. n) /\ Cardinality(1 .. n) = n
  BY FS_Interval
<1> QED
  BY <1>1, FS_SUBSET

\* The powers of two unfold, which the provers do not know of any power.
LEMMA PowerIs ==
  /\ 2 ^ 0 = 1
  /\ \A n \in Nat : 2 ^ n \in Nat
  /\ \A n \in Nat : 2 ^ (n + 1) = 2 * 2 ^ n
<1>1. \A n \in Nat : 2 ^ n \in Nat
  BY SubsetsAre, FS_CardinalityType
<1>2. ASSUME NEW n \in Nat PROVE 2 ^ (n + 1) = 2 * 2 ^ n
  <2> DEFINE A == SUBSET (1 .. n)
             B == {s \union {n + 1} : s \in A}
             f == [s \in A |-> s \union {n + 1}]
  <2>1. IsFiniteSet(A) /\ Cardinality(A) = 2 ^ n
    BY SubsetsAre
  <2>2. f \in Bijection(A, B)
    <3>1. \A s \in A : n + 1 \notin s
      OBVIOUS
    <3> HIDE DEF A
    <3>2. \A s, u \in A : f[s] = f[u] => s = u
      <4>1. \A s \in A : s = f[s] \ {n + 1}
        BY <3>1
      <4> HIDE DEF f
      <4> QED
        BY <4>1
    <3>3. f \in [A -> B] /\ \A u \in B : \E s \in A : f[s] = u
      OBVIOUS
    <3> HIDE DEF f
    <3> QED
      BY <3>2, <3>3 DEF Bijection, Injection, Surjection, IsInjective
  <2>3. IsFiniteSet(B) /\ Cardinality(B) = 2 ^ n
    BY <2>1, <2>2, FS_Bijection DEF ExistsBijection
  <2>4. A \intersect B = {}
    <3>1. \A s \in A : n + 1 \notin s
      OBVIOUS
    <3>2. \A s \in B : n + 1 \in s
      OBVIOUS
    <3> QED
      BY <3>1, <3>2
  <2>5. A \union B = SUBSET (1 .. n + 1)
    <3>1. ASSUME NEW s \in A \union B PROVE s \in SUBSET (1 .. n + 1)
      OBVIOUS
    <3>2. ASSUME NEW s \in SUBSET (1 .. n + 1) PROVE s \in A \union B
      <4>1. CASE n + 1 \in s
        <5>1. s \ {n + 1} \in A /\ s = (s \ {n + 1}) \union {n + 1}
          BY <4>1
        <5> QED
          BY <5>1
      <4>2. CASE n + 1 \notin s
        <5>1. \A x \in s : x # n + 1 /\ x \in 1 .. n + 1
          BY <4>2
        <5>2. s \in A
          BY <5>1
        <5> QED
          BY <5>2
      <4> QED
        BY <4>1, <4>2
    <3> HIDE DEF A, B
    <3> QED
      BY <3>1, <3>2
  <2> HIDE DEF A, B
  <2>6. Cardinality(A \union B) = 2 ^ n + 2 ^ n
    BY <1>1, <2>1, <2>3, <2>4, FS_Union, FS_EmptySet
  <2>7. Cardinality(SUBSET (1 .. n + 1)) = 2 ^ (n + 1)
    BY SubsetsAre
  <2>8. 2 ^ (n + 1) = 2 ^ n + 2 ^ n
    BY <2>5, <2>6, <2>7
  <2> QED
    BY <1>1, <2>8
<1> QED
  BY <1>1, <1>2

\* The power of a sum is a product.
LEMMA PowerAdds == \A a, b \in Nat : 2 ^ (a + b) = 2 ^ a * 2 ^ b
<1> SUFFICES ASSUME NEW a \in Nat PROVE \A b \in Nat : 2 ^ (a + b) = 2 ^ a * 2 ^ b
  OBVIOUS
<1> DEFINE Good == {b \in Nat : 2 ^ (a + b) = 2 ^ a * 2 ^ b}
<1>1. 0 \in Good
  BY PowerIs
<1>2. ASSUME NEW b \in Nat, b \in Good PROVE b + 1 \in Good
  <2>1. 2 ^ (a + (b + 1)) = 2 * 2 ^ (a + b)
    BY PowerIs
  <2>2. 2 ^ (b + 1) = 2 * 2 ^ b
    BY PowerIs
  <2>3. 2 ^ (a + b) = 2 ^ a * 2 ^ b
    BY <1>2
  <2>4. 2 ^ a \in Nat /\ 2 ^ b \in Nat
    BY PowerIs
  <2>5. 2 * (2 ^ a * 2 ^ b) = 2 ^ a * (2 * 2 ^ b)
    BY <2>4
  <2> QED
    BY <2>1, <2>2, <2>3, <2>5
<1>3. Good \in SUBSET Nat
  OBVIOUS
<1> HIDE DEF Good
<1>4. \A b \in Nat : b \in Good
  BY <1>1, <1>2, <1>3, AllNat
<1> QED
  BY <1>4 DEF Good

\* A power of two is more than its exponent.
LEMMA PowerPositive == \A n \in Nat : 2 ^ n \in Nat \ {0} /\ n < 2 ^ n
<1> DEFINE Good == {n \in Nat : 2 ^ n > n}
<1>1. 0 \in Good
  BY PowerIs
<1>2. ASSUME NEW n \in Nat, n \in Good PROVE n + 1 \in Good
  BY <1>2, PowerIs
<1>3. Good \in SUBSET Nat
  OBVIOUS
<1> HIDE DEF Good
<1>4. \A n \in Nat : n \in Good
  BY <1>1, <1>2, <1>3, AllNat
<1> QED
  BY <1>4, PowerIs DEF Good

\* A larger power is an even multiple of a smaller one.
LEMMA PowerHalves ==
  ASSUME NEW a \in Nat, NEW b \in Nat, a < b
  PROVE  /\ 2 ^ b = 2 ^ a * 2 ^ (b - a) /\ 2 ^ b = 2 ^ a * (2 * 2 ^ (b - a - 1))
         /\ 2 ^ b >= 2 * 2 ^ a /\ 2 ^ a < 2 ^ b
<1>1. b - a \in Nat /\ b - a - 1 \in Nat /\ a + (b - a) = b /\ (b - a - 1) + 1 = b - a
  OBVIOUS
<1> DEFINE c == b - a
           d == b - a - 1
<1>2. 2 ^ b = 2 ^ a * 2 ^ c /\ 2 ^ c = 2 * 2 ^ d
  <2>1. 2 ^ (a + c) = 2 ^ a * 2 ^ c
    BY <1>1, PowerAdds
  <2>2. 2 ^ (d + 1) = 2 * 2 ^ d
    BY <1>1, PowerIs
  <2> QED
    BY <1>1, <2>1, <2>2
<1>3. 2 ^ a \in Nat \ {0} /\ 2 ^ d \in Nat \ {0} /\ 2 ^ c \in Nat
  BY <1>1, PowerPositive
<1> HIDE DEF c, d
<1>4. \A p, q \in Nat \ {0} : p * (2 * q) >= 2 * p
  OBVIOUS
<1>5. 2 ^ a * (2 * 2 ^ d) >= 2 * 2 ^ a
  BY <1>3, <1>4
<1> QED
  BY <1>2, <1>3, <1>5 DEF c, d

-------------------------------------------------------------------------------
(* The number a word stands for. *)

\* A word has bits.
LEMMA WidthIs == W \in Nat /\ W > 0
  BY BitsAssumption DEF FB

\* A word is a finite set of at most W positions.
LEMMA WordsAreFinite ==
  ASSUME NEW x \in Word
  PROVE  IsFiniteSet(x) /\ Cardinality(x) \in Nat /\ Cardinality(x) <= W
<1>1. IsFiniteSet(Positions) /\ Cardinality(Positions) = W
  BY WidthIs, FS_Interval DEF Positions
<1> QED
  BY <1>1, FS_Subset, FS_CardinalityType DEF Word

\* One bit less.
LEMMA OneLess ==
  ASSUME NEW x \in Word, NEW b \in x
  PROVE  x \ {b} \in Word /\ Cardinality(x \ {b}) = Cardinality(x) - 1
  BY WordsAreFinite, FS_RemoveElement DEF Word

\* The sum is a fold that takes out one bit after the other.
LEMMA FoldExists ==
  \E g : \A x \in Word :
    g[x] = IF x = {} THEN 0 ELSE 2 ^ (CHOOSE b \in x : TRUE) + g[x \ {CHOOSE b \in x : TRUE}]
<1> DEFINE Step(f, s) == IF s = {} THEN 0
                         ELSE 2 ^ (CHOOSE b \in s : TRUE) + f[s \ {CHOOSE b \in s : TRUE}]
           L(m) == {s \in Word : Cardinality(s) <= m}
           Obeys(g, m) == \A s \in L(m) : g[s] = Step(g, s)
           Good == {m \in Nat : \E g : Obeys(g, m)}
<1>1. ASSUME NEW s \in Word, s # {}
      PROVE  /\ (CHOOSE b \in s : TRUE) \in s
             /\ s \ {CHOOSE b \in s : TRUE} \in Word
             /\ Cardinality(s \ {CHOOSE b \in s : TRUE}) = Cardinality(s) - 1
  <2>1. (CHOOSE b \in s : TRUE) \in s
    BY <1>1
  <2> QED
    BY <2>1, OneLess
<1>2. 0 \in Good
  <2>1. \A s \in L(0) : s = {}
    BY WordsAreFinite, FS_EmptySet
  <2>2. Obeys([s \in Word |-> 0], 0)
    BY <2>1
  <2> HIDE DEF Obeys
  <2> QED
    BY <2>2
<1>3. ASSUME NEW m \in Nat, m \in Good PROVE m + 1 \in Good
  <2>1. PICK g : Obeys(g, m)
    BY <1>3
  <2> DEFINE h == [s \in Word |-> IF s \in L(m) THEN g[s] ELSE Step(g, s)]
  <2>2. \A s \in L(m + 1) : h[s] = Step(g, s)
    BY <2>1
  <2>3. ASSUME NEW s \in L(m + 1), s # {}
        PROVE  h[s \ {CHOOSE b \in s : TRUE}] = g[s \ {CHOOSE b \in s : TRUE}]
    <3>1. s \ {CHOOSE b \in s : TRUE} \in L(m)
      BY <1>1, <2>3, WordsAreFinite
    <3> QED
      BY <3>1
  <2> HIDE DEF h
  <2>4. \A s \in L(m + 1) : h[s] = Step(h, s)
    BY <2>2, <2>3
  <2>5. Obeys(h, m + 1)
    BY <2>4
  <2> HIDE DEF Obeys
  <2> QED
    BY <2>5
<1>4. Good \in SUBSET Nat
  OBVIOUS
<1>5. \A m \in Nat : m \in Good
  <2> HIDE DEF Good
  <2> QED
    BY <1>2, <1>3, <1>4, AllNat
<1>6. PICK g : Obeys(g, W)
  <2> HIDE DEF Obeys
  <2> QED
    BY <1>5, WidthIs
<1>7. \A s \in Word : s \in L(W)
  BY WordsAreFinite
<1> QED
  BY <1>6, <1>7

\* Num takes the bits one by one, in the order CHOOSE gives.
LEMMA NumUnfolds ==
  ASSUME NEW x \in Word
  PROVE  Num[x] = IF x = {} THEN 0
                  ELSE 2 ^ (CHOOSE b \in x : TRUE) + Num[x \ {CHOOSE b \in x : TRUE}]
<1> DEFINE Step(f, s) == IF s = {} THEN 0
                         ELSE 2 ^ (CHOOSE b \in s : TRUE) + f[s \ {CHOOSE b \in s : TRUE}]
<1>1. PICK g : \A s \in Word : g[s] = Step(g, s)
  BY FoldExists
<1>2. ASSUME NEW y \in Word PROVE Num[y] = g[y]
  <2> DEFINE P(f) == f = [s \in SUBSET y |-> Step(f, s)]
             F == CHOOSE f : P(f)
  <2>1. Num[y] = F[y]
    BY DEF Num, MapThenSumSet, MapThenFoldSet
  <2>2. \A s \in SUBSET y : s \in Word
    BY DEF Word
  <2>3. \E f : P(f)
    <3> DEFINE f == [s \in SUBSET y |-> g[s]]
    <3>1. \A s \in SUBSET y : f[s] = Step(f, s)
      <4>1. ASSUME NEW s \in SUBSET y PROVE f[s \ {CHOOSE b \in s : TRUE}] = g[s \ {CHOOSE b \in s : TRUE}]
        <5>1. s \ {CHOOSE b \in s : TRUE} \in SUBSET y
          OBVIOUS
        <5> QED
          BY <5>1
      <4>2. \A s \in SUBSET y : f[s] = Step(g, s)
        BY <1>1, <2>2
      <4> HIDE DEF f
      <4> QED
        BY <4>1, <4>2
    <3>2. f = [s \in SUBSET y |-> f[s]]
      OBVIOUS
    <3> HIDE DEF f, Step
    <3>3. P(f)
      BY <3>1, <3>2
    <3> QED
      BY <3>3
  <2>4. P(F)
    <3> HIDE DEF P
    <3> QED
      BY <2>3, Zenon
  <2> HIDE DEF F
  <2>5. \A s \in SUBSET y : F[s] = Step(F, s)
    BY <2>4
  <2> DEFINE Good == {m \in Nat : \A s \in SUBSET y : Cardinality(s) = m => F[s] = g[s]}
  <2>6. 0 \in Good
    <3>1. \A s \in SUBSET y : Cardinality(s) = 0 => s = {}
      BY <2>2, WordsAreFinite, FS_EmptySet
    <3> QED
      BY <1>1, <2>2, <2>5, <3>1
  <2>7. ASSUME NEW m \in Nat, m \in Good PROVE m + 1 \in Good
    <3> SUFFICES ASSUME NEW s \in SUBSET y, Cardinality(s) = m + 1 PROVE F[s] = g[s]
      OBVIOUS
    <3>1. s # {}
      BY FS_EmptySet
    <3>2. (CHOOSE b \in s : TRUE) \in s
      BY <3>1
    <3>3. s \ {CHOOSE b \in s : TRUE} \in SUBSET y /\ Cardinality(s \ {CHOOSE b \in s : TRUE}) = m
      <4>1. \A c \in s : s \ {c} \in SUBSET y /\ Cardinality(s \ {c}) = m
        BY <2>2, OneLess
      <4> QED
        BY <3>2, <4>1
    <3>4. F[s \ {CHOOSE b \in s : TRUE}] = g[s \ {CHOOSE b \in s : TRUE}]
      BY <2>7, <3>3
    <3> QED
      BY <1>1, <2>2, <2>5, <3>1, <3>4
  <2>8. Good \in SUBSET Nat
    OBVIOUS
  <2>9. \A m \in Nat : m \in Good
    <3> HIDE DEF Good
    <3> QED
      BY <2>6, <2>7, <2>8, AllNat
  <2>10. F[y] = g[y]
    BY <2>9, WordsAreFinite
  <2> QED
    BY <2>1, <2>10
<1>3. x # {} => x \ {CHOOSE b \in x : TRUE} \in Word
  BY DEF Word
<1> QED
  BY <1>1, <1>2, <1>3

\* A word stands for a natural number.
LEMMA NumIsNat == Num[{}] = 0 /\ \A x \in Word : Num[x] \in Nat
<1>1. {} \in Word
  BY DEF Word
<1>2. Num[{}] = 0
  BY <1>1, NumUnfolds
<1> DEFINE Good == {m \in Nat : \A x \in Word : Cardinality(x) = m => Num[x] \in Nat}
<1>3. 0 \in Good
  <2>1. \A x \in Word : Cardinality(x) = 0 => x = {}
    BY WordsAreFinite, FS_EmptySet
  <2>2. ASSUME NEW x \in Word, Cardinality(x) = 0 PROVE Num[x] \in Nat
    <3>1. x = {}
      BY <2>1, <2>2
    <3>2. Num[x] = 0
      BY <1>2, <3>1, Zenon
    <3> QED
      BY <3>2
  <2> QED
    BY <2>2
<1>4. ASSUME NEW m \in Nat, m \in Good PROVE m + 1 \in Good
  <2> SUFFICES ASSUME NEW x \in Word, Cardinality(x) = m + 1 PROVE Num[x] \in Nat
    OBVIOUS
  <2> DEFINE c == CHOOSE b \in x : TRUE
  <2>1. c \in x
    <3>1. x # {}
      BY FS_EmptySet
    <3> QED
      BY <3>1
  <2>2. Num[x] = 2 ^ c + Num[x \ {c}]
    BY <2>1, NumUnfolds
  <2> HIDE DEF c
  <2>3. x \ {c} \in Word /\ Cardinality(x \ {c}) = m /\ c \in Nat
    BY <2>1, OneLess DEF Word, Positions
  <2> QED
    BY <1>4, <2>2, <2>3, PowerIs
<1>5. Good \in SUBSET Nat
  OBVIOUS
<1>6. \A m \in Nat : m \in Good
  <2> HIDE DEF Good
  <2> QED
    BY <1>3, <1>4, <1>5, AllNat
<1> QED
  BY <1>2, <1>6, WordsAreFinite

\* It does not matter which bit is taken out first.
LEMMA NumLess ==
  \A x \in Word : \A b \in x : Num[x] = 2 ^ b + Num[x \ {b}]
<1> DEFINE Fine(x) == \A b \in x : Num[x] = 2 ^ b + Num[x \ {b}]
           Good == {m \in Nat : \A x \in Word : Cardinality(x) = m => Fine(x)}
<1>3. 0 \in Good
  <2>1. \A x \in Word : Cardinality(x) = 0 => x = {}
    BY WordsAreFinite, FS_EmptySet
  <2> QED
    BY <2>1
<1>4. ASSUME NEW m \in Nat, m \in Good PROVE m + 1 \in Good
  <2> SUFFICES ASSUME NEW x \in Word, Cardinality(x) = m + 1 PROVE Fine(x)
    OBVIOUS
  <2> DEFINE c == CHOOSE b \in x : TRUE
  <2>1. c \in x
    <3>1. x # {}
      BY FS_EmptySet
    <3> QED
      BY <3>1
  <2>2. Num[x] = 2 ^ c + Num[x \ {c}]
    BY <2>1, NumUnfolds
  <2> HIDE DEF c
  <2>3. \A b \in x : x \ {b} \in Word /\ Cardinality(x \ {b}) = m /\ b \in Nat
    BY OneLess DEF Word, Positions
  <2>4. \A b \in x : Fine(x \ {b})
    BY <1>4, <2>3
  <2>5. \A b \in x : 2 ^ b \in Nat /\ Num[x \ {b}] \in Nat
    BY <2>3, NumIsNat, PowerIs
  <2>7. ASSUME NEW b \in x, b # c PROVE Num[x] = 2 ^ b + Num[x \ {b}]
    <3>1. Num[x \ {c}] = 2 ^ b + Num[(x \ {c}) \ {b}]
      BY <2>1, <2>4, <2>7
    <3>2. Num[x \ {b}] = 2 ^ c + Num[(x \ {b}) \ {c}]
      BY <2>1, <2>4, <2>7
    <3>3. (x \ {c}) \ {b} = (x \ {b}) \ {c}
      OBVIOUS
    <3>4. Num[(x \ {c}) \ {b}] \in Nat
      <4>1. (x \ {c}) \ {b} \in Word
        BY <2>3 DEF Word
      <4> QED
        BY <4>1, NumIsNat
    <3> DEFINE rest == Num[(x \ {c}) \ {b}]
    <3>5. Num[x \ {c}] = 2 ^ b + rest /\ Num[x \ {b}] = 2 ^ c + rest
      BY <3>1, <3>2, <3>3
    <3> HIDE DEF rest
    <3>6. Num[x] = 2 ^ c + (2 ^ b + rest) /\ 2 ^ b \in Nat /\ 2 ^ c \in Nat
      BY <2>1, <2>2, <2>5, <3>5
    <3>7. rest \in Nat
      BY <3>4 DEF rest
    <3> QED
      BY <3>5, <3>6, <3>7
  <2> QED
    BY <2>2, <2>7
<1>5. Good \in SUBSET Nat
  OBVIOUS
<1>6. \A m \in Nat : m \in Good
  <2> HIDE DEF Good
  <2> QED
    BY <1>3, <1>4, <1>5, AllNat
<1>7. \A x \in Word : Fine(x)
  BY <1>6, WordsAreFinite
<1> QED
  BY <1>7

-------------------------------------------------------------------------------
(* Numbers and their bits. *)

\* What quotient and remainder are.
LEMMA Divides ==
  ASSUME NEW n \in Int, NEW d \in Nat \ {0}
  PROVE  /\ n \div d \in Int /\ n % d \in 0 .. d - 1
         /\ n = d * (n \div d) + (n % d)
  OBVIOUS

\* There is one quotient and one remainder.
LEMMA DividedIs ==
  ASSUME NEW n \in Int, NEW d \in Nat \ {0}, NEW q \in Int, NEW r \in Int,
         n = d * q + r, 0 <= r, r < d
  PROVE  n \div d = q /\ n % d = r
<1>1. n \div d = q
  OBVIOUS
<1>2. n = d * (n \div d) + (n % d) /\ n % d \in Int
  OBVIOUS
<1> QED
  BY <1>1, <1>2

\* The remainder by twice a number.
LEMMA TwiceDivides ==
  ASSUME NEW n \in Int, NEW d \in Nat \ {0}
  PROVE  /\ n % (2 * d) = (n % d) + d * ((n \div d) % 2)
         /\ n \div (2 * d) = (n \div d) \div 2
<1> DEFINE q == n \div d
           r == n % d
           p == q \div 2
           s == q % 2
<1>1. q \in Int /\ r \in 0 .. d - 1 /\ n = d * q + r
  BY Divides
<1> HIDE DEF q, r
<1>2. p \in Int /\ s \in {0, 1} /\ q = 2 * p + s
  BY <1>1
<1> HIDE DEF p, s
<1>3. d * q = (2 * d) * p + d * s
  BY <1>2
<1>4. d * s \in {0, d}
  BY <1>2
<1> DEFINE e == d * s
           dd == 2 * d
<1>5. n = dd * p + (e + r) /\ dd \in Nat \ {0}
  BY <1>1, <1>2, <1>3
<1>6. e \in {0, d}
  BY <1>4
<1> HIDE DEF e, dd
<1>7. 0 <= e + r /\ e + r < dd /\ e + r \in Int
  BY <1>1, <1>6 DEF dd
<1>8. n \div dd = p /\ n % dd = e + r
  BY <1>2, <1>5, <1>7, DividedIs
<1> QED
  BY <1>1, <1>6, <1>8 DEF dd, e, q, r, p, s

Below(x, n) == x \intersect (0 .. n - 1)

\* One bit more.
LEMMA BelowStep ==
  ASSUME NEW x \in Word, NEW n \in 0 .. W - 1
  PROVE  Num[Below(x, n + 1)] = Num[Below(x, n)] + (IF n \in x THEN 2 ^ n ELSE 0)
<1>1. Below(x, n + 1) \in Word /\ Below(x, n) \in Word
  BY DEF Below, Word
<1>2. Num[Below(x, n)] \in Nat /\ 2 ^ n \in Nat
  BY <1>1, NumIsNat, PowerIs
<1>3. CASE n \in x
  <2>1. n \in Below(x, n + 1) /\ Below(x, n + 1) \ {n} = Below(x, n)
    BY <1>3 DEF Below, Word, Positions
  <2>2. Num[Below(x, n + 1)] = 2 ^ n + Num[Below(x, n + 1) \ {n}]
    BY <1>1, <2>1, NumLess
  <2>3. Num[Below(x, n + 1) \ {n}] = Num[Below(x, n)]
    BY <2>1, Zenon
  <2> QED
    BY <1>2, <1>3, <2>2, <2>3
<1>4. CASE n \notin x
  <2>1. Below(x, n + 1) = Below(x, n)
    BY <1>4 DEF Below, Word, Positions
  <2>2. Num[Below(x, n + 1)] = Num[Below(x, n)]
    BY <2>1, Zenon
  <2> QED
    BY <1>2, <1>4, <2>2
<1> QED
  BY <1>3, <1>4

\* The whole word and no bit at all.
LEMMA BelowAll ==
  ASSUME NEW x \in Word
  PROVE  Below(x, W) = x /\ Below(x, 0) = {} /\ \A n \in Int : Below(x, n) \in Word
<1>1. x \subseteq 0 .. W - 1
  BY DEF Word, Positions
<1>2. Below(x, 0) = {}
  <2>1. 0 .. 0 - 1 = {}
    OBVIOUS
  <2> QED
    BY <2>1 DEF Below
<1>3. Below(x, W) = x
  BY <1>1 DEF Below
<1>4. \A n \in Int : Below(x, n) \in Word
  BY DEF Below, Word
<1> QED
  BY <1>2, <1>3, <1>4

\* As much for the sums.
LEMMA NumBelowAll ==
  ASSUME NEW x \in Word
  PROVE  Num[Below(x, W)] = Num[x] /\ Num[Below(x, 0)] = 0 /\ Num[{}] = 0
<1>1. Num[Below(x, W)] = Num[x]
  BY BelowAll, Zenon
<1>2. Num[Below(x, 0)] = Num[{}]
  BY BelowAll, Zenon
<1> QED
  BY <1>1, <1>2, NumIsNat

\* The bits below n are less than 2^n.
LEMMA BelowIsSmall ==
  ASSUME NEW x \in Word
  PROVE  \A n \in 0 .. W : Num[Below(x, n)] \in 0 .. 2 ^ n - 1
<1> DEFINE Good == {n \in Nat : n <= W => Num[Below(x, n)] \in 0 .. 2 ^ n - 1}
<1>1. 0 \in Good
  BY NumBelowAll, PowerIs
<1>2. ASSUME NEW n \in Nat, n \in Good PROVE n + 1 \in Good
  <2> SUFFICES ASSUME n + 1 <= W PROVE Num[Below(x, n + 1)] \in 0 .. 2 ^ (n + 1) - 1
    OBVIOUS
  <2>1. Num[Below(x, n + 1)] = Num[Below(x, n)] + (IF n \in x THEN 2 ^ n ELSE 0)
    BY WidthIs, BelowStep
  <2>2. Num[Below(x, n)] \in 0 .. 2 ^ n - 1
    BY <1>2, WidthIs
  <2>3. 2 ^ (n + 1) = 2 * 2 ^ n /\ 2 ^ n \in Nat
    BY PowerIs
  <2> QED
    BY <2>1, <2>2, <2>3
<1>3. Good \in SUBSET Nat
  OBVIOUS
<1> HIDE DEF Good
<1>4. \A n \in Nat : n \in Good
  BY <1>1, <1>2, <1>3, AllNat
<1> QED
  BY <1>4 DEF Good

\* A number's lower bits are its remainder.
LEMMA NumBelow ==
  ASSUME NEW m \in Int
  PROVE  \A n \in 0 .. W : Num[Below(Bits[m], n)] = m % 2 ^ n
<1> DEFINE x == Bits[m]
           Good == {n \in Nat : n <= W => Num[Below(x, n)] = m % 2 ^ n}
<1>0. x \in Word
  BY DEF Bits, Word
<1>1. 0 \in Good
  <2>1. m % 1 = 0
    OBVIOUS
  <2> HIDE DEF x
  <2> QED
    BY <1>0, <2>1, NumBelowAll, PowerIs
<1>2. ASSUME NEW n \in Nat, n \in Good PROVE n + 1 \in Good
  <2> SUFFICES ASSUME n + 1 <= W PROVE Num[Below(x, n + 1)] = m % 2 ^ (n + 1)
    OBVIOUS
  <2>1. n \in x <=> (m \div 2 ^ n) % 2 = 1
    BY WidthIs DEF Bits, Positions
  <2> HIDE DEF x
  <2>2. Num[Below(x, n + 1)] = Num[Below(x, n)] + (IF n \in x THEN 2 ^ n ELSE 0)
    BY <1>0, WidthIs, BelowStep
  <2>3. Num[Below(x, n)] = m % 2 ^ n
    BY <1>2, WidthIs
  <2>4. 2 ^ (n + 1) = 2 * 2 ^ n /\ 2 ^ n \in Nat \ {0}
    BY PowerIs, PowerPositive
  <2> DEFINE d == 2 ^ n
  <2>5. m % (2 * d) = (m % d) + d * ((m \div d) % 2)
    BY <2>4, TwiceDivides
  <2>6. (m \div d) % 2 \in {0, 1} /\ m % d \in Int
    BY <2>4
  <2> HIDE DEF d
  <2>7. d * ((m \div d) % 2) = IF (m \div d) % 2 = 1 THEN d ELSE 0
    BY <2>4, <2>6 DEF d
  <2> QED
    BY <2>1, <2>2, <2>3, <2>4, <2>5, <2>7 DEF d
<1>3. Good \in SUBSET Nat
  OBVIOUS
<1> HIDE DEF Good
<1>4. \A n \in Nat : n \in Good
  BY <1>1, <1>2, <1>3, AllNat
<1> QED
  BY <1>4 DEF Good

\* The word of a number stands for it, modulo 2^W.
LEMMA NumOfBits ==
  ASSUME NEW m \in Int
  PROVE  Bits[m] \in Word /\ Num[Bits[m]] = m % 2 ^ W
<1>1. Bits[m] \in Word
  BY DEF Bits, Word
<1> QED
  BY <1>1, NumBelow, NumBelowAll, WidthIs

\* A word is an unsigned number.
LEMMA NumInRange == \A x \in Word : Num[x] \in 0 .. 2 ^ W - 1
  BY BelowIsSmall, NumBelowAll, WidthIs

\* Different words stand for different numbers.
LEMMA NumDiffers ==
  ASSUME NEW x \in Word, NEW y \in Word, Num[x] = Num[y]
  PROVE  x = y
<1> DEFINE Good == {n \in Nat : n <= W => Num[Below(x, W - n)] = Num[Below(y, W - n)]
                                          /\ \A b \in W - n .. W - 1 : b \in x <=> b \in y}
<1>1. 0 \in Good
  BY NumBelowAll, WidthIs
<1>2. ASSUME NEW n \in Nat, n \in Good PROVE n + 1 \in Good
  <2> SUFFICES ASSUME n + 1 <= W
               PROVE  Num[Below(x, W - (n + 1))] = Num[Below(y, W - (n + 1))]
                      /\ \A b \in W - (n + 1) .. W - 1 : b \in x <=> b \in y
    OBVIOUS
  <2> DEFINE k == W - (n + 1)
  <2>1. k \in 0 .. W - 1 /\ k + 1 = W - n /\ k \in Nat
    BY WidthIs
  <2>2. Num[Below(x, k + 1)] = Num[Below(x, k)] + (IF k \in x THEN 2 ^ k ELSE 0)
    BY <2>1, BelowStep
  <2>3. Num[Below(y, k + 1)] = Num[Below(y, k)] + (IF k \in y THEN 2 ^ k ELSE 0)
    BY <2>1, BelowStep
  <2>4. Num[Below(x, k)] \in 0 .. 2 ^ k - 1 /\ Num[Below(y, k)] \in 0 .. 2 ^ k - 1
    BY <2>1, BelowIsSmall, WidthIs
  <2> HIDE DEF k
  <2>5. Num[Below(x, k + 1)] = Num[Below(y, k + 1)] /\ \A b \in k + 1 .. W - 1 : b \in x <=> b \in y
    <3>1. n <= W
      BY WidthIs
    <3>2. Num[Below(x, W - n)] = Num[Below(y, W - n)] /\ \A b \in W - n .. W - 1 : b \in x <=> b \in y
      BY <1>2, <3>1
    <3> QED
      BY <2>1, <3>2
  <2>6. 2 ^ k \in Nat
    BY <2>1, PowerIs
  <2>7. (k \in x <=> k \in y) /\ Num[Below(x, k)] = Num[Below(y, k)]
    BY <2>2, <2>3, <2>4, <2>5, <2>6
  <2>8. \A b \in k .. W - 1 : b = k \/ b \in k + 1 .. W - 1
    BY <2>1, WidthIs
  <2> QED
    BY <2>5, <2>7, <2>8 DEF k
<1>3. Good \in SUBSET Nat
  OBVIOUS
<1>4. \A n \in Nat : n \in Good
  <2> HIDE DEF Good
  <2> QED
    BY <1>1, <1>2, <1>3, AllNat
<1>5. \A b \in 0 .. W - 1 : b \in x <=> b \in y
  BY <1>4, WidthIs
<1> QED
  BY <1>5 DEF Word, Positions

\* The bits of a word's number are the word.
LEMMA BitsOfNum ==
  ASSUME NEW x \in Word
  PROVE  Bits[Num[x]] = x
<1>1. Num[x] \in 0 .. 2 ^ W - 1 /\ 2 ^ W \in Nat \ {0} /\ Num[x] \in Int
  BY NumInRange, WidthIs, PowerPositive
<1>2. Num[x] % 2 ^ W = Num[x]
  BY <1>1
<1> QED
  BY <1>1, <1>2, NumOfBits, NumDiffers

\* What differs by a multiple of 2^W has the same bits.
LEMMA SameBits ==
  ASSUME NEW m \in Int, NEW n \in Int, NEW k \in Int, m = n + k * 2 ^ W
  PROVE  Bits[m] = Bits[n]
<1> DEFINE d == 2 ^ W
<1>1. d \in Nat \ {0}
  BY WidthIs, PowerPositive
<1> HIDE DEF d
<1>2. m % d = n % d
  <2>1. n = d * (n \div d) + (n % d) /\ n \div d \in Int /\ n % d \in 0 .. d - 1
    BY <1>1, Divides
  <2>2. m = n + k * d
    BY DEF d
  <2> DEFINE q == n \div d
             r == n % d
  <2>3. k * d + d * q = d * (q + k) /\ q \in Int /\ r \in 0 .. d - 1 /\ n = d * q + r
    BY <1>1, <2>1
  <2> DEFINE p == q + k
  <2> HIDE DEF q, r
  <2>4. m = d * p + r /\ p \in Int
    BY <1>1, <2>2, <2>3
  <2> HIDE DEF p
  <2>5. r \in Int /\ 0 <= r /\ r < d
    BY <1>1, <2>3
  <2>6. m % d = r
    BY <1>1, <2>4, <2>5, DividedIs
  <2> QED
    BY <2>6 DEF r
<1> QED
  BY <1>2, NumOfBits, NumDiffers DEF d

-------------------------------------------------------------------------------
(* Words as unsigned and as signed numbers. *)

\* The powers of the width and of its positions.
LEMMA PowerFacts ==
  /\ W - 1 \in Nat /\ W \in Nat /\ W - 1 \in Positions /\ W >= 1
  /\ 2 ^ W = 2 * 2 ^ (W - 1) /\ 2 ^ W \in Nat \ {0} /\ 2 ^ (W - 1) \in Nat \ {0}
  /\ \A b \in Positions : b \in Nat /\ b < W /\ 2 ^ b \in Nat \ {0}
<1>1. W - 1 \in Nat /\ W \in Nat /\ W - 1 \in Positions /\ (W - 1) + 1 = W /\ W >= 1
  BY WidthIs DEF Positions
<1>2. 2 ^ ((W - 1) + 1) = 2 * 2 ^ (W - 1)
  BY <1>1, PowerIs
<1>3. \A b \in Positions : b \in Nat /\ b < W /\ 2 ^ b \in Nat \ {0}
  BY WidthIs, PowerPositive DEF Positions
<1> QED
  BY <1>1, <1>2, <1>3, PowerPositive

\* Words without a bit in common add up.
LEMMA NumUnion ==
  ASSUME NEW x \in Word, NEW y \in Word, x \intersect y = {}
  PROVE  x \union y \in Word /\ Num[x \union y] = Num[x] + Num[y]
<1> DEFINE z == x \union y
           Good == {n \in Nat : n <= W => Num[Below(z, n)] = Num[Below(x, n)] + Num[Below(y, n)]}
<1>1. z \in Word /\ \A b \in Nat : b \in z <=> (b \in x \/ b \in y)
  BY DEF Word
<1>2. \A b \in Nat : ~(b \in x /\ b \in y)
  OBVIOUS
<1> HIDE DEF z
<1>3. 0 \in Good
  BY <1>1, NumBelowAll
<1>4. ASSUME NEW n \in Nat, n \in Good PROVE n + 1 \in Good
  <2> SUFFICES ASSUME n + 1 <= W
               PROVE  Num[Below(z, n + 1)] = Num[Below(x, n + 1)] + Num[Below(y, n + 1)]
    OBVIOUS
  <2>1. Num[Below(z, n)] = Num[Below(x, n)] + Num[Below(y, n)] /\ n \in 0 .. W - 1 /\ n \in 0 .. W
    BY <1>4, WidthIs
  <2>2. /\ Num[Below(x, n + 1)] = Num[Below(x, n)] + (IF n \in x THEN 2 ^ n ELSE 0)
        /\ Num[Below(y, n + 1)] = Num[Below(y, n)] + (IF n \in y THEN 2 ^ n ELSE 0)
        /\ Num[Below(z, n + 1)] = Num[Below(z, n)] + (IF n \in z THEN 2 ^ n ELSE 0)
    BY <1>1, <2>1, BelowStep
  <2>3. 2 ^ n \in Nat
    BY PowerIs
  <2>4. Below(x, n) \in Word /\ Below(y, n) \in Word
    BY DEF Below, Word
  <2>5. Num[Below(x, n)] \in Nat /\ Num[Below(y, n)] \in Nat
    BY <2>4, NumIsNat
  <2> QED
    BY <1>1, <1>2, <2>1, <2>2, <2>3, <2>5
<1>5. Good \in SUBSET Nat
  OBVIOUS
<1>6. \A n \in Nat : n \in Good
  <2> HIDE DEF Good
  <2> QED
    BY <1>3, <1>4, <1>5, AllNat
<1>7. Num[z] = Num[x] + Num[y]
  BY <1>1, <1>6, NumBelowAll, WidthIs
<1> QED
  BY <1>1, <1>7 DEF z

\* A single bit.
LEMMA NumOne ==
  ASSUME NEW b \in Positions
  PROVE  {b} \in Word /\ Num[{b}] = 2 ^ b
<1>1. {b} \in Word
  BY DEF Word
<1>2. Num[{b}] = 2 ^ b + Num[{b} \ {b}]
  BY <1>1, NumLess
<1>3. Num[{b} \ {b}] = Num[{}]
  <2>1. {b} \ {b} = {}
    OBVIOUS
  <2> QED
    BY <2>1, Zenon
<1> QED
  BY <1>1, <1>2, <1>3, NumIsNat, PowerFacts

\* All bits: the largest unsigned number.
LEMMA NumAll == Positions \in Word /\ Num[Positions] = 2 ^ W - 1
<1> DEFINE Good == {n \in Nat : n <= W => Num[Below(Positions, n)] = 2 ^ n - 1}
<1>1. Positions \in Word
  BY DEF Word
<1>2. 0 \in Good
  BY <1>1, NumBelowAll, PowerIs
<1>3. ASSUME NEW n \in Nat, n \in Good PROVE n + 1 \in Good
  <2> SUFFICES ASSUME n + 1 <= W PROVE Num[Below(Positions, n + 1)] = 2 ^ (n + 1) - 1
    OBVIOUS
  <2>1. Num[Below(Positions, n)] = 2 ^ n - 1 /\ n \in 0 .. W - 1 /\ n \in Positions
    BY <1>3, WidthIs DEF Positions
  <2>2. Num[Below(Positions, n + 1)] = Num[Below(Positions, n)] + (IF n \in Positions THEN 2 ^ n ELSE 0)
    BY <1>1, <2>1, BelowStep
  <2>3. 2 ^ (n + 1) = 2 * 2 ^ n /\ 2 ^ n \in Nat
    BY PowerIs
  <2> QED
    BY <2>1, <2>2, <2>3
<1>4. Good \in SUBSET Nat
  OBVIOUS
<1>5. \A n \in Nat : n \in Good
  <2> HIDE DEF Good
  <2> QED
    BY <1>2, <1>3, <1>4, AllNat
<1> QED
  BY <1>1, <1>5, NumBelowAll, WidthIs

\* The complement, as an unsigned number.
LEMMA NumCompl ==
  ASSUME NEW x \in Word
  PROVE  Compl(x) \in Word /\ Num[Compl(x)] = 2 ^ W - 1 - Num[x]
<1>1. Compl(x) \in Word /\ x \intersect Compl(x) = {} /\ x \union Compl(x) = Positions
  BY DEF Compl, Word
<1>2. Num[x \union Compl(x)] = Num[x] + Num[Compl(x)]
  BY <1>1, NumUnion
<1>3. Num[x \union Compl(x)] = Num[Positions]
  BY <1>1, Zenon
<1> QED
  BY <1>1, <1>2, <1>3, NumAll, NumIsNat, PowerFacts

\* Zero, one and the smallest int.
LEMMA NumUnit ==
  /\ Unit \in Word /\ Num[Unit] = 1 /\ Zero \in Word /\ Num[Zero] = 0
  /\ Tmin \in Word /\ Num[Tmin] = 2 ^ (W - 1)
<1>1. 0 \in Positions
  BY WidthIs DEF Positions
<1>2. Zero \in Word /\ Num[Zero] = 0
  BY NumIsNat DEF Zero, Word
<1> QED
  BY <1>1, <1>2, NumOne, PowerIs, PowerFacts DEF Unit, Tmin

\* The rest of a division by 2^n is what the lowest n bits stand for.
LEMMA NumRest ==
  ASSUME NEW x \in Word, NEW n \in 0 .. W
  PROVE  /\ Num[Below(x, n)] = Num[x] % 2 ^ n
         /\ Num[x] = Num[Below(x, n)] + Num[x \ (0 .. n - 1)]
<1>1. Num[Below(Bits[Num[x]], n)] = Num[x] % 2 ^ n
  BY NumIsNat, NumBelow
<1>2. Bits[Num[x]] = x
  BY BitsOfNum
<1>3. Num[Below(Bits[Num[x]], n)] = Num[Below(x, n)]
  BY <1>2, Zenon
<1>4. Num[x] = Num[Below(x, n)] + Num[x \ (0 .. n - 1)]
  <2> DEFINE y == x \ (0 .. n - 1)
  <2>1. Below(x, n) \in Word /\ y \in Word /\ Below(x, n) \intersect y = {} /\ Below(x, n) \union y = x
    BY DEF Below, Word
  <2> HIDE DEF y
  <2>2. Num[Below(x, n) \union y] = Num[Below(x, n)] + Num[y]
    BY <2>1, NumUnion
  <2>3. Num[Below(x, n) \union y] = Num[x]
    BY <2>1, Zenon
  <2> QED
    BY <2>2, <2>3 DEF y
<1> QED
  BY <1>1, <1>3, <1>4

\* A bit of a word is one of its number.
LEMMA BitOfNum ==
  ASSUME NEW x \in Word, NEW b \in Positions
  PROVE  b \in x <=> (Num[x] \div 2 ^ b) % 2 = 1
<1>1. b \in Bits[Num[x]] <=> (Num[x] \div 2 ^ b) % 2 = 1
  BY NumIsNat DEF Bits
<1>2. b \in Bits[Num[x]] <=> b \in x
  BY BitsOfNum
<1> QED
  BY <1>1, <1>2

\* The sign bit says which half of the unsigned numbers a word is in.
LEMMA NegativeIs ==
  ASSUME NEW x \in Word
  PROVE  /\ Negative(x) <=> Num[x] >= 2 ^ (W - 1)
         /\ Int_(x) \in - 2 ^ (W - 1) .. 2 ^ (W - 1) - 1
         /\ Negative(x) <=> Int_(x) < 0
         /\ Int_(x) = Num[x] \/ Int_(x) = Num[x] - 2 ^ W
<1>1. W - 1 \in 0 .. W - 1 /\ W - 1 \in 0 .. W /\ (W - 1) + 1 = W
  BY WidthIs
<1>2. Num[x] = Num[Below(x, W - 1)] + (IF W - 1 \in x THEN 2 ^ (W - 1) ELSE 0)
  BY <1>1, BelowStep, NumBelowAll
<1>3. Num[Below(x, W - 1)] \in 0 .. 2 ^ (W - 1) - 1
  BY <1>1, BelowIsSmall
<1>4. Num[x] \in 0 .. 2 ^ W - 1
  BY NumInRange
<1> QED
  BY <1>2, <1>3, <1>4, PowerFacts DEF Negative, Int_

\* The bits of a word's int are the word.
LEMMA BitsOfInt ==
  ASSUME NEW x \in Word
  PROVE  Bits[Int_(x)] = x
<1>1. CASE Int_(x) = Num[x]
  BY <1>1, BitsOfNum
<1>2. CASE Int_(x) = Num[x] - 2 ^ W
  <2>1. Num[x] = Int_(x) + 1 * 2 ^ W /\ Num[x] \in Int /\ Int_(x) \in Int
    BY <1>2, NumIsNat, PowerFacts
  <2>2. Bits[Num[x]] = Bits[Int_(x)]
    BY <2>1, SameBits
  <2> QED
    BY <2>2, BitsOfNum
<1> QED
  BY <1>1, <1>2, NegativeIs

\* An int survives its way through a word.
LEMMA IntOfBits ==
  ASSUME NEW n \in - 2 ^ (W - 1) .. 2 ^ (W - 1) - 1
  PROVE  Bits[n] \in Word /\ Int_(Bits[n]) = n
<1> DEFINE d == 2 ^ W
           h == 2 ^ (W - 1)
           x == Bits[n]
<1>1. d \in Nat \ {0} /\ h \in Nat \ {0} /\ d = 2 * h
  BY PowerFacts
<1>2. n \in Int /\ -h <= n /\ n < h
  BY <1>1
<1>3. x \in Word /\ Num[x] = n % d
  BY <1>2, NumOfBits
<1>4. (Negative(x) <=> Num[x] >= h) /\ Int_(x) = IF Negative(x) THEN Num[x] - d ELSE Num[x]
  BY <1>3, NegativeIs DEF Int_
<1> HIDE DEF x, d, h
<1>5. CASE n >= 0
  <2>1. n = d * 0 + n /\ n < d
    BY <1>1, <1>2, <1>5
  <2>2. n % d = n
    BY <1>1, <1>2, <1>5, <2>1, DividedIs
  <2> QED
    BY <1>1, <1>2, <1>3, <1>4, <2>2 DEF x
<1>6. CASE n < 0
  <2> DEFINE r == n + d
  <2>1. n = d * (-1) + r /\ r < d /\ 0 <= r /\ r \in Int /\ -1 \in Int
    BY <1>1, <1>2, <1>6
  <2> HIDE DEF r
  <2>2. n % d = r
    BY <1>1, <1>2, <2>1, DividedIs
  <2>3. r >= h /\ r - d = n
    BY <1>1, <1>2 DEF r
  <2> QED
    BY <1>3, <1>4, <2>2, <2>3 DEF x
<1> QED
  BY <1>2, <1>5, <1>6

\* An unsigned number survives its way through a word.
LEMMA NumOfSmall ==
  ASSUME NEW n \in 0 .. 2 ^ W - 1
  PROVE  Bits[n] \in Word /\ Num[Bits[n]] = n
<1>1. n \in Int /\ n % 2 ^ W = n
  BY PowerFacts
<1> QED
  BY <1>1, NumOfBits

\* A sum is that of the signed numbers as well.
LEMMA PlusIs ==
  ASSUME NEW x \in Word, NEW y \in Word
  PROVE  Plus(x, y) \in Word /\ Plus(x, y) = Bits[Int_(x) + Int_(y)]
<1> DEFINE d == 2 ^ W
           a == Num[x] + Num[y]
           b == Int_(x) + Int_(y)
<1>1. d \in Nat /\ a \in Int /\ b \in Int
  BY NumIsNat, NegativeIs, PowerFacts
<1>2. \E k \in Int : a = b + k * d
  <2>1. \/ a = b + 0 * d \/ a = b + 1 * d \/ a = b + 2 * d
    BY NegativeIs, NumIsNat, PowerFacts
  <2> QED
    BY <2>1
<1>3. Bits[a] = Bits[b]
  <2> HIDE DEF a, b
  <2>1. PICK k \in Int : a = b + k * d
    BY <1>2
  <2> QED
    BY <1>1, <2>1, SameBits
<1> QED
  BY <1>1, <1>3, NumOfBits DEF Plus

\* The complement, as an int.
LEMMA ComplIs ==
  ASSUME NEW x \in Word
  PROVE  Compl(x) \in Word /\ Int_(Compl(x)) = - Int_(x) - 1
<1>1. Compl(x) \in Word /\ Num[Compl(x)] = 2 ^ W - 1 - Num[x]
  BY NumCompl
<1>2. Negative(Compl(x)) <=> ~Negative(x)
  BY PowerFacts DEF Negative, Compl
<1> QED
  BY <1>1, <1>2, NumIsNat, PowerFacts DEF Int_

-------------------------------------------------------------------------------
(* Texts as words. *)

\* What fits is an int or an unsigned.
LEMMA FitsIs ==
  ASSUME NEW n \in Int
  PROVE  Fits(n) <=> - 2 ^ (W - 1) <= n /\ n < 2 ^ W
<1> DEFINE h == 2 ^ (W - 1)
           q == n \div h
           r == n % h
<1>1. h \in Nat \ {0} /\ 2 ^ W = 2 * h
  BY PowerFacts
<1> HIDE DEF h
<1>2. q \in Int /\ r \in 0 .. h - 1 /\ n = h * q + r
  BY <1>1, Divides
<1>3. Fits(n) <=> q \in {0, -1, 1}
  BY DEF Fits, h
<1> HIDE DEF q, r
<1>4. ASSUME q \in {0, -1, 1} PROVE -h <= n /\ n < 2 * h
  BY <1>1, <1>2, <1>4
<1>5. ASSUME -h <= n, n < 2 * h PROVE q \in {0, -1, 1}
  <2>1. ~(q >= 2)
    <3> SUFFICES ASSUME q >= 2 PROVE FALSE
      OBVIOUS
    <3>1. h * q >= h * 2
      BY <1>1, <1>2
    <3> QED
      BY <1>1, <1>2, <1>5, <3>1
  <2>2. ~(q <= -2)
    <3> SUFFICES ASSUME q <= -2 PROVE FALSE
      OBVIOUS
    <3>1. h * q <= h * (-2)
      BY <1>1, <1>2
    <3> QED
      BY <1>1, <1>2, <1>5, <3>1
  <2> QED
    BY <1>2, <2>1, <2>2
<1> QED
  BY <1>1, <1>3, <1>4, <1>5 DEF h

\* btest.c:458: what fits is stored as the int or the unsigned typed.
LEMMA FitsIsTyped ==
  ASSUME NEW n \in Int, Fits(n)
  PROVE  Bits[n] \in Word /\ n \in {Int_(Bits[n]), Num[Bits[n]]}
<1>1. - 2 ^ (W - 1) <= n /\ n < 2 ^ W
  BY FitsIs
<1>2. CASE n < 0
  <2>1. n \in - 2 ^ (W - 1) .. 2 ^ (W - 1) - 1
    BY <1>1, <1>2, PowerFacts
  <2> QED
    BY <2>1, IntOfBits
<1>3. CASE n >= 0
  <2>1. n \in 0 .. 2 ^ W - 1
    BY <1>1, <1>3, PowerFacts
  <2> QED
    BY <2>1, NumOfSmall
<1> QED
  BY <1>2, <1>3

\* What is refused is no int and no unsigned.
LEMMA NothingElseFits ==
  ASSUME NEW n \in Int, NEW w \in Word, n \in {Int_(w), Num[w]}
  PROVE  Fits(n)
<1>1. Num[w] \in 0 .. 2 ^ W - 1
  BY NumInRange
<1>2. Int_(w) \in - 2 ^ (W - 1) .. 2 ^ (W - 1) - 1
  BY NegativeIs
<1> QED
  BY <1>1, <1>2, FitsIs, PowerFacts

-------------------------------------------------------------------------------
(* Shifts. *)

\* What is shifted is a word again.
LEMMA ShiftsAreWords == \A x, n : Shl(x, n) \in Word /\ Shr(x, n) \in Word
  BY DEF Shl, Shr, Word

\* A shift to the left drops what leaves the word and multiplies the rest.
LEMMA NumShl ==
  ASSUME NEW x \in Word, NEW n \in 0 .. W
  PROVE  Num[Shl(x, n)] = Num[Below(x, W - n)] * 2 ^ n
<1> DEFINE y == Shl(x, n)
           Good == {k \in Nat : k + n <= W => Num[Below(y, k + n)] = Num[Below(x, k)] * 2 ^ n}
<1>1. y \in Word /\ W \in Nat /\ n \in Nat /\ 2 ^ n \in Nat
  BY ShiftsAreWords, WidthIs, PowerIs
<1>2. ASSUME NEW k \in Nat, k + n < W PROVE k + n \in y <=> k \in x
  BY <1>1, <1>2 DEF Shl, Positions, Word
<1>3. \A b \in y : b >= n
  BY <1>1 DEF Shl, Word, Positions
<1> HIDE DEF y
<1>4. 0 \in Good
  <2>1. Below(y, 0 + n) = {}
    BY <1>1, <1>3 DEF Below, Word, Positions
  <2>2. Num[Below(y, 0 + n)] = Num[{}]
    BY <2>1, Zenon
  <2>3. Num[Below(x, 0)] * 2 ^ n = 0
    BY <1>1, NumBelowAll
  <2> QED
    BY <2>2, <2>3, NumIsNat
<1>5. ASSUME NEW k \in Nat, k \in Good PROVE k + 1 \in Good
  <2> SUFFICES ASSUME (k + 1) + n <= W PROVE Num[Below(y, (k + 1) + n)] = Num[Below(x, k + 1)] * 2 ^ n
    OBVIOUS
  <2> DEFINE a == Num[Below(x, k)]
             p == 2 ^ k
             s == 2 ^ n
  <2>1. /\ k \in 0 .. W - 1 /\ k + n \in 0 .. W - 1 /\ (k + 1) + n = (k + n) + 1
        /\ Num[Below(y, k + n)] = a * s /\ k + n < W
    BY <1>1, <1>5
  <2>2. Num[Below(x, k + 1)] = a + (IF k \in x THEN p ELSE 0)
    BY <2>1, BelowStep
  <2>3. Num[Below(y, (k + n) + 1)] = Num[Below(y, k + n)] + (IF k + n \in y THEN 2 ^ (k + n) ELSE 0)
    BY <1>1, <2>1, BelowStep
  <2>4. 2 ^ (k + n) = p * s
    BY <1>1, PowerAdds
  <2>5. a \in Nat
    BY BelowAll, NumIsNat
  <2>6. p \in Nat /\ s \in Nat
    BY <1>1, PowerIs
  <2>7. k + n \in y <=> k \in x
    BY <1>2, <2>1
  <2> HIDE DEF a, p, s
  <2>8. CASE k \in x
    <3>1. (a + p) * s = a * s + p * s
      BY <2>5, <2>6
    <3> QED
      BY <2>1, <2>2, <2>3, <2>4, <2>7, <2>8, <3>1 DEF s
  <2>9. CASE k \notin x
    <3>1. Num[Below(x, k + 1)] = a
      BY <2>2, <2>5, <2>9
    <3>2. Num[Below(y, (k + n) + 1)] = a * s
      BY <2>1, <2>3, <2>5, <2>6, <2>7, <2>9
    <3> QED
      BY <2>1, <3>1, <3>2 DEF s
  <2> QED
    BY <2>8, <2>9
<1>6. Good \in SUBSET Nat
  OBVIOUS
<1>7. \A k \in Nat : k \in Good
  <2> HIDE DEF Good
  <2> QED
    BY <1>4, <1>5, <1>6, AllNat
<1>8. W - n \in Nat /\ (W - n) + n = W
  BY <1>1
<1>9. Num[Below(y, W)] = Num[Below(x, W - n)] * 2 ^ n
  BY <1>7, <1>8
<1> QED
  BY <1>1, <1>9, NumBelowAll DEF y

\* Nothing leaves the word.
LEMMA NumShlAll ==
  ASSUME NEW x \in Word, NEW n \in 0 .. W, \A b \in x : b < W - n
  PROVE  Num[Shl(x, n)] = Num[x] * 2 ^ n
<1>1. Below(x, W - n) = x
  <2>1. \A b \in x : b \in 0 .. (W - n) - 1
    BY WidthIs DEF Word, Positions
  <2> QED
    BY <2>1 DEF Below
<1>2. Num[Below(x, W - n)] = Num[x]
  BY <1>1, Zenon
<1> QED
  BY <1>2, NumShl

\* A shift of a positive int to the right divides it.
LEMMA NumShr ==
  ASSUME NEW x \in Word, NEW n \in 0 .. W, ~Negative(x)
  PROVE  /\ Shr(x, n) = {b \in Positions : b + n \in x}
         /\ Num[Shr(x, n)] = Num[x] \div 2 ^ n
         /\ Num[x \ (0 .. n - 1)] = Num[Shr(x, n)] * 2 ^ n
<1> DEFINE y == Shr(x, n)
           low == Num[Below(x, n)]
           d == 2 ^ n
<1>1. y = {b \in Positions : b + n \in x}
  BY WidthIs DEF Shr, Negative, Word, Positions
<1>2. Shl(y, n) = x \ (0 .. n - 1)
  <2>1. ASSUME NEW b \in x \ (0 .. n - 1) PROVE b \in Shl(y, n)
    <3>1. b - n \in Positions /\ (b - n) + n = b /\ b \in Positions
      BY WidthIs DEF Word, Positions
    <3>2. b - n \in y
      BY <1>1, <3>1
    <3> QED
      BY <3>1, <3>2 DEF Shl
  <2>2. ASSUME NEW b \in Shl(y, n) PROVE b \in x \ (0 .. n - 1)
    <3>1. PICK c \in y : b = c + n
      BY DEF Shl
    <3> QED
      BY <1>1, <3>1, WidthIs DEF Positions
  <2> QED
    BY <2>1, <2>2
<1>3. y \in Word /\ \A b \in y : b < W - n
  BY <1>1, WidthIs DEF Word, Positions
<1> HIDE DEF y
<1>4. Num[Shl(y, n)] = Num[y] * d
  BY <1>3, NumShlAll
<1>5. Num[Shl(y, n)] = Num[x \ (0 .. n - 1)]
  BY <1>2, Zenon
<1>6. Num[x] = low + Num[x \ (0 .. n - 1)] /\ low = Num[x] % d
  BY NumRest
<1>7. d \in Nat \ {0} /\ Num[x] \in Int /\ Num[y] \in Int
  BY <1>3, NumIsNat, PowerPositive, WidthIs
<1>8. low \in 0 .. d - 1
  BY <1>6, <1>7
<1> HIDE DEF d, low
<1>9. Num[x] = d * Num[y] + low
  BY <1>4, <1>5, <1>6, <1>7, <1>8
<1>10. low \in Int /\ 0 <= low /\ low < d
  BY <1>7, <1>8
<1>11. Num[x] \div d = Num[y]
  BY <1>7, <1>9, <1>10, DividedIs
<1> QED
  BY <1>1, <1>4, <1>5, <1>11 DEF y, d

-------------------------------------------------------------------------------
(* The puzzles: sums and comparisons. *)

\* The assumption leaves no room for words of less than eight bits.
LEMMA WordsAreWide == W >= 8 /\ W \in Nat /\ EB \in Nat /\ FB \in Nat /\ FB > 0 /\ FB + EB = W - 1 /\ EB >= 4
<1>1. W \in Nat /\ EB \in Nat /\ EB > 0 /\ FB > 0 /\ FB = W - 1 - EB
  BY BitsAssumption DEF FB
<1>2. /\ 2 ^ 0 = 1 /\ 2 ^ 1 = 2 /\ 2 ^ 2 = 4 /\ 2 ^ 3 = 8
      /\ \A n \in Nat : 2 ^ n \in Nat
  <2>1. 2 ^ (0 + 1) = 2 * 2 ^ 0 /\ 2 ^ (1 + 1) = 2 * 2 ^ 1 /\ 2 ^ (2 + 1) = 2 * 2 ^ 2
    BY PowerIs
  <2> QED
    BY <2>1, PowerIs
<1>3. PICK n \in 0 .. W : 2 ^ n = W
  BY BitsAssumption
<1>4. n \in Nat /\ (n > 3 => 2 ^ n >= 2 * 2 ^ 3)
  BY <1>1, PowerHalves
<1>5. W \in {1, 2, 4} \/ W >= 8
  <2>1. n = 0 => W = 1
    BY <1>2, <1>3, Zenon
  <2>2. n = 1 => W = 2
    BY <1>2, <1>3, Zenon
  <2>3. n = 2 => W = 4
    BY <1>2, <1>3, Zenon
  <2>4. n = 3 => W = 8
    BY <1>2, <1>3, Zenon
  <2>5. n > 3 => W >= 16
    <3>1. 2 * 2 ^ 3 = 16
      BY <1>2
    <3> QED
      BY <1>3, <1>4, <3>1
  <2> QED
    BY <1>1, <1>4, <2>1, <2>2, <2>3, <2>4, <2>5
<1>6. Bias = 2 ^ (EB - 1) - 1 /\ Bias + W - 1 < 2 ^ EB - 1
  BY BitsAssumption DEF Bias
<1>7. W = 4 => EB \in {1, 2}
  BY <1>1
<1>8. EB = 1 => 2 ^ (EB - 1) = 1 /\ 2 ^ EB = 2
  BY <1>2
<1>9. EB = 2 => 2 ^ (EB - 1) = 2 /\ 2 ^ EB = 4
  BY <1>2
<1>10. EB = 3 => 2 ^ (EB - 1) = 4 /\ 2 ^ EB = 8
  BY <1>2
<1>11. W \notin {1, 2}
  BY <1>1
<1>12. W # 4
  BY <1>6, <1>7, <1>8, <1>9
<1>13. EB \notin {1, 2, 3}
  BY <1>1, <1>5, <1>6, <1>8, <1>9, <1>10, <1>11, <1>12
<1> QED
  BY <1>1, <1>5, <1>11, <1>12, <1>13

\* The powers the puzzles' masks are made of.
LEMMA SmallPowers ==
  2 ^ 0 = 1 /\ 2 ^ 1 = 2 /\ 2 ^ 2 = 4 /\ 2 ^ 3 = 8 /\ 2 ^ 4 = 16 /\ 2 ^ 5 = 32 /\ 2 ^ 6 = 64
<1>1. /\ 2 ^ (0 + 1) = 2 * 2 ^ 0 /\ 2 ^ (1 + 1) = 2 * 2 ^ 1 /\ 2 ^ (2 + 1) = 2 * 2 ^ 2
      /\ 2 ^ (3 + 1) = 2 * 2 ^ 3 /\ 2 ^ (4 + 1) = 2 * 2 ^ 4 /\ 2 ^ (5 + 1) = 2 * 2 ^ 5
  BY PowerIs
<1> QED
  BY <1>1, PowerIs

\* Words of small numbers.
LEMMA SmallWords == 
  /\ Int_(Unit) = 1 /\ Bits[0] = Zero /\ Bits[1] = Unit /\ Tmax \in Word
  /\ Num[Tmax] = 2 ^ (W - 1) - 1 /\ Int_(Tmax) = 2 ^ (W - 1) - 1 /\ Int_(Tmin) = - 2 ^ (W - 1)
  /\ Int_(Zero) = 0
<1>1. Int_(Unit) = 1 /\ Int_(Zero) = 0
  BY WordsAreWide, NumUnit DEF Int_, Negative, Unit, Zero
<1>2. Bits[0] = Zero /\ Bits[1] = Unit
  <2>1. Bits[Num[Zero]] = Zero /\ Bits[Num[Unit]] = Unit
    BY NumUnit, BitsOfNum
  <2> QED
    BY <2>1, NumUnit
<1>3. Tmin \in Word /\ Tmax = Compl(Tmin) /\ Negative(Tmin) /\ ~Negative(Tmax)
  BY PowerFacts DEF Tmin, Tmax, Compl, Negative, Word
<1>4. Tmax \in Word /\ Num[Compl(Tmin)] = 2 ^ W - 1 - Num[Tmin]
  BY <1>3, NumCompl
<1>5. Num[Compl(Tmin)] = Num[Tmax]
  BY <1>3, Zenon
<1> QED
  BY <1>1, <1>2, <1>3, <1>4, <1>5, NumUnit, PowerFacts DEF Int_

\* The two representations of a word are one to one.
LEMMA IntDiffers == \A x, y \in Word : Int_(x) = Int_(y) => x = y
  BY BitsOfInt, Zenon

\* bits.c:197: one more than the complement.
LEMMA NegateIsRight == \A x \in Word : negate(x) = test_negate(x)
<1> SUFFICES ASSUME NEW x \in Word PROVE negate(x) = test_negate(x)
  OBVIOUS
<1>1. Compl(x) \in Word /\ Int_(Compl(x)) = - Int_(x) - 1 /\ Unit \in Word /\ Int_(Unit) = 1
  BY ComplIs, NumUnit, SmallWords
<1>2. Plus(Compl(x), Unit) = Bits[Int_(Compl(x)) + Int_(Unit)]
  BY <1>1, PlusIs
<1>3. Int_(Compl(x)) + Int_(Unit) = - Int_(x)
  BY <1>1, NegativeIs
<1>4. Bits[Int_(Compl(x)) + Int_(Unit)] = Bits[- Int_(x)]
  BY <1>3, Zenon
<1> QED
  BY <1>2, <1>4 DEF negate, test_negate

\* bits.c:156: a one at the top.
LEMMA TminIsRight == tmin = test_tmin
<1>1. Shl(Unit, W - 1) = Tmin
  BY PowerFacts DEF Shl, Unit, Tmin, Positions
<1>2. Bits[Num[Tmin]] = Tmin /\ Num[Tmin] = 2 ^ (W - 1)
  BY NumUnit, BitsOfNum
<1>3. Bits[Num[Tmin]] = Bits[2 ^ (W - 1)]
  BY <1>2, Zenon
<1> QED
  BY <1>1, <1>2, <1>3 DEF tmin, test_tmin

\* ! of an exclusive or compares.
LEMMA XorIsZero == \A x, y : LNot(Xor(x, y)) = IF x = y THEN Unit ELSE Zero
  BY DEF LNot, Xor, Zero

\* bits.c:169: but for Tmax, no word that is its own negation follows one that is not zero.
LEMMA IsTmaxIsRight ==
  /\ \A x \in Word : x # Tmax => isTmax(x) = {test_isTmax(x)}
  /\ \A x \in Word : test_isTmax(x) \in isTmax(x)
<1>0. Unit # Zero /\ Unit \intersect Unit = Unit /\ \A x : x \intersect Zero = Zero /\ Zero \intersect x = Zero
  BY DEF Unit, Zero
<1>1. ASSUME NEW x \in Word
      PROVE  test_isTmax(x) = Truth(x = Tmax)
  <2>1. Int_(x) = 2 ^ (W - 1) - 1 <=> x = Tmax
    BY <1>1, IntDiffers, SmallWords
  <2> QED
    BY <2>1 DEF test_isTmax
<1> DEFINE n(x) == Plus(x, Unit)
           wrapped(x) == LNot(Xor(n(x), Plus(Compl(n(x)), Unit))) \intersect LNot(LNot(n(x)))
<1>2. ASSUME NEW x \in Word
      PROVE  wrapped(x) = Truth(x = Tmax)
  <2> DEFINE y == n(x)
  <2>1. Unit \in Word /\ Int_(Unit) = 1
    BY NumUnit, SmallWords
  <2>2. y \in Word /\ y = Bits[Int_(x) + 1]
    BY <2>1, PlusIs
  <2> HIDE DEF y
  <2>3. Plus(Compl(y), Unit) = Bits[-Int_(y)]
    BY <2>2, NegateIsRight DEF negate, test_negate
  <2>4. wrapped(x) = IF y = Bits[-Int_(y)] /\ y # Zero THEN Unit ELSE Zero
    <3>1. LNot(LNot(y)) = IF y = Zero THEN Zero ELSE Unit
      BY <1>0 DEF LNot
    <3>2. LNot(Xor(y, Plus(Compl(y), Unit))) = IF y = Bits[-Int_(y)] THEN Unit ELSE Zero
      BY <2>3, XorIsZero
    <3> QED
      BY <1>0, <3>1, <3>2 DEF y
  <2>5. CASE x = Tmax
    <3>1. y = Tmin
      <4>1. Bits[Num[Tmin]] = Tmin /\ Int_(x) + 1 = Num[Tmin]
        BY <2>5, NumUnit, BitsOfNum, SmallWords, PowerFacts
      <4>2. Bits[Int_(x) + 1] = Bits[Num[Tmin]]
        BY <4>1, Zenon
      <4> QED
        BY <2>2, <4>1, <4>2
    <3>2. Bits[-Int_(y)] = Tmin
      <4>1. Bits[Num[Tmin]] = Tmin /\ -Int_(y) = Num[Tmin]
        BY <3>1, NumUnit, BitsOfNum, SmallWords, PowerFacts
      <4>2. Bits[-Int_(y)] = Bits[Num[Tmin]]
        BY <4>1, Zenon
      <4> QED
        BY <4>1, <4>2
    <3>3. y # Zero
      BY <3>1 DEF Tmin, Zero
    <3> QED
      BY <2>4, <2>5, <3>1, <3>2, <3>3 DEF Truth
  <2>6. CASE x # Tmax
    <3>1. Int_(x) \in - 2 ^ (W - 1) .. 2 ^ (W - 1) - 1 /\ Int_(x) # 2 ^ (W - 1) - 1
      BY <2>6, NegativeIs, IntDiffers, SmallWords
    <3>2. Int_(x) + 1 \in - 2 ^ (W - 1) .. 2 ^ (W - 1) - 1 /\ Int_(x) + 1 > - 2 ^ (W - 1)
      BY <3>1, PowerFacts
    <3>3. Int_(y) = Int_(x) + 1
      <4>1. Int_(Bits[Int_(x) + 1]) = Int_(x) + 1
        BY <3>2, IntOfBits
      <4>2. Int_(Bits[Int_(x) + 1]) = Int_(y)
        BY <2>2, Zenon
      <4> QED
        BY <4>1, <4>2
    <3>4. y = Bits[-Int_(y)] => y = Zero
      <4> SUFFICES ASSUME y = Bits[-Int_(y)] PROVE y = Zero
        OBVIOUS
      <4>1. -Int_(y) \in - 2 ^ (W - 1) .. 2 ^ (W - 1) - 1
        BY <3>1, <3>2, <3>3, PowerFacts
      <4>2. Int_(Bits[-Int_(y)]) = -Int_(y)
        BY <4>1, IntOfBits
      <4>3. Int_(Bits[-Int_(y)]) = Int_(y)
        BY Zenon
      <4>4. Int_(y) = 0
        BY <3>1, <3>3, <4>2, <4>3
      <4> QED
        BY <2>2, <4>4, IntDiffers, SmallWords, NumUnit
    <3> QED
      BY <2>4, <2>6, <3>4 DEF Truth
  <2> QED
    BY <2>5, <2>6
<1>3. \A x : isTmax(x) = IF x = Tmax THEN {wrapped(x), Zero} ELSE {wrapped(x)}
  BY DEF isTmax
<1> HIDE DEF wrapped
<1> QED
  BY <1>1, <1>2, <1>3

\* The top bit all over the word.
LEMMA SignOf == \A x : Shr(x, W - 1) = IF Negative(x) THEN Positions ELSE Zero
<1>1. W - 1 \in Nat /\ W \in Nat
  BY PowerFacts
<1>2. \A b \in Positions : (IF b + (W - 1) < W THEN b + (W - 1) ELSE W - 1) = W - 1
  BY <1>1 DEF Positions
<1> QED
  BY <1>2 DEF Shr, Negative, Zero

\* !! of the sign bit is its truth.
LEMMA SignIs == \A x : LNot(LNot(Shr(x, W - 1))) = Truth(Negative(x))
<1>1. Positions # Zero /\ Unit # Zero
  BY PowerFacts DEF Zero, Unit
<1> QED
  BY <1>1, SignOf DEF LNot, Truth

\* bits.c:246: the signs decide where the difference could overflow.
LEMMA IsLessOrEqualIsRight == \A x, y \in Word : isLessOrEqual(x, y) = test_isLessOrEqual(x, y)
<1> SUFFICES ASSUME NEW x \in Word, NEW y \in Word
             PROVE  isLessOrEqual(x, y) = test_isLessOrEqual(x, y)
  OBVIOUS
<1> DEFINE d == Plus(Plus(x, Compl(y)), Unit)
           a == Int_(x)
           b == Int_(y)
           h == 2 ^ (W - 1)
           sx == LNot(LNot(Shr(x, W - 1)))
           sy == LNot(LNot(Shr(y, W - 1)))
           sd == LNot(LNot(Shr(d, W - 1)))
<1>1. /\ a \in - h .. h - 1 /\ b \in - h .. h - 1 /\ h \in Nat \ {0}
      /\ (Negative(x) <=> a < 0) /\ (Negative(y) <=> b < 0) /\ (x = y <=> a = b)
  BY NegativeIs, IntDiffers, PowerFacts
<1>2. d = Bits[a - b]
  <2> DEFINE s == Plus(x, Compl(y))
  <2>1. Compl(y) \in Word /\ Int_(Compl(y)) = -b - 1 /\ Unit \in Word /\ Int_(Unit) = 1
    BY ComplIs, NumUnit, SmallWords
  <2>2. s \in Word /\ s = Bits[a + Int_(Compl(y))]
    BY <2>1, PlusIs
  <2> DEFINE m == a + Int_(Compl(y))
             k == Num[s] + Num[Unit]
  <2>3. Num[s] = m % 2 ^ W
    <3>1. m \in Int
      BY <1>1, <2>1
    <3>2. Num[Bits[m]] = m % 2 ^ W
      BY <3>1, NumOfBits
    <3>3. Num[Bits[m]] = Num[s]
      BY <2>2, Zenon
    <3> QED
      BY <3>2, <3>3
  <2>4. m \in Int /\ m = a - b - 1
    BY <1>1, <2>1
  <2>5. 2 ^ W \in Nat \ {0}
    BY PowerFacts
  <2> DEFINE e == 2 ^ W
             q == m \div e
  <2>6. m = e * q + (m % e) /\ q \in Int
    BY <2>4, <2>5, Divides
  <2>7. k = a - b + (-q) * e /\ k \in Int /\ a - b \in Int /\ -q \in Int
    <3>1. k = (m % e) + 1
      BY <2>3, NumUnit
    <3> DEFINE r == m % e
               p == e * q
    <3>2. (-q) * e = -p /\ p \in Int /\ -q \in Int
      BY <2>5, <2>6
    <3>3. m = p + r /\ k = r + 1 /\ r \in Int
      BY <2>4, <2>5, <2>6, <3>1
    <3> HIDE DEF e, q, k, m, a, b, r, p
    <3>4. a \in Int /\ b \in Int
      BY <1>1
    <3>5. k = a - b + (-p)
      BY <2>4, <3>2, <3>3, <3>4
    <3> QED
      BY <3>2, <3>3, <3>4, <3>5
  <2>8. Bits[k] = Bits[a - b]
    <3> HIDE DEF k, q, a, b
    <3> QED
      BY <2>7, SameBits
  <2> QED
    BY <2>8 DEF Plus
<1>3. (a < 0 <=> b < 0) => (Negative(d) <=> a < b)
  <2> SUFFICES ASSUME a < 0 <=> b < 0 PROVE Negative(d) <=> a < b
    OBVIOUS
  <2>1. a - b \in - h .. h - 1
    BY <1>1
  <2>2. Bits[a - b] \in Word /\ Int_(Bits[a - b]) = a - b
    BY <2>1, IntOfBits
  <2>3. Negative(Bits[a - b]) <=> a - b < 0
    BY <2>2, NegativeIs
  <2>4. Negative(Bits[a - b]) <=> Negative(d)
    BY <1>2, Zenon
  <2> QED
    BY <1>1, <2>3, <2>4
<1>4. sx = Truth(a < 0) /\ sy = Truth(b < 0) /\ sd = Truth(Negative(d))
  <2>1. sx = Truth(Negative(x)) /\ sy = Truth(Negative(y))
    BY SignIs
  <2>2. sd = Truth(Negative(d))
    BY SignIs, Zenon
  <2> HIDE DEF sx, sy, sd, a, b
  <2> QED
    BY <1>1, <2>1, <2>2 DEF Truth
<1>5. LNot(Xor(x, y)) = Truth(a = b)
  BY <1>1, XorIsZero DEF Truth
<1>6. isLessOrEqual(x, y) = (sx \intersect LNot(sy)) \union (LNot(Xor(sx, sy)) \intersect sd) \union LNot(Xor(x, y))
  BY DEF isLessOrEqual
<1>7. Unit # Zero
  BY DEF Unit, Zero
<1>8. LNot(sy) = Truth(~(b < 0)) /\ LNot(Xor(sx, sy)) = Truth(a < 0 <=> b < 0)
  BY <1>4, <1>7, XorIsZero DEF LNot, Truth
<1> HIDE DEF a, b, d, sx, sy, sd, h
<1> DEFINE less == \/ a < 0 /\ ~(b < 0)
                   \/ (a < 0 <=> b < 0) /\ Negative(d)
                   \/ a = b
<1>9. isLessOrEqual(x, y) = Truth(less)
  BY <1>4, <1>5, <1>6, <1>8 DEF Truth, Zero, Unit
<1>10. less <=> a <= b
  BY <1>1, <1>3
<1> HIDE DEF less
<1>11. isLessOrEqual(x, y) = Truth(a <= b)
  BY <1>9, <1>10 DEF Truth
<1> QED
  BY <1>11 DEF test_isLessOrEqual, a, b

-------------------------------------------------------------------------------
(* The puzzles: digits. *)

\* The constants of isAsciiDigit.
LEMMA SmallBits ==
  /\ Bits[3] = {0, 1} /\ Bits[8] = {3} /\ Bits[9] = {0, 3} /\ Bits[15] = {0, 1, 2, 3}
  /\ {4, 5} \in Word /\ Num[{4, 5}] = 48 /\ {0, 1} \in Word /\ Num[{0, 1}] = 3
<1>1. 0 \in Positions /\ 1 \in Positions /\ 2 \in Positions /\ 3 \in Positions /\ 4 \in Positions /\ 5 \in Positions
  BY WordsAreWide DEF Positions
<1>2. /\ {0} \in Word /\ {1} \in Word /\ {2} \in Word /\ {3} \in Word /\ {4} \in Word /\ {5} \in Word
      /\ Num[{0}] = 1 /\ Num[{1}] = 2 /\ Num[{2}] = 4 /\ Num[{3}] = 8 /\ Num[{4}] = 16 /\ Num[{5}] = 32
  <2>1. {0} \in Word /\ Num[{0}] = 2 ^ 0
    BY <1>1, NumOne, Zenon
  <2>2. {1} \in Word /\ Num[{1}] = 2 ^ 1
    BY <1>1, NumOne, Zenon
  <2>3. {2} \in Word /\ Num[{2}] = 2 ^ 2
    BY <1>1, NumOne, Zenon
  <2>4. {3} \in Word /\ Num[{3}] = 2 ^ 3
    BY <1>1, NumOne, Zenon
  <2>5. {4} \in Word /\ Num[{4}] = 2 ^ 4
    BY <1>1, NumOne, Zenon
  <2>6. {5} \in Word /\ Num[{5}] = 2 ^ 5
    BY <1>1, NumOne, Zenon
  <2> QED
    BY <2>1, <2>2, <2>3, <2>4, <2>5, <2>6, SmallPowers
<1>3. {0, 1} \in Word /\ Num[{0, 1}] = 3
  <2>1. Num[{0} \union {1}] = Num[{0}] + Num[{1}] /\ {0} \union {1} \in Word
    BY <1>2, NumUnion
  <2>2. {0} \union {1} = {0, 1}
    OBVIOUS
  <2>3. Num[{0} \union {1}] = Num[{0, 1}]
    BY <2>2, Zenon
  <2> QED
    BY <1>2, <2>1, <2>2, <2>3
<1>4. {4, 5} \in Word /\ Num[{4, 5}] = 48
  <2>1. Num[{4} \union {5}] = Num[{4}] + Num[{5}] /\ {4} \union {5} \in Word
    BY <1>2, NumUnion
  <2>2. {4} \union {5} = {4, 5}
    OBVIOUS
  <2>3. Num[{4} \union {5}] = Num[{4, 5}]
    BY <2>2, Zenon
  <2> QED
    BY <1>2, <2>1, <2>2, <2>3
<1>5. {0, 3} \in Word /\ Num[{0, 3}] = 9
  <2>1. Num[{0} \union {3}] = Num[{0}] + Num[{3}] /\ {0} \union {3} \in Word
    BY <1>2, NumUnion
  <2>2. {0} \union {3} = {0, 3}
    OBVIOUS
  <2>3. Num[{0} \union {3}] = Num[{0, 3}]
    BY <2>2, Zenon
  <2> QED
    BY <1>2, <2>1, <2>2, <2>3
<1>6. {2, 3} \in Word /\ Num[{2, 3}] = 12
  <2>1. Num[{2} \union {3}] = Num[{2}] + Num[{3}] /\ {2} \union {3} \in Word
    BY <1>2, NumUnion
  <2>2. {2} \union {3} = {2, 3}
    OBVIOUS
  <2>3. Num[{2} \union {3}] = Num[{2, 3}]
    BY <2>2, Zenon
  <2> QED
    BY <1>2, <2>1, <2>2, <2>3
<1>7. {0, 1, 2, 3} \in Word /\ Num[{0, 1, 2, 3}] = 15
  <2>1. Num[{0, 1} \union {2, 3}] = Num[{0, 1}] + Num[{2, 3}] /\ {0, 1} \union {2, 3} \in Word
    BY <1>3, <1>6, NumUnion
  <2>2. {0, 1} \union {2, 3} = {0, 1, 2, 3}
    OBVIOUS
  <2>3. Num[{0, 1} \union {2, 3}] = Num[{0, 1, 2, 3}]
    BY <2>2, Zenon
  <2> QED
    BY <1>3, <1>6, <2>1, <2>2, <2>3
<1>8. Bits[Num[{0, 1}]] = {0, 1} /\ Bits[Num[{3}]] = {3} /\ Bits[Num[{0, 3}]] = {0, 3}
      /\ Bits[Num[{0, 1, 2, 3}]] = {0, 1, 2, 3}
  BY <1>2, <1>3, <1>5, <1>7, BitsOfNum
<1> QED
  BY <1>2, <1>3, <1>4, <1>5, <1>7, <1>8

\* The four lowest bits.
LEMMA LowFour ==
  ASSUME NEW x \in Word
  PROVE  Num[Below(x, 4)] = (IF 0 \in x THEN 1 ELSE 0) + (IF 1 \in x THEN 2 ELSE 0)
                            + (IF 2 \in x THEN 4 ELSE 0) + (IF 3 \in x THEN 8 ELSE 0)
<1>1. 0 \in 0 .. W - 1 /\ 1 \in 0 .. W - 1 /\ 2 \in 0 .. W - 1 /\ 3 \in 0 .. W - 1
  BY WordsAreWide
<1>2. Num[Below(x, 0)] = 0
  BY NumBelowAll
<1>3. Num[Below(x, 0 + 1)] = Num[Below(x, 0)] + (IF 0 \in x THEN 2 ^ 0 ELSE 0)
  BY <1>1, BelowStep
<1>4. Num[Below(x, 1 + 1)] = Num[Below(x, 1)] + (IF 1 \in x THEN 2 ^ 1 ELSE 0)
  BY <1>1, BelowStep
<1>5. Num[Below(x, 2 + 1)] = Num[Below(x, 2)] + (IF 2 \in x THEN 2 ^ 2 ELSE 0)
  BY <1>1, BelowStep
<1>6. Num[Below(x, 3 + 1)] = Num[Below(x, 3)] + (IF 3 \in x THEN 2 ^ 3 ELSE 0)
  BY <1>1, BelowStep
<1> QED
  BY <1>2, <1>3, <1>4, <1>5, <1>6, SmallPowers

\* bits.c:211: the upper bits are those of '0', the lower ones at most nine.
LEMMA IsAsciiDigitIsRight == \A x \in Word : isAsciiDigit(x) = test_isAsciiDigit(x)
<1> SUFFICES ASSUME NEW x \in Word PROVE isAsciiDigit(x) = test_isAsciiDigit(x)
  OBVIOUS
<1> DEFINE lo == Below(x, 4)
           hi == x \ (0 .. 3)
           back == x \intersect Bits[15]
           digit == hi = {4, 5} /\ Num[lo] <= 9
<1>1. Shr(x, 4) = {0, 1} <=> hi = {4, 5}
  <2>1. W \in Nat /\ W >= 8 /\ \A b \in x : b \in 0 .. W - 1
    BY WordsAreWide DEF Word, Positions
  <2>2. ASSUME Shr(x, 4) = {0, 1} PROVE hi = {4, 5}
    <3>1. 0 \in Shr(x, 4) /\ 1 \in Shr(x, 4)
      BY <2>2
    <3>2. 4 \in x /\ 5 \in x
      BY <2>1, <3>1 DEF Shr
    <3>3. ASSUME NEW b \in x, b > 5 PROVE FALSE
      <4>1. b - 4 \in Positions /\ (b - 4) + 4 = b /\ b < W
        BY <2>1, <3>3 DEF Positions
      <4>2. b - 4 \in Shr(x, 4)
        BY <4>1 DEF Shr
      <4> QED
        BY <2>1, <2>2, <3>3, <4>2
    <3> QED
      BY <2>1, <3>2, <3>3
  <2>3. ASSUME hi = {4, 5} PROVE Shr(x, 4) = {0, 1}
    <3>1. 4 \in x /\ 5 \in x /\ W - 1 \notin x
      BY <2>1, <2>3
    <3>2. 0 \in Shr(x, 4) /\ 1 \in Shr(x, 4)
      BY <2>1, <3>1 DEF Shr, Positions
    <3>3. ASSUME NEW b \in Shr(x, 4) PROVE b \in {0, 1}
      <4>1. b \in 0 .. W - 1 /\ b + 4 \in x
        BY <2>1, <3>1 DEF Shr, Positions
      <4>2. b + 4 \in hi
        BY <2>1, <4>1
      <4> QED
        BY <2>1, <2>3, <4>1, <4>2
    <3> QED
      BY <3>2, <3>3
  <2> QED
    BY <2>2, <2>3
<1>2. Num[x] = Num[lo] + Num[hi] /\ Num[lo] \in Nat /\ Num[x] \in Nat
  <2>1. 4 \in 0 .. W /\ 0 .. 4 - 1 = 0 .. 3
    BY WordsAreWide
  <2>2. Num[x] = Num[lo] + Num[x \ (0 .. 4 - 1)]
    BY <2>1, NumRest
  <2>3. Num[x \ (0 .. 4 - 1)] = Num[hi]
    BY <2>1, Zenon
  <2> QED
    BY <2>2, <2>3, BelowAll, NumIsNat
<1>3. hi = {4, 5} => Num[hi] = 48 /\ ~Negative(x)
  <2>1. hi = {4, 5} => Num[hi] = Num[{4, 5}]
    BY Zenon
  <2>2. hi = {4, 5} => W - 1 \notin x
    BY WordsAreWide
  <2> QED
    BY <2>1, <2>2, SmallBits DEF Negative
<1>4. (48 <= Int_(x) /\ Int_(x) <= 57) <=> digit
  <2>1. ASSUME digit PROVE 48 <= Int_(x) /\ Int_(x) <= 57
    BY <1>2, <1>3, <2>1 DEF Int_
  <2>2. ASSUME 48 <= Int_(x), Int_(x) <= 57 PROVE digit
    <3>1. ~Negative(x) /\ Num[x] = Int_(x) /\ Int_(x) \in Int
      BY <2>2, NegativeIs, PowerFacts, <1>2 DEF Int_
    <3>2. Num[Shr(x, 4)] = Num[x] \div 2 ^ 4
      <4>1. 4 \in 0 .. W
        BY WordsAreWide
      <4> QED
        BY <3>1, <4>1, NumShr
    <3>3. Num[x] \div 16 = 3
      BY <2>2, <3>1
    <3>4. Num[Shr(x, 4)] = Num[{0, 1}]
      BY <3>2, <3>3, SmallPowers, SmallBits
    <3>5. Shr(x, 4) = {0, 1}
      BY <3>4, ShiftsAreWords, SmallBits, NumDiffers
    <3> QED
      BY <1>1, <1>2, <1>3, <2>2, <3>1, <3>5
  <2> QED
    BY <2>1, <2>2
<1>5. back = lo
  BY SmallBits DEF Below
<1>6. Num[lo] <= 9 <=> \/ back = Bits[8] \/ back = Bits[9] \/ x \intersect Bits[8] = Zero
  <2>1. back = x \intersect {0, 1, 2, 3}
    BY SmallBits
  <2>2. back = Bits[8] <=> 3 \in x /\ 0 \notin x /\ 1 \notin x /\ 2 \notin x
    BY <2>1, SmallBits
  <2>3. back = Bits[9] <=> 3 \in x /\ 0 \in x /\ 1 \notin x /\ 2 \notin x
    BY <2>1, SmallBits
  <2>4. x \intersect Bits[8] = Zero <=> 3 \notin x
    BY SmallBits DEF Zero
  <2> HIDE DEF back
  <2> QED
    BY <2>2, <2>3, <2>4, LowFour
<1>7. isAsciiDigit(x) = LNot(Xor(Bits[3], Shr(x, 4))) \intersect
                         ((LNot(Xor(back, Bits[8])) \union LNot(Xor(back, Bits[9])))
                          \union LNot(x \intersect Bits[8]))
  BY DEF isAsciiDigit
<1> DEFINE c1 == Shr(x, 4) = {0, 1}
           c2 == back = Bits[8]
           c3 == back = Bits[9]
           c4 == x \intersect Bits[8] = Zero
<1>8. /\ LNot(Xor(Bits[3], Shr(x, 4))) = Truth(c1)
      /\ LNot(Xor(back, Bits[8])) = Truth(c2)
      /\ LNot(Xor(back, Bits[9])) = Truth(c3)
      /\ LNot(x \intersect Bits[8]) = Truth(c4)
  <2>1. Bits[3] = Shr(x, 4) <=> c1
    BY SmallBits
  <2>2. LNot(Xor(Bits[3], Shr(x, 4))) = Truth(c1)
    BY <2>1, XorIsZero DEF Truth
  <2>3. LNot(Xor(back, Bits[8])) = Truth(c2) /\ LNot(Xor(back, Bits[9])) = Truth(c3)
    BY XorIsZero DEF Truth
  <2>4. LNot(x \intersect Bits[8]) = Truth(c4)
    BY DEF LNot, Truth
  <2> QED
    BY <2>2, <2>3, <2>4
<1> HIDE DEF c1, c2, c3, c4
<1>9. isAsciiDigit(x) = Truth(c1 /\ (c2 \/ c3 \/ c4))
  BY <1>7, <1>8 DEF Truth, Zero, Unit
<1>10. (c1 /\ (c2 \/ c3 \/ c4)) <=> digit
  BY <1>1, <1>6 DEF c1, c2, c3, c4
<1> QED
  BY <1>4, <1>9, <1>10 DEF Truth, test_isAsciiDigit

-------------------------------------------------------------------------------
(* The puzzles: binary searches, as folds over the halves of the width. *)

\* The largest element, where there is one.
LEMMA MaxIs ==
  ASSUME NEW S, NEW m \in S, m \in Int, \A y \in S : y \in Int /\ m >= y
  PROVE  Max(S) = m
<1>1. \A x \in S : (\A y \in S : x >= y) => x = m
  OBVIOUS
<1> DEFINE P(x) == x \in S /\ \A y \in S : x >= y
<1>2. Max(S) = CHOOSE x : P(x)
  BY DEF Max
<1>3. P(m)
  OBVIOUS
<1>4. \A x : P(x) => x = m
  BY <1>1
<1> HIDE DEF P
<1> QED
  BY <1>2, <1>3, <1>4

\* A nonempty finite set of naturals has a largest element.
LEMMA MaxIsIn ==
  ASSUME NEW m \in Nat, NEW s \in SUBSET (1 .. m), s # {}
  PROVE  Max(s) \in s
<1> DEFINE Good == {k \in Nat : \A u \in SUBSET (1 .. k) : u # {} => Max(u) \in u}
<1>1. 0 \in Good
  <2>1. \A u \in SUBSET (1 .. 0) : u = {}
    OBVIOUS
  <2> QED
    BY <2>1
<1>2. ASSUME NEW k \in Nat, k \in Good PROVE k + 1 \in Good
  <2> SUFFICES ASSUME NEW u \in SUBSET (1 .. k + 1), u # {} PROVE Max(u) \in u
    OBVIOUS
  <2>1. CASE k + 1 \in u
    <3>1. \A y \in u : y \in Int /\ k + 1 >= y
      OBVIOUS
    <3>2. Max(u) = k + 1
      BY <2>1, <3>1, MaxIs
    <3> QED
      BY <2>1, <3>2
  <2>2. CASE k + 1 \notin u
    <3>1. u \in SUBSET (1 .. k)
      BY <2>2
    <3> QED
      BY <1>2, <3>1
  <2> QED
    BY <2>1, <2>2
<1>3. Good \in SUBSET Nat
  OBVIOUS
<1>4. \A k \in Nat : k \in Good
  <2> HIDE DEF Good
  <2> QED
    BY <1>1, <1>2, <1>3, AllNat
<1> QED
  BY <1>4

\* The largest element of an interval, and what is left without it.
LEMMA MaxOfInterval ==
  ASSUME NEW k \in Nat
  PROVE  Max(1 .. k + 1) = k + 1 /\ (1 .. k + 1) \ {Max(1 .. k + 1)} = 1 .. k /\ 1 .. k + 1 # {}
<1>1. k + 1 \in 1 .. k + 1 /\ k + 1 \in Int /\ \A y \in 1 .. k + 1 : y \in Int /\ k + 1 >= y
  OBVIOUS
<1>2. Max(1 .. k + 1) = k + 1
  BY <1>1, MaxIs
<1>3. (1 .. k + 1) \ {k + 1} = 1 .. k
  OBVIOUS
<1> QED
  BY <1>1, <1>2, <1>3

\* The folds over the first elements of a sequence q, if the values stay in V.
FoldsOver(m, V, base, op, q) ==
  {h \in [SUBSET (1 .. m) -> V] :
     \A s \in SUBSET (1 .. m) :
       h[s] = IF s = {} THEN base ELSE op[<<h[s \ {Max(s)}], q[Max(s)]>>]}

\* A fold over a sequence is a function on sets of its indices: there is one.
LEMMA SequenceFoldExists ==
  ASSUME NEW m \in Nat, NEW V, NEW base \in V, NEW op \in [V \X Nat -> V], NEW q \in [1 .. m -> Nat]
  PROVE  \E h : h \in FoldsOver(m, V, base, op, q)
<1> DEFINE Obeys(h, k) == \A s \in SUBSET (1 .. k) :
             h[s] = IF s = {} THEN base ELSE op[<<h[s \ {Max(s)}], q[Max(s)]>>]
           Exists(k) == \E h \in [SUBSET (1 .. k) -> V] : Obeys(h, k)
           Good == {k \in Nat : k <= m => Exists(k)}
<1>1. 0 \in Good
  <2> DEFINE h == [s \in SUBSET (1 .. 0) |-> base]
  <2>1. h \in [SUBSET (1 .. 0) -> V] /\ Obeys(h, 0)
    OBVIOUS
  <2> HIDE DEF h, Obeys
  <2> QED
    BY <2>1
<1>2. ASSUME NEW k \in Nat, k \in Good PROVE k + 1 \in Good
  <2> HIDE DEF Exists
  <2> SUFFICES ASSUME k + 1 <= m PROVE Exists(k + 1)
    OBVIOUS
  <2>0. Exists(k)
    BY <1>2
  <2>1. PICK g \in [SUBSET (1 .. k) -> V] : Obeys(g, k)
    <3> HIDE DEF Obeys
    <3> QED
      BY <2>0 DEF Exists
  <2> DEFINE h == [s \in SUBSET (1 .. k + 1) |->
                    IF k + 1 \in s THEN op[<<g[s \ {k + 1}], q[k + 1]>>] ELSE g[s]]
  <2>2. ASSUME NEW s \in SUBSET (1 .. k + 1) 
        PROVE  /\ s \ {k + 1} \in SUBSET (1 .. k) /\ k + 1 \notin s \ {k + 1}
               /\ k + 1 \in s => Max(s) = k + 1
               /\ k + 1 \notin s => s \in SUBSET (1 .. k)
    <3>1. k + 1 \in s => Max(s) = k + 1
      <4> SUFFICES ASSUME k + 1 \in s PROVE Max(s) = k + 1
        OBVIOUS
      <4>1. \A y \in s : y \in Int /\ k + 1 >= y
        OBVIOUS
      <4> QED
        BY <4>1, MaxIs
    <3> QED
      BY <3>1
  <2>3. h \in [SUBSET (1 .. k + 1) -> V]
    <3>1. ASSUME NEW s \in SUBSET (1 .. k + 1) PROVE h[s] \in V
      <4>1. CASE k + 1 \in s
        <5>1. q[k + 1] \in Nat /\ g[s \ {k + 1}] \in V
          BY <2>2
        <5> QED
          BY <4>1, <5>1
      <4>2. CASE k + 1 \notin s
        BY <2>2, <4>2
      <4> QED
        BY <4>1, <4>2
    <3> QED
      BY <3>1
  <2>4. ASSUME NEW s \in SUBSET (1 .. k + 1)
        PROVE  h[s] = IF s = {} THEN base ELSE op[<<h[s \ {Max(s)}], q[Max(s)]>>]
    <3>1. CASE k + 1 \in s
      <4>1. s \ {k + 1} \in SUBSET (1 .. k + 1) /\ k + 1 \notin s \ {k + 1}
        OBVIOUS
      <4>2. h[s \ {k + 1}] = g[s \ {k + 1}]
        BY <4>1
      <4>3. h[s] = op[<<g[s \ {k + 1}], q[k + 1]>>] /\ s # {} /\ Max(s) = k + 1
        BY <2>2, <3>1
      <4> HIDE DEF h
      <4> QED
        BY <4>2, <4>3
    <3>2. CASE k + 1 \notin s
      <4>1. s \in SUBSET (1 .. k) /\ s \ {Max(s)} \in SUBSET (1 .. k)
        BY <2>2, <3>2
      <4>2. h[s] = g[s] /\ h[s \ {Max(s)}] = g[s \ {Max(s)}]
        BY <3>2, <4>1
      <4>3. g[s] = IF s = {} THEN base ELSE op[<<g[s \ {Max(s)}], q[Max(s)]>>]
        BY <2>1, <4>1
      <4> HIDE DEF h
      <4> QED
        BY <4>2, <4>3
    <3> QED
      BY <3>1, <3>2
  <2>5. Obeys(h, k + 1)
    BY <2>4
  <2> HIDE DEF h, Obeys
  <2> QED
    BY <2>3, <2>5 DEF Exists
<1>3. Good \in SUBSET Nat
  OBVIOUS
<1>4. \A k \in Nat : k \in Good
  <2> HIDE DEF Good
  <2> QED
    BY <1>1, <1>2, <1>3, AllNat
<1>5. Exists(m)
  <2> HIDE DEF Exists
  <2> QED
    BY <1>4
<1>6. PICK h \in [SUBSET (1 .. m) -> V] : Obeys(h, m)
  <2> HIDE DEF Obeys
  <2> QED
    BY <1>5
<1>7. h \in FoldsOver(m, V, base, op, q)
  BY <1>6 DEF FoldsOver
<1> QED
  BY <1>7

\* The halves of the width are its lower powers of two.
LEMMA LogWIs == LogW \in Nat /\ 2 ^ LogW = W /\ DOMAIN Halves = 1 .. LogW
                /\ \A n \in 1 .. LogW : Halves[n] = 2 ^ (LogW - n) /\ Halves[n] \in Nat
<1>1. \E n \in 0 .. W : 2 ^ n = W
  BY BitsAssumption
<1>2. LogW \in 0 .. W /\ 2 ^ LogW = W
  BY <1>1 DEF LogW
<1>3. \A n \in 1 .. LogW : LogW - n \in Nat
  BY <1>2, WidthIs
<1> QED
  BY <1>2, <1>3, PowerIs, WidthIs DEF Halves

\* The rounds of logicalNeg.
LEMMA OrRounds ==
  ASSUME NEW x \in Word
  PROVE  \E r \in [0 .. LogW -> Word] :
           /\ r[0] = x
           /\ \A k \in 0 .. LogW - 1 : r[k + 1] = r[k] \union Shl(r[k], 2 ^ (LogW - (k + 1)))
           /\ logicalNeg(x) = Plus(Shr(r[LogW], W - 1), Unit)
<1> DEFINE D == 1 .. LogW
           Step(f, s) == IF s = {} THEN x
                         ELSE f[s \ {Max(s)}] \union Shl(f[s \ {Max(s)}], Halves[Max(s)])
           P(f) == f = [s \in SUBSET D |-> Step(f, s)]
           F == CHOOSE f : P(f)
           fold == FoldLeft(LAMBDA val, n : val \union Shl(val, n), x, Halves)
<1>1. fold = F[D]
  BY LogWIs DEF FoldLeft, MapThenFoldSet
<1>2. logicalNeg(x) = Plus(Shr(fold, W - 1), Unit)
  BY DEF logicalNeg
<1> HIDE DEF fold
<1> DEFINE op == [p \in Word \X Nat |-> p[1] \union Shl(p[1], p[2])]
           q == [n \in D |-> Halves[n]]
<1>3. op \in [Word \X Nat -> Word] /\ q \in [D -> Nat] /\ LogW \in Nat
  BY ShiftsAreWords, LogWIs DEF Word
<1>4. PICK h \in [SUBSET D -> Word] :
        \A s \in SUBSET D : h[s] = IF s = {} THEN x ELSE op[<<h[s \ {Max(s)}], q[Max(s)]>>]
  <2> HIDE DEF op, q
  <2>1. PICK h : h \in FoldsOver(LogW, Word, x, op, q)
    BY <1>3, SequenceFoldExists
  <2> QED
    BY <2>1 DEF FoldsOver
<1>5. \E f : P(f)
  <2>1. \A s \in SUBSET D : h[s] = Step(h, s)
    <3> SUFFICES ASSUME NEW s \in SUBSET D, s # {} PROVE h[s] = Step(h, s)
      BY <1>4
    <3> DEFINE p == s \ {Max(s)}
    <3>1. p \in SUBSET D /\ Max(s) \in D
      BY <1>3, MaxIsIn
    <3>2. h[p] \in Word /\ q[Max(s)] = Halves[Max(s)] /\ q[Max(s)] \in Nat
      BY <1>3, <3>1
    <3>3. h[s] = op[<<h[p], q[Max(s)]>>]
      BY <1>4
    <3> HIDE DEF q, p
    <3>4. op[<<h[p], q[Max(s)]>>] = h[p] \union Shl(h[p], q[Max(s)])
      BY <3>2
    <3> QED
      BY <3>2, <3>3, <3>4 DEF p
  <2>2. h = [s \in SUBSET D |-> h[s]]
    BY <1>4
  <2> HIDE DEF Step
  <2>3. P(h)
    BY <2>1, <2>2
  <2> QED
    BY <2>3
<1>6. P(F)
  <2> HIDE DEF P
  <2> QED
    BY <1>5, Zenon
<1> HIDE DEF F
<1>7. F[{}] = x /\ \A s \in SUBSET D : s # {} => F[s] = F[s \ {Max(s)}] \union Shl(F[s \ {Max(s)}], Halves[Max(s)])
  BY <1>6
<1> DEFINE r == [k \in 0 .. LogW |-> F[1 .. k]]
<1>8. r[0] = x
  <2>1. 1 .. 0 = {}
    OBVIOUS
  <2>2. F[1 .. 0] = F[{}]
    BY <2>1, Zenon
  <2> QED
    BY <1>3, <1>7, <2>2
<1>9. ASSUME NEW k \in 0 .. LogW - 1
      PROVE  r[k + 1] = r[k] \union Shl(r[k], 2 ^ (LogW - (k + 1)))
  <2> DEFINE s == 1 .. k + 1
  <2>1. s \in SUBSET D /\ k \in Nat /\ k \in 0 .. LogW /\ k + 1 \in 0 .. LogW
    BY <1>3
  <2>2. Max(s) = k + 1 /\ s \ {Max(s)} = 1 .. k /\ s # {}
    BY <2>1, MaxOfInterval
  <2>3. F[s] = F[s \ {Max(s)}] \union Shl(F[s \ {Max(s)}], Halves[Max(s)])
    BY <1>7, <2>1, <2>2
  <2>4. F[s \ {Max(s)}] = F[1 .. k] /\ Halves[Max(s)] = Halves[k + 1]
    BY <2>2, Zenon
  <2>5. Halves[k + 1] = 2 ^ (LogW - (k + 1))
    BY <1>3, LogWIs
  <2>6. r[k + 1] = F[s] /\ r[k] = F[1 .. k]
    BY <2>1
  <2> HIDE DEF r, s
  <2> QED
    BY <2>3, <2>4, <2>5, <2>6
<1>10. r[LogW] = fold
  BY <1>1, <1>3
<1>11. r \in [0 .. LogW -> Word]
  <2> DEFINE Good == {k \in Nat : k <= LogW => r[k] \in Word}
  <2>1. 0 \in Good
    BY <1>8
  <2>2. ASSUME NEW k \in Nat, k \in Good PROVE k + 1 \in Good
    <3> SUFFICES ASSUME k + 1 <= LogW PROVE r[k + 1] \in Word
      OBVIOUS
    <3>1. k \in 0 .. LogW - 1 /\ r[k] \in Word
      BY <1>3, <2>2
    <3> HIDE DEF r
    <3> QED
      BY <1>9, <3>1, ShiftsAreWords DEF Word
  <2>3. Good \in SUBSET Nat
    OBVIOUS
  <2>4. \A k \in Nat : k \in Good
    <3> HIDE DEF Good
    <3> QED
      BY <2>1, <2>2, <2>3, AllNat
  <2>5. \A k \in 0 .. LogW : r[k] \in Word
    <3> HIDE DEF r
    <3> QED
      BY <1>3, <2>4
  <2> QED
    BY <2>5
<1> HIDE DEF r
<1>12. logicalNeg(x) = Plus(Shr(r[LogW], W - 1), Unit)
  BY <1>2, <1>10
<1> QED
  BY <1>8, <1>9, <1>11, <1>12

\* bits.c:269: a one wanders to the top, if there is one.
LEMMA LogicalNegIsRight == \A x \in Word : logicalNeg(x) = test_logicalNeg(x)
<1> SUFFICES ASSUME NEW x \in Word PROVE logicalNeg(x) = test_logicalNeg(x)
  OBVIOUS
<1>1. PICK r \in [0 .. LogW -> Word] :
        /\ r[0] = x
        /\ \A k \in 0 .. LogW - 1 : r[k + 1] = r[k] \union Shl(r[k], 2 ^ (LogW - (k + 1)))
        /\ logicalNeg(x) = Plus(Shr(r[LogW], W - 1), Unit)
  BY OrRounds
<1>2. LogW \in Nat /\ 2 ^ LogW = W /\ W \in Nat
  BY LogWIs, WidthIs
<1> DEFINE Near(k) == IF x = Zero THEN r[k] = Zero
                      ELSE \E b \in r[k] : W - 1 - b < 2 ^ (LogW - k)
           Good == {k \in Nat : k <= LogW => Near(k)}
<1>3. 0 \in Good
  <2>1. CASE x # Zero
    <3>1. PICK b \in x : b \in Positions
      BY <2>1 DEF Zero, Word
    <3>2. W - 1 - b < 2 ^ (LogW - 0)
      BY <1>2, <3>1 DEF Positions
    <3> QED
      BY <1>1, <2>1, <3>1, <3>2
  <2> QED
    BY <1>1, <2>1
<1>4. ASSUME NEW k \in Nat, k \in Good PROVE k + 1 \in Good
  <2> SUFFICES ASSUME k + 1 <= LogW PROVE Near(k + 1)
    OBVIOUS
  <2> DEFINE n == 2 ^ (LogW - (k + 1))
  <2>1. k \in 0 .. LogW - 1 /\ k \in 0 .. LogW /\ Near(k) /\ LogW - (k + 1) \in Nat /\ LogW - k = (LogW - (k + 1)) + 1
    BY <1>2, <1>4
  <2>2. r[k + 1] = r[k] \union Shl(r[k], n) /\ r[k] \in Word
    BY <1>1, <2>1
  <2>3. 2 ^ (LogW - k) = 2 * n /\ n \in Nat
    BY <2>1, PowerIs
  <2> HIDE DEF n
  <2>4. CASE x = Zero
    <3>1. r[k] = {}
      BY <2>1, <2>4 DEF Zero
    <3>2. Shl(r[k], n) = {}
      BY <3>1 DEF Shl
    <3> QED
      BY <2>2, <2>4, <3>1, <3>2 DEF Zero
  <2>5. CASE x # Zero
    <3>1. PICK b \in r[k] : W - 1 - b < 2 * n
      BY <2>1, <2>3, <2>5
    <3>2. b \in 0 .. W - 1
      BY <2>2 DEF Word, Positions
    <3>3. CASE W - 1 - b < n
      BY <2>2, <2>5, <3>3 DEF n
    <3>4. CASE ~(W - 1 - b < n)
      <4>1. b + n \in Shl(r[k], n)
        BY <1>2, <2>3, <3>2, <3>4 DEF Shl, Positions
      <4>2. W - 1 - (b + n) < n
        BY <1>2, <2>3, <3>1, <3>2
      <4>3. b + n \in r[k + 1]
        BY <2>2, <4>1
      <4> QED
        BY <2>5, <4>2, <4>3 DEF n
    <3> QED
      BY <3>3, <3>4
  <2> QED
    BY <2>4, <2>5
<1>5. Good \in SUBSET Nat
  OBVIOUS
<1>6. \A k \in Nat : k \in Good
  <2> HIDE DEF Good
  <2> QED
    BY <1>3, <1>4, <1>5, AllNat
<1>7. Near(LogW)
  <2> HIDE DEF Near
  <2> QED
    BY <1>2, <1>6
<1>8. r[LogW] \in Word /\ 2 ^ (LogW - LogW) = 1
  BY <1>1, <1>2, PowerIs
<1>9. Negative(r[LogW]) <=> x # Zero
  <2>1. CASE x # Zero
    <3>1. PICK b \in r[LogW] : W - 1 - b < 1
      BY <1>7, <1>8, <2>1
    <3>2. b = W - 1
      BY <1>2, <1>8, <3>1 DEF Word, Positions
    <3> QED
      BY <2>1, <3>2 DEF Negative
  <2> QED
    BY <1>7, <2>1 DEF Negative, Zero
<1>10. CASE x = Zero
  <2>1. Shr(r[LogW], W - 1) = Zero
    BY <1>9, <1>10, SignOf
  <2>2. Plus(Zero, Unit) = Bits[Num[Zero] + Num[Unit]]
    BY DEF Plus
  <2>3. Num[Zero] + Num[Unit] = 1
    BY NumUnit
  <2>4. Bits[Num[Zero] + Num[Unit]] = Bits[1]
    BY <2>3, Zenon
  <2> QED
    BY <1>1, <1>10, <2>1, <2>2, <2>4, SmallWords DEF test_logicalNeg, Truth
<1>11. CASE x # Zero
  <2>1. Shr(r[LogW], W - 1) = Positions
    BY <1>9, <1>11, SignOf
  <2>2. Plus(Positions, Unit) = Bits[Num[Positions] + Num[Unit]]
    BY DEF Plus
  <2>3. Num[Positions] + Num[Unit] = 0 + 1 * 2 ^ W /\ 2 ^ W \in Nat
    BY NumUnit, NumAll, PowerFacts
  <2>4. Bits[Num[Positions] + Num[Unit]] = Bits[0]
    <3> DEFINE n == Num[Positions] + Num[Unit]
    <3>1. n = 0 + 1 * 2 ^ W /\ n \in Int
      BY <2>3
    <3> HIDE DEF n
    <3>2. Bits[n] = Bits[0]
      BY <3>1, SameBits
    <3> QED
      BY <3>2 DEF n
  <2> QED
    BY <1>1, <1>11, <2>1, <2>2, <2>4, SmallWords DEF test_logicalNeg, Truth
<1> QED
  BY <1>10, <1>11

-------------------------------------------------------------------------------
(* Logarithms, and the bits a number needs. *)

\* Powers of two grow.
LEMMA PowerGrows == \A a, b \in Nat : a <= b => 2 ^ a <= 2 ^ b
<1> SUFFICES ASSUME NEW a \in Nat, NEW b \in Nat, a <= b PROVE 2 ^ a <= 2 ^ b
  OBVIOUS
<1>1. 2 ^ a \in Nat /\ 2 ^ b \in Nat
  BY PowerIs
<1>2. CASE a = b
  <2>1. 2 ^ a = 2 ^ b
    BY <1>2, Zenon
  <2> QED
    BY <1>1, <2>1
<1>3. CASE a < b
  BY <1>1, <1>3, PowerHalves
<1> QED
  BY <1>2, <1>3

\* The highest bit of a word bounds its number.
LEMMA TopBit ==
  ASSUME NEW x \in Word, NEW e \in x, \A b \in x : b <= e
  PROVE  2 ^ e <= Num[x] /\ Num[x] < 2 ^ (e + 1)
<1>1. e \in Nat /\ e \in Positions /\ e + 1 \in 0 .. W
  BY WidthIs DEF Word, Positions
<1>2. Num[x] = 2 ^ e + Num[x \ {e}] /\ x \ {e} \in Word
  BY NumLess DEF Word
<1>3. Below(x, e + 1) = x
  <2>1. \A b \in x : b \in 0 .. (e + 1) - 1
    BY <1>1 DEF Word, Positions
  <2> QED
    BY <2>1 DEF Below
<1>4. Num[Below(x, e + 1)] = Num[x]
  BY <1>3, Zenon
<1>5. Num[Below(x, e + 1)] \in 0 .. 2 ^ (e + 1) - 1
  BY <1>1, BelowIsSmall
<1>6. 2 ^ e \in Nat /\ 2 ^ (e + 1) \in Nat /\ Num[x \ {e}] \in Nat
  BY <1>1, <1>2, NumIsNat, PowerIs
<1> QED
  BY <1>2, <1>4, <1>5, <1>6

\* The rounds of howManyBits.
Halved(s, n) ==
  LET b == IF Shr(s.v, n) # Zero THEN n ELSE 0 IN [v |-> Shr(s.v, b), bits |-> s.bits + b]
Magnified(x) == (x \intersect Compl(Shr(x, W - 1))) \union (Compl(x) \intersect Shr(x, W - 1))

\* bits.c:292: howManyBits is a chain of rounds, one for each half of the width.
LEMMA HalvingRounds ==
  ASSUME NEW x \in Word
  PROVE  \E r \in [0 .. LogW -> [v : Word, bits : Nat]] :
           /\ r[0] = [v |-> Magnified(x), bits |-> 0]
           /\ \A k \in 0 .. LogW - 1 : r[k + 1] = Halved(r[k], 2 ^ (LogW - (k + 1)))
           /\ howManyBits(x) = Bits[r[LogW].bits + (IF r[LogW].v # Zero THEN 1 ELSE 0) + 1]
<1> DEFINE D == 1 .. LogW
           V == [v : Word, bits : Nat]
           base == [v |-> Magnified(x), bits |-> 0]
           Step(f, s) == IF s = {} THEN base ELSE Halved(f[s \ {Max(s)}], Halves[Max(s)])
           P(f) == f = [s \in SUBSET D |-> Step(f, s)]
           F == CHOOSE f : P(f)
<1>1. howManyBits(x) = Bits[F[D].bits + (IF F[D].v # Zero THEN 1 ELSE 0) + 1]
  BY LogWIs DEF howManyBits, FoldLeft, MapThenFoldSet, Halved, Magnified
<1>2. base \in V
  BY DEF Magnified, Compl, Word
<1> HIDE DEF base
<1> DEFINE op == [p \in V \X Nat |-> Halved(p[1], p[2])]
           q == [n \in D |-> Halves[n]]
<1>a. ASSUME NEW s \in V, NEW n \in Nat PROVE Halved(s, n) \in V
  BY ShiftsAreWords DEF Halved
<1> HIDE DEF V
<1>3. op \in [V \X Nat -> V] /\ q \in [D -> Nat] /\ LogW \in Nat
  BY <1>a, LogWIs
<1>4. PICK h \in [SUBSET D -> V] :
        \A s \in SUBSET D : h[s] = IF s = {} THEN base ELSE op[<<h[s \ {Max(s)}], q[Max(s)]>>]
  <2> HIDE DEF op, q
  <2>1. PICK h : h \in FoldsOver(LogW, V, base, op, q)
    BY <1>2, <1>3, SequenceFoldExists
  <2> QED
    BY <2>1 DEF FoldsOver
<1>5. \E f : P(f)
  <2>1. \A s \in SUBSET D : h[s] = Step(h, s)
    <3> SUFFICES ASSUME NEW s \in SUBSET D, s # {} PROVE h[s] = Step(h, s)
      BY <1>4
    <3> DEFINE p == s \ {Max(s)}
    <3>1. p \in SUBSET D /\ Max(s) \in D
      BY <1>3, MaxIsIn
    <3>2. h[p] \in V /\ q[Max(s)] = Halves[Max(s)] /\ q[Max(s)] \in Nat
      BY <1>3, <3>1
    <3>3. h[s] = op[<<h[p], q[Max(s)]>>]
      BY <1>4
    <3> HIDE DEF q, p
    <3>4. op[<<h[p], q[Max(s)]>>] = Halved(h[p], q[Max(s)])
      BY <3>2
    <3> QED
      BY <3>2, <3>3, <3>4 DEF p
  <2>2. h = [s \in SUBSET D |-> h[s]]
    BY <1>4
  <2> HIDE DEF Step
  <2>3. P(h)
    BY <2>1, <2>2
  <2> QED
    BY <2>3
<1>6. P(F)
  <2> HIDE DEF P
  <2> QED
    BY <1>5, Zenon
<1> HIDE DEF F
<1>7. F[{}] = base /\ \A s \in SUBSET D : s # {} => F[s] = Halved(F[s \ {Max(s)}], Halves[Max(s)])
  BY <1>6
<1> DEFINE r == [k \in 0 .. LogW |-> F[1 .. k]]
<1>8. r[0] = base
  <2>1. 1 .. 0 = {}
    OBVIOUS
  <2>2. F[1 .. 0] = F[{}]
    BY <2>1, Zenon
  <2> QED
    BY <1>3, <1>7, <2>2
<1>9. ASSUME NEW k \in 0 .. LogW - 1
      PROVE  r[k + 1] = Halved(r[k], 2 ^ (LogW - (k + 1)))
  <2> DEFINE s == 1 .. k + 1
  <2>1. s \in SUBSET D /\ k \in Nat /\ k \in 0 .. LogW /\ k + 1 \in 0 .. LogW
    BY <1>3
  <2>2. Max(s) = k + 1 /\ s \ {Max(s)} = 1 .. k /\ s # {}
    BY <2>1, MaxOfInterval
  <2>3. F[s] = Halved(F[s \ {Max(s)}], Halves[Max(s)])
    BY <1>7, <2>1, <2>2
  <2>4. F[s \ {Max(s)}] = F[1 .. k] /\ Halves[Max(s)] = Halves[k + 1]
    BY <2>2, Zenon
  <2>5. Halves[k + 1] = 2 ^ (LogW - (k + 1))
    BY <1>3, LogWIs
  <2>6. r[k + 1] = F[s] /\ r[k] = F[1 .. k]
    BY <2>1
  <2> HIDE DEF r, s
  <2> QED
    BY <2>3, <2>4, <2>5, <2>6
<1>10. r[LogW] = F[D]
  BY <1>3
<1>11. r \in [0 .. LogW -> V]
  <2> DEFINE Good == {k \in Nat : k <= LogW => r[k] \in V}
  <2>1. 0 \in Good
    BY <1>2, <1>8
  <2>2. ASSUME NEW k \in Nat, k \in Good PROVE k + 1 \in Good
    <3> SUFFICES ASSUME k + 1 <= LogW PROVE r[k + 1] \in V
      OBVIOUS
    <3>1. k \in 0 .. LogW - 1 /\ r[k] \in V /\ LogW - (k + 1) \in Nat
      BY <1>3, <2>2
    <3>2. 2 ^ (LogW - (k + 1)) \in Nat
      BY <3>1, PowerIs
    <3> HIDE DEF r
    <3> QED
      BY <1>9, <1>a, <3>1, <3>2
  <2>3. Good \in SUBSET Nat
    OBVIOUS
  <2>4. \A k \in Nat : k \in Good
    <3> HIDE DEF Good
    <3> QED
      BY <2>1, <2>2, <2>3, AllNat
  <2>5. \A k \in 0 .. LogW : r[k] \in V
    <3> HIDE DEF r
    <3> QED
      BY <1>3, <2>4
  <2> QED
    BY <2>5
<1> HIDE DEF r
<1>12. howManyBits(x) = Bits[r[LogW].bits + (IF r[LogW].v # Zero THEN 1 ELSE 0) + 1]
  BY <1>1, <1>10
<1> QED
  BY <1>8, <1>9, <1>11, <1>12 DEF V, base

\* tests.c: the number of bits below the sign, counted from the highest one.
LEMMA BitsNeeded ==
  ASSUME NEW y \in Word, NEW n \in 0 .. W, y = Zero => n = 0, y # Zero => n - 1 \in y /\ \A b \in y : b <= n - 1
  PROVE  n = CHOOSE m \in 0 .. W : Num[y] < 2 ^ m /\ \A k \in 0 .. m - 1 : Num[y] >= 2 ^ k
<1> DEFINE P(m) == m \in 0 .. W /\ Num[y] < 2 ^ m /\ \A k \in 0 .. m - 1 : Num[y] >= 2 ^ k
<1>1. Num[y] \in Nat /\ W \in Nat /\ \A m \in Nat : 2 ^ m \in Nat
  BY NumIsNat, WidthIs, PowerIs
<1>2. P(n)
  <2>1. CASE y = Zero
    <3>1. Num[y] = 0
      BY <2>1, NumUnit, Zenon
    <3>2. 0 .. n - 1 = {} /\ 2 ^ n = 1
      BY <2>1, PowerIs
    <3> QED
      BY <3>1, <3>2
  <2>2. CASE y # Zero
    <3>1. n - 1 \in Nat /\ (n - 1) + 1 = n
      BY <2>2 DEF Word, Positions
    <3>2. 2 ^ (n - 1) <= Num[y] /\ Num[y] < 2 ^ ((n - 1) + 1)
      BY <2>2, TopBit
    <3>3. \A k \in 0 .. n - 1 : 2 ^ k <= 2 ^ (n - 1) /\ 2 ^ k \in Nat /\ 2 ^ (n - 1) \in Nat
      BY <1>1, <3>1, PowerGrows
    <3> QED
      BY <1>1, <3>1, <3>2, <3>3
  <2> QED
    BY <2>1, <2>2
<1>3. ASSUME NEW a \in 0 .. W, NEW b \in 0 .. W, P(a), P(b), a < b PROVE FALSE
  <2>1. Num[y] < 2 ^ a
    BY <1>3
  <2>2. a \in 0 .. b - 1
    BY <1>3
  <2>3. Num[y] >= 2 ^ a
    BY <1>3, <2>2
  <2>4. 2 ^ a \in Nat
    BY <1>1
  <2> QED
    BY <1>1, <2>1, <2>3, <2>4
<1>4. \A m : P(m) => m = n
  <2> SUFFICES ASSUME NEW m, P(m) PROVE m = n
    OBVIOUS
  <2>1. m \in 0 .. W /\ n \in 0 .. W
    OBVIOUS
  <2> HIDE DEF P
  <2>2. ~(m < n) /\ ~(n < m)
    BY <1>2, <1>3, <2>1
  <2> QED
    BY <1>1, <2>1, <2>2
<1>5. (CHOOSE m \in 0 .. W : Num[y] < 2 ^ m /\ \A k \in 0 .. m - 1 : Num[y] >= 2 ^ k) = CHOOSE m : P(m)
  OBVIOUS
<1>6. n = CHOOSE m : P(m)
  <2> HIDE DEF P
  <2> QED
    BY <1>2, <1>4, Zenon
<1> QED
  BY <1>5, <1>6

\* bits.c:292: half of the bits are dropped in every round.
LEMMA HowManyBitsIsRight == \A x \in Word : howManyBits(x) = test_howManyBits(x)
<1> SUFFICES ASSUME NEW x \in Word PROVE howManyBits(x) = test_howManyBits(x)
  OBVIOUS
<1> DEFINE y == IF Negative(x) THEN Compl(x) ELSE x
<1>1. y \in Word /\ ~Negative(y) /\ W - 1 \notin y
  BY PowerFacts DEF Negative, Compl, Word
<1>2. Magnified(x) = y
  BY SignOf DEF Magnified, Compl, Word, Zero
<1>3. Num[y] = IF Negative(x) THEN -Int_(x) - 1 ELSE Int_(x)
  <2>1. Num[y] = Int_(y)
    BY <1>1 DEF Int_
  <2>2. CASE Negative(x)
    <3>1. Int_(y) = Int_(Compl(x))
      BY <2>2
    <3> QED
      BY <2>1, <2>2, <3>1, ComplIs
  <2>3. CASE ~Negative(x)
    <3>1. Int_(y) = Int_(x)
      BY <2>3
    <3> QED
      BY <2>1, <2>3, <3>1
  <2> QED
    BY <2>2, <2>3
<1> HIDE DEF y
<1>4. PICK r \in [0 .. LogW -> [v : Word, bits : Nat]] :
        /\ r[0] = [v |-> y, bits |-> 0]
        /\ \A k \in 0 .. LogW - 1 : r[k + 1] = Halved(r[k], 2 ^ (LogW - (k + 1)))
        /\ howManyBits(x) = Bits[r[LogW].bits + (IF r[LogW].v # Zero THEN 1 ELSE 0) + 1]
  BY <1>2, HalvingRounds
<1>5. LogW \in Nat /\ 2 ^ LogW = W /\ W \in Nat
  BY LogWIs, WidthIs
<1> DEFINE Near(k) == /\ r[k].v = {b \in Positions : b + r[k].bits \in y}
                      /\ \A b \in y : b < r[k].bits + 2 ^ (LogW - k)
                      /\ r[k].bits + 2 ^ (LogW - k) <= W
                      /\ y = Zero => r[k].bits = 0
                      /\ y # Zero => r[k].v # Zero
           Good == {k \in Nat : k <= LogW => Near(k)}
<1>6. 0 \in Good
  <2>1. r[0].v = y /\ r[0].bits = 0 /\ 2 ^ (LogW - 0) = W
    BY <1>4, <1>5
  <2>2. \A b \in y : b \in 0 .. W - 1
    BY <1>1 DEF Word, Positions
  <2>3. y = {b \in Positions : b + 0 \in y}
    BY <2>2 DEF Positions
  <2> QED
    BY <1>5, <2>1, <2>2, <2>3
<1>7. ASSUME NEW k \in Nat, k \in Good PROVE k + 1 \in Good
  <2> SUFFICES ASSUME k + 1 <= LogW PROVE Near(k + 1)
    OBVIOUS
  <2> DEFINE n == 2 ^ (LogW - (k + 1))
             v == r[k].v
             c == r[k].bits
  <2>1. k \in 0 .. LogW - 1 /\ k \in 0 .. LogW /\ Near(k) /\ LogW - (k + 1) \in Nat /\ LogW - k = (LogW - (k + 1)) + 1
    BY <1>5, <1>7
  <2>2. r[k + 1] = Halved(r[k], n) /\ v \in Word /\ c \in Nat
    BY <1>4, <2>1
  <2>3. 2 ^ (LogW - k) = 2 * n /\ n \in Nat \ {0}
    BY <2>1, PowerIs, PowerPositive
  <2>4. /\ v = {b \in Positions : b + c \in y} /\ \A b \in y : b < c + 2 * n
        /\ c + 2 * n <= W /\ (y = Zero => c = 0) /\ (y # Zero => v # Zero)
    BY <2>1, <2>3
  <2>5. /\ r[k + 1].v = Shr(v, IF Shr(v, n) # Zero THEN n ELSE 0)
        /\ r[k + 1].bits = c + (IF Shr(v, n) # Zero THEN n ELSE 0)
    BY <2>2 DEF Halved
  <2>6. \A b \in y : b \in 0 .. W - 1
    BY <1>1 DEF Word, Positions
  <2> HIDE DEF n, v, c
  <2>7. ~Negative(v)
    <3> SUFFICES ASSUME W - 1 \in v PROVE FALSE
      BY DEF Negative
    <3>1. (W - 1) + c \in y
      BY <2>4
    <3> QED
      BY <1>1, <1>5, <2>2, <2>6, <3>1
  <2>8. Shr(v, n) = {b \in Positions : b + n \in v} /\ Shr(v, 0) = {b \in Positions : b + 0 \in v}
    <3>1. n \in 0 .. W /\ 0 \in 0 .. W
      BY <1>5, <2>2, <2>3, <2>4
    <3> QED
      BY <2>2, <2>7, <3>1, NumShr
  <2>9. CASE Shr(v, n) # Zero
    <3>1. r[k + 1].v = Shr(v, n) /\ r[k + 1].bits = c + n
      BY <2>5, <2>9
    <3>2. Shr(v, n) = {b \in Positions : b + (c + n) \in y}
      <4>1. ASSUME NEW b \in Positions PROVE b + n \in v <=> b + (c + n) \in y
        <5>1. b \in 0 .. W - 1 /\ b + (c + n) = (b + n) + c
          BY <2>2, <2>3 DEF Positions
        <5>2. (b + n) + c \in y => b + n \in Positions
          BY <1>5, <2>2, <2>3, <2>6, <5>1 DEF Positions
        <5> QED
          BY <2>4, <5>1, <5>2
      <4> QED
        BY <2>8, <4>1
    <3>3. y # Zero
      <4>1. PICK b \in Shr(v, n) : TRUE
        BY <2>9 DEF Zero
      <4> QED
        BY <3>2, <4>1 DEF Zero
    <3>4. (c + n) + n <= W /\ \A b \in y : b < (c + n) + n
      BY <1>5, <2>2, <2>3, <2>4, <2>6
    <3> QED
      BY <2>9, <3>1, <3>2, <3>3, <3>4 DEF n
  <2>10. CASE Shr(v, n) = Zero
    <3>1. Shr(v, 0) = v
      <4>1. \A b \in Positions : b + 0 = b
        BY DEF Positions
      <4> QED
        BY <2>2, <2>8, <4>1 DEF Word
    <3>2. r[k + 1].v = v /\ r[k + 1].bits = c
      BY <2>2, <2>5, <2>10, <3>1
    <3>3. ASSUME NEW b \in y PROVE b < c + n
      <4> SUFFICES ASSUME b >= c + n PROVE FALSE
        BY <2>2, <2>3, <2>6
      <4> DEFINE a == b - c - n
      <4>1. a \in Positions /\ a + n \in Positions /\ (a + n) + c = b
        BY <1>5, <2>2, <2>3, <2>6 DEF Positions
      <4>2. a + n \in v
        BY <2>4, <4>1
      <4>3. a \in Shr(v, n)
        BY <2>8, <4>1, <4>2
      <4> QED
        BY <2>10, <4>3 DEF Zero
    <3>4. c + n <= W
      BY <1>5, <2>2, <2>3, <2>4
    <3> QED
      BY <2>4, <3>2, <3>3, <3>4 DEF n
  <2> QED
    BY <2>9, <2>10
<1>8. Good \in SUBSET Nat
  OBVIOUS
<1>9. \A k \in Nat : k \in Good
  <2> HIDE DEF Good
  <2> QED
    BY <1>6, <1>7, <1>8, AllNat
<1>10. Near(LogW)
  <2> HIDE DEF Near
  <2> QED
    BY <1>5, <1>9
<1> DEFINE c == r[LogW].bits
           v == r[LogW].v
           n == c + (IF v # Zero THEN 1 ELSE 0)
<1>11. /\ c \in Nat /\ v \in Word /\ v = {b \in Positions : b + c \in y}
       /\ \A b \in y : b < c + 1
       /\ c + 1 <= W /\ (y = Zero => c = 0) /\ (y # Zero => v # Zero)
  <2>1. r[LogW] \in [v : Word, bits : Nat] /\ 2 ^ (LogW - LogW) = 1
    BY <1>4, <1>5, PowerIs
  <2> QED
    BY <1>10, <2>1
<1>12. howManyBits(x) = Bits[n + 1]
  BY <1>4
<1> HIDE DEF c, v, Near
<1>13. n \in 0 .. W /\ (y = Zero => n = 0) /\ (y # Zero => n - 1 \in y /\ \A b \in y : b <= n - 1)
  <2>1. \A b \in y : b \in 0 .. W - 1
    BY <1>1 DEF Word, Positions
  <2>2. CASE y = Zero
    <3>1. v = {}
      BY <1>11, <2>2 DEF Zero
    <3> QED
      BY <1>5, <1>11, <2>2, <3>1 DEF Zero
  <2>3. CASE y # Zero
    <3>1. PICK b \in v : b \in Positions /\ b + c \in y
      BY <1>11, <2>3 DEF Zero
    <3>2. b = 0
      BY <1>5, <1>11, <3>1 DEF Positions
    <3>3. c \in y /\ n = c + 1
      BY <1>11, <2>3, <3>1, <3>2
    <3> QED
      BY <1>5, <1>11, <2>1, <2>3, <3>3
  <2> QED
    BY <2>2, <2>3
<1> HIDE DEF n
<1> DEFINE N(a) == CHOOSE m \in 0 .. W : a < 2 ^ m /\ \A k \in 0 .. m - 1 : a >= 2 ^ k
<1>14. n = N(Num[y])
  BY <1>1, <1>13, BitsNeeded
<1>15. test_howManyBits(x) = Bits[1 + N(Num[y])]
  BY <1>3 DEF test_howManyBits
<1> HIDE DEF N
<1>16. n + 1 = 1 + n
  BY <1>5, <1>13
<1> QED
  BY <1>12, <1>14, <1>15, <1>16, Zenon

-------------------------------------------------------------------------------
(* Floats. *)

\* The widths of the fields, the bias and the largest exponent.
LEMMA FloatConstants ==
  /\ W \in Nat /\ FB \in Nat /\ EB \in Nat /\ FB > 0 /\ EB >= 4 /\ W >= 8 /\ FB + EB = W - 1
  /\ 2 ^ FB \in Nat \ {0} /\ 2 ^ EB \in Nat /\ 2 ^ (EB - 1) \in Nat /\ 2 ^ EB = 2 * 2 ^ (EB - 1)
  /\ 2 ^ (W - 1) = 2 ^ FB * 2 ^ EB /\ 2 ^ FB >= 2
  /\ MaxExp = 2 ^ EB - 1 /\ MaxExp \in Nat /\ Bias \in Nat /\ Bias = 2 ^ (EB - 1) - 1
  /\ Bias >= W - 1 /\ Bias + W - 1 < MaxExp
<1>1. W \in Nat /\ FB \in Nat /\ EB \in Nat /\ FB > 0 /\ EB >= 4 /\ W >= 8 /\ FB + EB = W - 1
  BY WordsAreWide
<1>2. 2 ^ FB \in Nat \ {0} /\ 2 ^ EB \in Nat /\ 2 ^ (EB - 1) \in Nat
  BY <1>1, PowerPositive
<1>3. 2 ^ (FB + EB) = 2 ^ FB * 2 ^ EB
  BY <1>1, PowerAdds
<1>4. 2 ^ ((EB - 1) + 1) = 2 * 2 ^ (EB - 1) /\ (EB - 1) + 1 = EB
  BY <1>1, PowerIs
<1>5. Bias = 2 ^ (EB - 1) - 1 /\ MaxExp = 2 ^ EB - 1 /\ Bias + W - 1 < 2 ^ EB - 1
  BY BitsAssumption DEF Bias, MaxExp
<1>6. 2 ^ FB >= 2
  <2>0. 1 \in Nat /\ 1 <= FB
    BY <1>1
  <2>1. 2 ^ 1 <= 2 ^ FB
    BY <1>1, <2>0, PowerGrows, Zenon
  <2> QED
    BY <2>1, SmallPowers
<1>7. 2 ^ EB = 2 * 2 ^ (EB - 1)
  BY <1>4
<1>8. 2 ^ (W - 1) = 2 ^ FB * 2 ^ EB
  BY <1>1, <1>3
<1> QED
  BY <1>1, <1>2, <1>5, <1>6, <1>7, <1>8

\* What a word means as a float, but for its sign.
Sized == SUBSET (0 .. W - 2)

\* The words that are sizes have no sign bit.
LEMMA SizedIs == \A u : u \in Sized <=> u \in Word /\ ~Negative(u)
  BY WordsAreWide DEF Sized, Word, Negative, Positions

\* A size is its exponent over its fraction.
LEMMA FieldsOf ==
  ASSUME NEW u \in Sized
  PROVE  /\ Exp(u) \in 0 .. MaxExp /\ Num[u \intersect FracMask] \in 0 .. 2 ^ FB - 1
         /\ Num[u] = Exp(u) * 2 ^ FB + Num[u \intersect FracMask]
         /\ u \intersect FracMask \in Word
<1> DEFINE F == 2 ^ FB
           s == Shr(u, FB)
           f == Num[u \intersect FracMask]
<1>1. u \in Word /\ ~Negative(u) /\ FB \in 0 .. W /\ F \in Nat \ {0} /\ s \in Word
  BY SizedIs, FloatConstants, ShiftsAreWords
<1>2. u \intersect FracMask = Below(u, FB) /\ u \intersect ExpMask = u \ (0 .. FB - 1)
  <2>1. u \intersect FracMask = Below(u, FB)
    BY DEF Below, FracMask
  <2>2. \A b \in u : b \in 0 .. W - 2
    BY DEF Sized
  <2>3. \A b \in 0 .. W - 2 : b \in FB .. W - 2 <=> b \notin 0 .. FB - 1
    BY FloatConstants
  <2>4. u \intersect ExpMask = u \ (0 .. FB - 1)
    BY <2>2, <2>3 DEF ExpMask
  <2> QED
    BY <2>1, <2>4
<1>3. f = Num[Below(u, FB)] /\ Num[u \intersect ExpMask] = Num[u \ (0 .. FB - 1)]
  BY <1>2, Zenon
<1>4. f \in 0 .. F - 1
  BY <1>1, <1>3, BelowIsSmall
<1>5. Num[u \ (0 .. FB - 1)] = Num[s] * F
  BY <1>1, NumShr
<1>6. Num[u] = Num[Below(u, FB)] + Num[u \ (0 .. FB - 1)]
  BY <1>1, NumRest
<1>7. Num[s] \in Nat /\ Num[u] \in Nat /\ Num[u] < 2 ^ (W - 1)
  BY <1>1, NumIsNat, NegativeIs, PowerFacts
<1>8. Exp(u) = Num[s]
  <2> DEFINE a == Num[u \intersect ExpMask]
             b == Num[s]
  <2>1. a = F * b + 0 /\ a \in Int /\ b \in Int
    BY <1>1, <1>3, <1>5, <1>7
  <2> HIDE DEF a, b, F
  <2>2. a \div F = b
    BY <1>1, <2>1, DividedIs
  <2> QED
    BY <2>2 DEF Exp, a, b, F
<1>9. Num[s] < 2 ^ EB
  <2> DEFINE E == 2 ^ EB
             b == Num[s]
  <2>1. b * F + f < F * E /\ b \in Nat /\ E \in Nat
    BY <1>3, <1>4, <1>5, <1>6, <1>7, FloatConstants
  <2>2. b < E
    <3> HIDE DEF b, E, F, f
    <3> SUFFICES ASSUME b >= E PROVE FALSE
      BY <2>1
    <3>1. b * F >= E * F
      BY <1>1, <2>1
    <3>2. b * F \in Int /\ E * F \in Int /\ E * F = F * E
      BY <1>1, <2>1
    <3> QED
      BY <1>4, <1>1, <2>1, <3>1, <3>2
  <2> QED
    BY <2>2
<1>10. u \intersect FracMask \in Word
  BY <1>1 DEF Word
<1> QED
  BY <1>3, <1>4, <1>5, <1>6, <1>7, <1>8, <1>9, <1>10, FloatConstants

\* The sign is in neither field.
LEMMA FieldsOfAny ==
  ASSUME NEW u \in Word
  PROVE  /\ u \ Tmin \in Sized /\ Exp(u) = Exp(u \ Tmin)
         /\ u \intersect FracMask = (u \ Tmin) \intersect FracMask
         /\ u \intersect FracMask \in Word
<1>1. u \ Tmin \in Sized
  BY WordsAreWide DEF Sized, Word, Positions, Tmin
<1>2. u \intersect FracMask = (u \ Tmin) \intersect FracMask
  BY FloatConstants DEF FracMask, Tmin
<1>3. u \intersect ExpMask = (u \ Tmin) \intersect ExpMask
  BY FloatConstants DEF ExpMask, Tmin
<1>4. Exp(u) = Exp(u \ Tmin)
  BY <1>3, Zenon DEF Exp
<1> QED
  BY <1>1, <1>2, <1>4, FieldsOf

\* An exponent and a fraction make a float.
LEMMA FloatOf ==
  ASSUME NEW e \in 0 .. MaxExp, NEW c \in SUBSET FracMask
  PROVE  LET u == Shl(Bits[e], FB) \union c
         IN  u \in Sized /\ Exp(u) = e /\ u \intersect FracMask = c /\ Num[u] = e * 2 ^ FB + Num[c]
<1> DEFINE F == 2 ^ FB
           x == Bits[e]
           y == Shl(x, FB)
           u == y \union c
<1>1. e \in Nat /\ e < 2 ^ EB /\ FB \in 0 .. W /\ F \in Nat \ {0} /\ EB \in Nat
  BY FloatConstants
<1>2. x \in Word /\ Num[x] = e
  <2>1. 2 ^ EB <= 2 ^ W
    BY FloatConstants, PowerGrows
  <2>2. e \in 0 .. 2 ^ W - 1
    BY <1>1, <2>1, PowerFacts
  <2> QED
    BY <2>2, NumOfSmall
<1> HIDE DEF x
<1>3. ASSUME NEW b \in x PROVE b < EB /\ b \in Nat
  <2>1. b \in Nat /\ 2 ^ b \in Nat /\ x \ {b} \in Word
    BY <1>2, PowerIs DEF Word, Positions
  <2>2. Num[x] = 2 ^ b + Num[x \ {b}] /\ Num[x \ {b}] \in Nat
    BY <1>2, <2>1, NumLess, NumIsNat
  <2>3. EB <= b => 2 ^ EB <= 2 ^ b
    BY <1>1, <2>1, PowerGrows
  <2> QED
    BY <1>1, <1>2, <2>1, <2>2, <2>3, PowerIs
<1>4. \A b \in x : b < W - FB
  BY <1>3, FloatConstants
<1>5. y \in Word /\ Num[y] = e * F
  BY <1>1, <1>2, <1>4, NumShlAll, ShiftsAreWords
<1>6. \A b \in y : FB <= b /\ b <= W - 2 /\ b \in Nat
  BY <1>3, FloatConstants DEF Shl
<1> HIDE DEF y
<1>7. c \in Word /\ \A b \in c : b < FB /\ b \in Nat
  BY FloatConstants DEF FracMask, Word, Positions
<1>8. u \in Sized /\ u \intersect FracMask = c
  <2>1. \A b \in y : b \in 0 .. W - 2 /\ b \notin FracMask
    BY <1>6, FloatConstants DEF FracMask
  <2>2. \A b \in c : b \in 0 .. W - 2 /\ b \in FracMask
    BY <1>7, FloatConstants
  <2> QED
    BY <2>1, <2>2 DEF Sized
<1>9. Num[u] = e * F + Num[c]
  <2>1. y \intersect c = {}
    BY <1>6, <1>7, FloatConstants
  <2> QED
    BY <1>5, <1>7, <2>1, NumUnion
<1>10. Exp(u) = e
  <2>1. Num[u] = Exp(u) * F + Num[u \intersect FracMask] /\ Exp(u) \in 0 .. MaxExp
    BY <1>8, FieldsOf
  <2>2. Num[u \intersect FracMask] = Num[c]
    BY <1>8, Zenon
  <2> DEFINE a == Exp(u)
  <2>3. a * F = e * F /\ a \in Int
    BY <1>1, <1>5, <1>7, <1>9, <2>1, <2>2, NumIsNat
  <2>4. a = e
    <3> HIDE DEF a, F
    <3> QED
      BY <1>1, <2>3
  <2> QED
    BY <2>4
<1> QED
  BY <1>8, <1>9, <1>10 DEF y, x

\* Infinity is the only size with the largest exponent and no fraction.
LEMMA ExpMaskIs ==
  /\ ExpMask \in Sized /\ Exp(ExpMask) = MaxExp /\ Num[ExpMask] = MaxExp * 2 ^ FB
  /\ ExpMask \intersect FracMask = {}
  /\ \A u \in Sized : Exp(u) = MaxExp /\ Num[u \intersect FracMask] = 0 <=> u = ExpMask
<1> DEFINE F == 2 ^ FB
           E == 2 ^ EB
<1>1. ExpMask \in Sized /\ ExpMask \intersect FracMask = {} /\ Tmax \in Sized
  BY FloatConstants DEF ExpMask, FracMask, Sized, Tmax, Tmin, Positions
<1>2. Exp(ExpMask) = MaxExp
  <2>1. Tmax \intersect ExpMask = ExpMask \intersect ExpMask
    BY FloatConstants DEF ExpMask, Tmax, Tmin, Positions
  <2>2. Exp(Tmax) = Exp(ExpMask)
    BY <2>1, Zenon DEF Exp
  <2> DEFINE a == Exp(Tmax)
             f == Num[Tmax \intersect FracMask]
  <2>3. a \in 0 .. E - 1 /\ f \in 0 .. F - 1 /\ Num[Tmax] = a * F + f
    BY <1>1, FieldsOf, FloatConstants
  <2>4. Num[Tmax] = F * E - 1 /\ F \in Nat /\ E \in Nat
    BY SmallWords, FloatConstants
  <2>5. a = E - 1
    <3> HIDE DEF a, f, F, E
    <3> SUFFICES ASSUME a <= E - 2 PROVE FALSE
      BY <2>3, <2>4
    <3>1. a * F <= (E - 2) * F
      BY <2>3, <2>4
    <3>2. (E - 2) * F = F * E - 2 * F /\ a * F \in Int /\ F * E \in Int
      BY <2>3, <2>4
    <3>3. F >= 1
      BY <2>3, <2>4
    <3> QED
      BY <2>3, <2>4, <3>1, <3>2, <3>3
  <2> QED
    BY <2>2, <2>5, FloatConstants
<1>3. Num[ExpMask \intersect FracMask] = 0
  <2>1. Num[ExpMask \intersect FracMask] = Num[{}]
    BY <1>1, Zenon
  <2> QED
    BY <2>1, NumIsNat
<1>4. Num[ExpMask] = MaxExp * F
  <2>1. Num[ExpMask] = Exp(ExpMask) * F + Num[ExpMask \intersect FracMask]
    BY <1>1, FieldsOf
  <2>2. Exp(ExpMask) * F = MaxExp * F /\ MaxExp * F \in Int
    BY <1>2, FloatConstants
  <2> HIDE DEF F
  <2> QED
    BY <1>3, <2>1, <2>2
<1>5. ASSUME NEW u \in Sized, Exp(u) = MaxExp, Num[u \intersect FracMask] = 0 PROVE u = ExpMask
  <2>1. Num[u] = MaxExp * F
    BY <1>5, FieldsOf, FloatConstants
  <2>2. u \in Word /\ ExpMask \in Word
    BY <1>1, SizedIs
  <2> QED
    BY <1>4, <2>1, <2>2, NumDiffers
<1> QED
  BY <1>1, <1>2, <1>3, <1>4, <1>5

-------------------------------------------------------------------------------
(* Floats in order. *)

\* The finite sizes have a smaller exponent.
LEMMA FiniteIs == \A u : u \in Finite <=> u \in Sized /\ Exp(u) # MaxExp
  BY DEF Finite, Sized

\* The magnitude by exponent and fraction, the hidden bit included.
LEMMA MagnitudeIs ==
  ASSUME NEW u \in Finite
  PROVE  /\ Magnitude[u] \in Nat
         /\ Magnitude[u] = IF Exp(u) = 0 THEN Num[u \intersect FracMask]
                           ELSE (2 ^ FB + Num[u \intersect FracMask]) * 2 ^ (Exp(u) - 1)
         /\ Exp(u) \in 0 .. MaxExp - 1
<1> DEFINE f == Num[u \intersect FracMask]
<1>1. Magnitude[u] = IF Exp(u) = 0 THEN f ELSE (2 ^ FB + f) * 2 ^ (Exp(u) - 1)
  BY DEF Magnitude
<1>2. f \in Nat /\ 2 ^ FB \in Nat /\ Exp(u) \in 0 .. MaxExp /\ Exp(u) # MaxExp
  BY FieldsOf, FiniteIs, FloatConstants
<1> HIDE DEF f
<1>3. Exp(u) # 0 => 2 ^ (Exp(u) - 1) \in Nat
  <2>1. Exp(u) # 0 => Exp(u) - 1 \in Nat
    BY <1>2
  <2> QED
    BY <2>1, PowerIs
<1>4. Magnitude[u] \in Nat
  BY <1>1, <1>2, <1>3
<1>5. Exp(u) \in 0 .. MaxExp - 1
  BY <1>2, FloatConstants
<1> QED
  BY <1>1, <1>4, <1>5 DEF f

\* Every exponent has its range of values.
LEMMA MagnitudeBounds ==
  ASSUME NEW u \in Finite
  PROVE  /\ Magnitude[u] < 2 ^ FB * 2 ^ Exp(u)
         /\ Exp(u) > 0 => Magnitude[u] >= 2 ^ FB * 2 ^ (Exp(u) - 1)
<1> DEFINE f == Num[u \intersect FracMask]
           F == 2 ^ FB
           e == Exp(u)
           p == 2 ^ (e - 1)
           m == Magnitude[u]
<1>1. f \in 0 .. F - 1 /\ F \in Nat /\ e \in Nat
  <2>1. u \in Sized
    BY FiniteIs
  <2>2. f \in 0 .. F - 1 /\ e \in 0 .. MaxExp
    BY <2>1, FieldsOf
  <2> QED
    BY <2>2, FloatConstants
<1>2. m = IF e = 0 THEN f ELSE (F + f) * p
  BY MagnitudeIs
<1>3. CASE e = 0
  <2>1. 2 ^ e = 1
    BY <1>3, SmallPowers, Zenon
  <2> HIDE DEF f, F, e, p, m
  <2> QED
    BY <1>1, <1>2, <1>3, <2>1 DEF F, e, m
<1>4. CASE e > 0
  <2>1. 2 ^ ((e - 1) + 1) = 2 * p /\ p \in Nat \ {0} /\ (e - 1) + 1 = e
    BY <1>1, <1>4, PowerIs, PowerPositive
  <2>2. 2 ^ e = 2 * p
    BY <2>1
  <2> DEFINE q == 2 ^ e
  <2> HIDE DEF f, F, e, p, m, q
  <2>3. m = F * p + f * p /\ F * p \in Int /\ f * p \in Int /\ f * p >= 0
    BY <1>1, <1>2, <1>4, <2>1
  <2>4. f * p < F * p
    BY <1>1, <2>1
  <2>5. F * q = F * p + F * p
    BY <1>1, <2>1, <2>2 DEF q
  <2>6. m < F * q /\ m >= F * p
    BY <2>3, <2>4, <2>5
  <2> QED
    BY <2>6 DEF F, e, m, q, p
<1> QED
  BY <1>1, <1>3, <1>4

\* Floats are in the order of their bits.
LEMMA MagnitudeGrows ==
  ASSUME NEW u \in Finite, NEW v \in Finite, Num[u] < Num[v]
  PROVE  Magnitude[u] < Magnitude[v]
<1> DEFINE F == 2 ^ FB
           a == Exp(u)
           b == Exp(v)
           f == Num[u \intersect FracMask]
           g == Num[v \intersect FracMask]
<1>1. /\ a \in Nat /\ b \in Nat /\ f \in 0 .. F - 1 /\ g \in 0 .. F - 1 /\ F \in Nat
      /\ Num[u] = a * F + f /\ Num[v] = b * F + g
  BY FieldsOf, FiniteIs, FloatConstants
<1>2. Magnitude[u] \in Nat /\ Magnitude[v] \in Nat
  BY MagnitudeIs
<1>3. CASE a < b
  <2>1. 2 ^ a <= 2 ^ (b - 1) /\ 2 ^ a \in Nat /\ 2 ^ (b - 1) \in Nat
    <3>1. b - 1 \in Nat /\ a <= b - 1
      BY <1>1, <1>3
    <3> QED
      BY <1>1, <3>1, PowerGrows, PowerIs
  <2>2. Magnitude[u] < F * 2 ^ a /\ Magnitude[v] >= F * 2 ^ (b - 1)
    BY <1>1, <1>3, MagnitudeBounds
  <2> DEFINE p == 2 ^ a
             q == 2 ^ (b - 1)
  <2> HIDE DEF p, q, F, a, b
  <2>3. F * p <= F * q /\ F * p \in Int /\ F * q \in Int
    BY <1>1, <2>1 DEF p, q
  <2> QED
    BY <1>2, <2>2, <2>3 DEF p, q
<1>4. CASE a = b
  <2> DEFINE p == 2 ^ (a - 1)
  <2>1. f < g
    <3> HIDE DEF a, b, f, g, F
    <3>1. a * F = b * F /\ a * F \in Int
      BY <1>1, <1>4
    <3> QED
      BY <1>1, <3>1
  <2>2. a # 0 => p \in Nat \ {0}
    <3>1. a # 0 => a - 1 \in Nat
      BY <1>1
    <3> QED
      BY <3>1, PowerPositive
  <2>3. Magnitude[u] = IF a = 0 THEN f ELSE (F + f) * p
    BY MagnitudeIs
  <2>4. Magnitude[v] = IF a = 0 THEN g ELSE (F + g) * p
    BY <1>4, MagnitudeIs
  <2> HIDE DEF a, b, f, g, F, p
  <2>5. a # 0 => (F + f) * p < (F + g) * p
    BY <1>1, <2>1, <2>2
  <2> QED
    BY <2>1, <2>3, <2>4, <2>5
<1>5. CASE a > b
  <2> HIDE DEF a, b, f, g, F
  <2>1. a * F >= (b + 1) * F
    BY <1>1, <1>5
  <2>2. (b + 1) * F = b * F + F /\ b * F \in Int /\ a * F \in Int
    BY <1>1
  <2> QED
    BY <1>1, <2>1, <2>2
<1> QED
  BY <1>1, <1>3, <1>4, <1>5

\* Floats with the same magnitude are the same.
LEMMA MagnitudeDiffers ==
  ASSUME NEW u \in Finite, NEW v \in Finite
  PROVE  /\ Num[u] <= Num[v] => Magnitude[u] <= Magnitude[v]
         /\ u # v => Num[u] # Num[v]
         /\ Num[u] \in Nat /\ Magnitude[u] \in Nat
<1>1. u \in Word /\ v \in Word
  BY FiniteIs, SizedIs
<1>2. u # v => Num[u] # Num[v]
  BY <1>1, NumDiffers
<1>3. Num[u] \in Nat /\ Num[v] \in Nat /\ Magnitude[u] \in Nat /\ Magnitude[v] \in Nat
  BY <1>1, NumIsNat, MagnitudeIs
<1>4. CASE u = v
  BY <1>2, <1>3, <1>4
<1>5. CASE u # v
  BY <1>2, <1>3, <1>5, MagnitudeGrows
<1> QED
  BY <1>4, <1>5

\* A float is the nearest if every other one is farther away, or as far and odd.
LEMMA NearestIs ==
  ASSUME NEW m \in Values, m \in Nat, NEW u \in Finite,
         \A v \in Finite : \/ v = u \/ Away(v, m) > Away(u, m)
                           \/ Away(v, m) = Away(u, m) /\ 0 \in v /\ 0 \notin u
  PROVE  Nearest[m] = u
<1>1. \A v \in Finite : Away(v, m) \in Nat
  <2>1. \A v \in Finite : Magnitude[v] \in Nat
    BY MagnitudeIs
  <2> QED
    BY <2>1 DEF Away
<1> DEFINE S == {Away(v, m) : v \in Finite}
           least == Min(S)
           best == {v \in Finite : Away(v, m) = least}
<1>2. least = Away(u, m)
  <2> DEFINE a == Away(u, m)
             P(x) == x \in S /\ \A y \in S : x <= y
  <2>1. Min(S) = CHOOSE x : P(x)
    BY DEF Min
  <2>2. P(a)
    BY <1>1
  <2>3. \A x : P(x) => x = a
    BY <1>1
  <2> HIDE DEF P, a
  <2>4. Min(S) = a
    BY <2>1, <2>2, <2>3
  <2> QED
    BY <2>4 DEF a
<1>3. Nearest[m] = CHOOSE w \in best : best = {w} \/ 0 \notin w
  BY DEF Nearest
<1> HIDE DEF least, S
<1>4. u \in best /\ \A w \in best : w = u \/ (0 \in w /\ 0 \notin u)
  BY <1>1, <1>2
<1> HIDE DEF best
<1> DEFINE P(w) == w \in best /\ (best = {w} \/ 0 \notin w)
<1>5. P(u)
  <2>1. CASE 0 \notin u
    BY <1>4, <2>1
  <2>2. CASE 0 \in u
    BY <1>4, <2>2
  <2> QED
    BY <2>1, <2>2
<1>6. \A w : P(w) => w = u
  BY <1>4
<1>7. Nearest[m] = CHOOSE w : P(w)
  BY <1>3
<1> HIDE DEF P
<1> QED
  BY <1>5, <1>6, <1>7

\* A value that is that of a float is rounded to it.
LEMMA NearestIsExact ==
  ASSUME NEW u \in Finite, Magnitude[u] \in Values
  PROVE  Nearest[Magnitude[u]] = u
<1> DEFINE m == Magnitude[u]
<1>1. ASSUME NEW v \in Finite, v # u PROVE Away(v, m) > Away(u, m)
  <2>1. Magnitude[v] \in Nat /\ m \in Nat /\ Num[u] \in Nat /\ Num[v] \in Nat /\ Num[u] # Num[v]
    BY <1>1, MagnitudeDiffers
  <2>2. Magnitude[v] # m
    BY <2>1, MagnitudeGrows
  <2> QED
    BY <2>1, <2>2 DEF Away
<1>2. m \in Nat
  BY MagnitudeIs
<1> HIDE DEF m
<1>3. m \in Values
  BY DEF m
<1>4. Nearest[m] = u
  BY <1>1, <1>2, <1>3, NearestIs
<1> QED
  BY <1>4 DEF m

\* Between two neighbours, the nearer one, or the even one in the middle.
LEMMA NearestIsBetween ==
  ASSUME NEW m \in Values, m \in Nat, NEW lo \in Finite, NEW hi \in Finite, Num[hi] = Num[lo] + 1,
         Magnitude[lo] <= m, m < Magnitude[hi]
  PROVE  LET up == \/ m - Magnitude[lo] > Magnitude[hi] - m
                   \/ m - Magnitude[lo] = Magnitude[hi] - m /\ 0 \in lo
         IN  Nearest[m] = IF up THEN hi ELSE lo
<1> DEFINE a == Magnitude[lo]
           b == Magnitude[hi]
           up == m - a > b - m \/ (m - a = b - m /\ 0 \in lo)
           u == IF up THEN hi ELSE lo
<1>1. a \in Nat /\ b \in Nat /\ Num[lo] \in Nat /\ Num[hi] \in Nat
  BY MagnitudeDiffers
<1>2. 0 \in lo <=> 0 \notin hi
  <2>1. 0 \in Positions /\ 2 ^ 0 = 1 /\ lo \in Word /\ hi \in Word
    BY WordsAreWide, SmallPowers, FiniteIs, SizedIs DEF Positions
  <2>2. (0 \in lo <=> (Num[lo] \div 2 ^ 0) % 2 = 1) /\ (0 \in hi <=> (Num[hi] \div 2 ^ 0) % 2 = 1)
    BY <2>1, BitOfNum
  <2> QED
    BY <1>1, <2>1, <2>2
<1>3. Away(lo, m) = m - a /\ Away(hi, m) = b - m
  BY <1>1 DEF Away
<1>4. ASSUME NEW v \in Finite, v # lo, v # hi
      PROVE  Away(v, m) > m - a \/ Away(v, m) > b - m
  <2>1. Num[v] \in Nat /\ Num[v] # Num[lo] /\ Num[v] # Num[hi] /\ Magnitude[v] \in Nat
    BY <1>4, MagnitudeDiffers
  <2>2. CASE Num[v] < Num[lo]
    <3>1. Magnitude[v] < a
      BY <2>2, MagnitudeGrows
    <3> QED
      BY <1>1, <2>1, <3>1 DEF Away
  <2>3. CASE Num[v] > Num[hi]
    <3>1. Magnitude[v] > b
      BY <2>3, MagnitudeGrows, <1>1, <2>1
    <3> QED
      BY <1>1, <2>1, <3>1 DEF Away
  <2> QED
    BY <1>1, <2>1, <2>2, <2>3
<1>5. Magnitude[lo] <= m /\ m < Magnitude[hi]
  OBVIOUS
<1>6. \A v \in Finite : Away(v, m) \in Nat
  <2>1. \A v \in Finite : Magnitude[v] \in Nat
    BY MagnitudeIs
  <2> QED
    BY <2>1 DEF Away
<1> HIDE DEF a, b
<1>7. ASSUME NEW v \in Finite
      PROVE  \/ v = u \/ Away(v, m) > Away(u, m)
             \/ Away(v, m) = Away(u, m) /\ 0 \in v /\ 0 \notin u
  <2>1. CASE v = lo \/ v = hi
    BY <1>1, <1>2, <1>3, <2>1
  <2>2. CASE v # lo /\ v # hi
    BY <1>1, <1>3, <1>4, <1>6, <2>2
  <2> QED
    BY <2>1, <2>2
<1>8. u \in Finite
  OBVIOUS
<1> HIDE DEF u
<1>9. Nearest[m] = u
  BY <1>7, <1>8, NearestIs
<1> QED
  BY <1>9 DEF u, up, a, b

-------------------------------------------------------------------------------
(* The puzzles: doubling a float. *)

\* Nothing finite is rounded to infinity.
LEMMA FiniteIsBelow ==
  ASSUME NEW u \in Finite
  PROVE  ~(2 * Magnitude[u] >= (2 ^ (FB + 2) - 1) * 2 ^ (MaxExp - 2))
<1> DEFINE F == 2 ^ FB
           p == 2 ^ (MaxExp - 2)
           m == Magnitude[u]
           f == Num[u \intersect FracMask]
           e == Exp(u)
<1>1. F \in Nat /\ F >= 2 /\ FB \in Nat /\ MaxExp \in Nat /\ MaxExp >= 7
  BY FloatConstants
<1>2. 2 ^ (FB + 2) = 4 * F
  <2>1. 2 ^ (FB + 2) = 2 ^ FB * 2 ^ 2
    BY <1>1, PowerAdds
  <2> QED
    BY <1>1, <2>1, SmallPowers
<1>3. p \in Nat /\ p >= 1
  <2>1. MaxExp - 2 \in Nat
    BY <1>1
  <2> QED
    BY <2>1, PowerPositive
<1>4. m \in Nat /\ e \in 0 .. MaxExp - 1 /\ f \in 0 .. F - 1
  <2>1. u \in Sized
    BY FiniteIs
  <2> QED
    BY <2>1, MagnitudeIs, FieldsOf
<1>5. m <= (2 * F - 1) * p
  <2>1. m = IF e = 0 THEN f ELSE (F + f) * 2 ^ (e - 1)
    BY MagnitudeIs
  <2>2. CASE e = 0
    <3> HIDE DEF F, p, m, f, e
    <3>1. (2 * F - 1) * 1 <= (2 * F - 1) * p
      BY <1>1, <1>3
    <3> QED
      BY <1>1, <1>3, <1>4, <2>1, <2>2, <3>1
  <2>3. CASE e # 0
    <3>1. e - 1 \in Nat /\ MaxExp - 2 \in Nat /\ e - 1 <= MaxExp - 2
      BY <1>1, <1>4, <2>3
    <3>2. 2 ^ (e - 1) <= p /\ 2 ^ (e - 1) \in Nat
      BY <3>1, PowerGrows, PowerIs
    <3> DEFINE q == 2 ^ (e - 1)
    <3> HIDE DEF F, p, m, f, e, q
    <3>3. (F + f) * q <= (F + f) * p
      BY <1>1, <1>3, <1>4, <3>2 DEF q
    <3>4. (F + f) * p <= (2 * F - 1) * p
      BY <1>1, <1>3, <1>4
    <3>5. (F + f) * q \in Int /\ (F + f) * p \in Int /\ (2 * F - 1) * p \in Int
      BY <1>1, <1>3, <1>4, <3>2 DEF q
    <3> QED
      BY <1>4, <2>1, <2>3, <3>3, <3>4, <3>5 DEF q
  <2> QED
    BY <2>2, <2>3
<1> DEFINE T == (2 ^ (FB + 2) - 1) * 2 ^ (MaxExp - 2)
<1>6. T = (4 * F - 1) * p
  BY <1>2
<1> HIDE DEF F, p, m, T
<1>7. (4 * F - 1) * p = 2 * ((2 * F - 1) * p) + p
  BY <1>1, <1>3
<1>8. (2 * F - 1) * p \in Int
  BY <1>1, <1>3
<1>9. ~(2 * m >= T)
  BY <1>3, <1>4, <1>5, <1>6, <1>7, <1>8
<1> QED
  BY <1>9 DEF m, T

\* A magnitude that is a float's is rounded to that float.
LEMMA RoundedIsExact ==
  ASSUME NEW u \in Finite, Magnitude[u] \in Values
  PROVE  Rounded(Magnitude[u]) = u
<1> DEFINE T == (2 ^ (FB + 2) - 1) * 2 ^ (MaxExp - 2)
           m == Magnitude[u]
<1>1. ~(2 * m >= T)
  BY FiniteIsBelow
<1>2. Rounded(m) = IF 2 * m >= T THEN ExpMask ELSE Nearest[m]
  BY DEF Rounded
<1>3. Nearest[m] = u
  BY NearestIsExact
<1> HIDE DEF T, m
<1> QED
  BY <1>1, <1>2, <1>3 DEF m

\* What is beyond all floats is rounded to infinity.
LEMMA RoundedIsInfinite ==
  ASSUME NEW m \in Nat, m >= 2 ^ FB * 2 ^ (MaxExp - 1)
  PROVE  Rounded(m) = ExpMask
<1> DEFINE F == 2 ^ FB
           p == 2 ^ (MaxExp - 2)
<1>1. F \in Nat /\ FB \in Nat /\ MaxExp \in Nat /\ MaxExp >= 7
  BY FloatConstants
<1>2. 2 ^ (FB + 2) = 4 * F
  <2>1. 2 ^ (FB + 2) = 2 ^ FB * 2 ^ 2
    BY <1>1, PowerAdds
  <2> QED
    BY <1>1, <2>1, SmallPowers
<1>3. p \in Nat /\ 2 ^ (MaxExp - 1) = 2 * p
  <2>1. MaxExp - 2 \in Nat /\ (MaxExp - 2) + 1 = MaxExp - 1
    BY <1>1
  <2>2. p \in Nat /\ 2 ^ ((MaxExp - 2) + 1) = 2 * p
    BY <2>1, PowerIs
  <2> QED
    BY <2>1, <2>2
<1>4. 2 * m >= (4 * F - 1) * p
  <2> HIDE DEF F, p
  <2>1. F * (2 * p) = 2 * (F * p) /\ (4 * F - 1) * p = 4 * (F * p) - p /\ F * p \in Int
    BY <1>1, <1>3
  <2>2. m >= 2 * (F * p)
    BY <1>3, <2>1 DEF F
  <2> QED
    BY <1>3, <2>1, <2>2
<1> QED
  BY <1>2, <1>4 DEF Rounded

\* bits.c:323: the fraction of a small float is doubled, the exponent of others grows.
LEMMA FloatTwiceIsRight == \A uf \in Word : float_twice(uf) = test_float_twice(uf)
<1> SUFFICES ASSUME NEW uf \in Word PROVE float_twice(uf) = test_float_twice(uf)
  OBVIOUS
<1> DEFINE s == uf \ Tmin
           sign == uf \intersect Tmin
           c == s \intersect FracMask
           e == Exp(uf)
           f == Num[c]
           F == 2 ^ FB
<1>1. /\ s \in Sized /\ e = Exp(s) /\ uf \intersect FracMask = c /\ c \in Word
      /\ s \in Word /\ ~Negative(s)
  BY FieldsOfAny, SizedIs
<1>2. /\ e \in 0 .. MaxExp /\ f \in 0 .. F - 1 /\ Num[s] = e * F + f /\ F \in Nat /\ F >= 2
      /\ MaxExp \in Nat /\ MaxExp >= 7
  <2>1. /\ Exp(s) \in 0 .. MaxExp /\ f \in 0 .. F - 1 /\ Num[s] = Exp(s) * F + f
    BY <1>1, FieldsOf
  <2>2. F \in Nat /\ F >= 2 /\ MaxExp \in Nat
    BY FloatConstants
  <2>3. MaxExp >= 7
    BY FloatConstants
  <2> QED
    BY <1>1, <2>1, <2>2, <2>3
<1>3. CASE e = MaxExp
  <2>1. e # 0 /\ e # MaxExp - 1
    BY <1>2, <1>3
  <2>2. float_twice(uf) = uf
    BY <1>3, <2>1 DEF float_twice
  <2>3. test_float_twice(uf) = uf
    BY <1>3 DEF test_float_twice
  <2> QED
    BY <2>2, <2>3
<1>4. CASE e # MaxExp
  <2>1. s \in Finite /\ Magnitude[s] \in Nat
    BY <1>1, <1>4, FiniteIs, MagnitudeIs
  <2>2. Magnitude[s] = IF e = 0 THEN f ELSE (F + f) * 2 ^ (e - 1)
    BY <1>1, <2>1, MagnitudeIs
  <2>3. 2 * Magnitude[s] \in Values
    BY <2>1 DEF Values
  <2>4. test_float_twice(uf) = sign \union Rounded(2 * Magnitude[s])
    BY <1>4 DEF test_float_twice
  <2>5. ASSUME NEW v \in Finite, Magnitude[v] = 2 * Magnitude[s]
        PROVE  Rounded(2 * Magnitude[s]) = v
    <3>1. Rounded(Magnitude[v]) = v
      BY <2>3, <2>5, RoundedIsExact
    <3> QED
      BY <2>5, <3>1
  <2>6. CASE e = 0
    <3> DEFINE v == Shl(uf, 1)
    <3>1. Num[s] = f
      <4> HIDE DEF e, f, F
      <4>1. 0 * F = 0
        BY <1>2
      <4> QED
        BY <1>2, <2>6, <4>1
    <3>2. s = c
      BY <1>1, <3>1, NumDiffers
    <3>3. \A b \in s : b \in Nat /\ b < FB
      BY <3>2, FloatConstants DEF FracMask
    <3>4. v = Shl(s, 1)
      BY <1>1, FloatConstants DEF Shl, Positions, Tmin, Word
    <3>5. \A b \in s : b < W - 1
      BY <3>3, FloatConstants
    <3>6. 1 \in 0 .. W /\ 2 ^ 1 = 2
      BY FloatConstants, SmallPowers
    <3>7. Num[Shl(s, 1)] = Num[s] * 2 ^ 1
      BY <1>1, <3>5, <3>6, NumShlAll
    <3>8. v \in Sized
      BY <3>3, <3>4, FloatConstants DEF Shl, Sized
    <3>9. Num[v] = 2 * f
      <4>1. Num[v] = Num[Shl(s, 1)]
        BY <3>4, Zenon
      <4> QED
        BY <1>2, <3>1, <3>6, <3>7, <4>1
    <3> DEFINE a == Exp(v)
               g == Num[v \intersect FracMask]
    <3>10. a \in 0 .. MaxExp /\ g \in 0 .. F - 1 /\ Num[v] = a * F + g
      BY <3>8, FieldsOf
    <3>11. a \in {0, 1}
      <4> HIDE DEF a, g, f, F, v
      <4> SUFFICES ASSUME a >= 2 PROVE FALSE
        BY <3>10
      <4>1. a * F >= 2 * F /\ a * F \in Int
        BY <1>2, <3>10
      <4> QED
        BY <1>2, <3>9, <3>10, <4>1
    <3>12. v \in Finite
      BY <1>2, <3>8, <3>11, FiniteIs
    <3>13. Magnitude[v] = IF a = 0 THEN g ELSE (F + g) * 2 ^ (a - 1)
      BY <3>12, MagnitudeIs
    <3>14. Magnitude[v] = Num[v]
      <4>1. CASE a = 0
        <5>1. a * F = 0
          BY <1>2, <4>1
        <5> HIDE DEF a, g, F, v
        <5> QED
          BY <3>10, <3>13, <4>1, <5>1
      <4>2. CASE a = 1
        <5>1. a * F = F /\ 2 ^ (a - 1) = 1
          <6>1. a - 1 = 0
            BY <4>2
          <6>2. 2 ^ (a - 1) = 2 ^ 0
            BY <6>1, Zenon
          <6> QED
            BY <1>2, <4>2, <6>2, SmallPowers
        <5> HIDE DEF a, g, F, v
        <5> QED
          BY <1>2, <3>10, <3>13, <4>2, <5>1
      <4> QED
        BY <3>11, <4>1, <4>2
    <3>15. Magnitude[v] = 2 * Magnitude[s]
      BY <2>2, <2>6, <3>9, <3>14
    <3>16. Rounded(2 * Magnitude[s]) = v
      BY <2>5, <3>12, <3>15
    <3>17. e # MaxExp /\ e # MaxExp - 1
      BY <1>2, <2>6
    <3>18. float_twice(uf) = sign \union v
      BY <2>6, <3>17 DEF float_twice
    <3> QED
      BY <2>4, <3>16, <3>18
  <2>7. CASE e = MaxExp - 1
    <3>1. e # 0 /\ e # MaxExp
      BY <1>2, <2>7
    <3>2. float_twice(uf) = sign \union ExpMask
      BY <2>7, <3>1 DEF float_twice
    <3> DEFINE p == 2 ^ (MaxExp - 2)
    <3>3. p \in Nat /\ 2 ^ (MaxExp - 1) = 2 * p
      <4>1. MaxExp - 2 \in Nat /\ (MaxExp - 2) + 1 = MaxExp - 1
        BY <1>2
      <4>2. p \in Nat /\ 2 ^ ((MaxExp - 2) + 1) = 2 * p
        BY <4>1, PowerIs
      <4> QED
        BY <4>1, <4>2
    <3>4. Magnitude[s] = (F + f) * p
      <4>1. e - 1 = MaxExp - 2
        BY <1>2, <2>7
      <4>2. 2 ^ (e - 1) = p
        BY <4>1, Zenon
      <4> QED
        BY <2>2, <3>1, <4>2
    <3>5. 2 * Magnitude[s] >= F * (2 * p)
      <4> HIDE DEF F, f, p
      <4>1. (F + f) * p = F * p + f * p /\ f * p >= 0 /\ F * p \in Int /\ f * p \in Int /\ F * (2 * p) = 2 * (F * p)
        BY <1>2, <3>3
      <4> QED
        BY <3>4, <4>1
    <3>6. Rounded(2 * Magnitude[s]) = ExpMask
      <4> DEFINE m == 2 * Magnitude[s]
      <4>1. m \in Nat /\ m >= 2 ^ FB * 2 ^ (MaxExp - 1)
        BY <2>1, <3>3, <3>5
      <4> HIDE DEF m
      <4>2. Rounded(m) = ExpMask
        BY <4>1, RoundedIsInfinite
      <4> QED
        BY <4>2 DEF m
    <3> QED
      BY <2>4, <3>2, <3>6
  <2>8. CASE e # 0 /\ e # MaxExp - 1
    <3> DEFINE v == Shl(Bits[e + 1], FB) \union c
    <3>1. e + 1 \in 0 .. MaxExp /\ e + 1 # MaxExp /\ c \in SUBSET FracMask
      BY <1>2, <1>4, <2>8
    <3>2. v \in Sized /\ Exp(v) = e + 1 /\ v \intersect FracMask = c
      BY <3>1, FloatOf
    <3>3. v \in Finite
      BY <3>1, <3>2, FiniteIs
    <3>4. Num[v \intersect FracMask] = f
      BY <3>2, Zenon
    <3>5. Magnitude[v] = (F + f) * 2 ^ e
      <4>1. Magnitude[v] = (F + f) * 2 ^ (Exp(v) - 1)
        BY <1>2, <3>2, <3>3, <3>4, MagnitudeIs
      <4>2. Exp(v) - 1 = e
        BY <1>2, <3>2
      <4>3. 2 ^ (Exp(v) - 1) = 2 ^ e
        BY <4>2, Zenon
      <4> QED
        BY <4>1, <4>3
    <3>6. Magnitude[v] = 2 * Magnitude[s]
      <4> DEFINE p == 2 ^ (e - 1)
      <4>1. e - 1 \in Nat /\ (e - 1) + 1 = e
        BY <1>2, <2>8
      <4>2. p \in Nat /\ 2 ^ ((e - 1) + 1) = 2 * p
        BY <4>1, PowerIs
      <4>3. 2 ^ e = 2 * p
        BY <4>1, <4>2
      <4>4. Magnitude[s] = (F + f) * p
        BY <2>2, <2>8
      <4> HIDE DEF p, F, f
      <4>5. (F + f) * (2 * p) = 2 * ((F + f) * p)
        BY <1>2, <4>2
      <4> QED
        BY <3>5, <4>3, <4>4, <4>5
    <3>7. Rounded(2 * Magnitude[s]) = v
      BY <2>5, <3>3, <3>6
    <3>8. float_twice(uf) = Shl(Bits[e + 1], FB) \union (uf \intersect Compl(ExpMask))
      BY <1>4, <2>8 DEF float_twice
    <3>9. uf \intersect Compl(ExpMask) = sign \union c
      <4>1. \A b \in Positions : b \notin ExpMask <=> b \in Tmin \/ b \in FracMask
        BY FloatConstants DEF Positions, ExpMask, FracMask, Tmin
      <4>2. uf \subseteq Positions
        BY DEF Word
      <4>3. \A b \in FracMask : b \notin Tmin
        BY FloatConstants DEF FracMask, Tmin
      <4> QED
        BY <4>1, <4>2, <4>3 DEF Compl
    <3> QED
      BY <2>4, <3>7, <3>8, <3>9
  <2> QED
    BY <2>6, <2>7, <2>8
<1> QED
  BY <1>3, <1>4

-------------------------------------------------------------------------------
(* The puzzles: a float to an int. *)

\* Quotients.
LEMMA DividesAtLeast ==
  ASSUME NEW m \in Nat, NEW d \in Nat \ {0}, NEW k \in Nat, m >= d * k
  PROVE  m \div d >= k
<1> DEFINE q == m \div d
<1>1. q \in Int /\ m % d \in 0 .. d - 1 /\ m = d * q + (m % d)
  BY Divides
<1> HIDE DEF q
<1>2. SUFFICES ASSUME q + 1 <= k PROVE FALSE
  BY <1>1 DEF q
<1>3. d * (q + 1) <= d * k /\ d * (q + 1) = d * q + d
  BY <1>1, <1>2
<1>4. d * k \in Int /\ d * q \in Int
  BY <1>1
<1> QED
  BY <1>1, <1>3, <1>4

\* A common factor leaves the quotient alone.
LEMMA DivScale ==
  ASSUME NEW a \in Nat, NEW d \in Nat \ {0}, NEW c \in Nat \ {0}
  PROVE  (a * c) \div (d * c) = a \div d
<1> DEFINE q == a \div d
           r == a % d
<1>1. q \in Int /\ r \in 0 .. d - 1 /\ a = d * q + r
  BY Divides
<1> DEFINE n == a * c
           D == d * c
           R == r * c
<1> HIDE DEF q, r
<1>2. n = D * q + R
  BY <1>1
<1>3. 0 <= R /\ R < D /\ n \in Int /\ D \in Nat \ {0} /\ R \in Int
  <2>1. (r + 1) * c <= d * c /\ (r + 1) * c = R + c
    BY <1>1
  <2>2. R \in Int /\ D \in Int /\ R >= 0
    BY <1>1
  <2>3. n \in Int
    OBVIOUS
  <2> HIDE DEF n, D, R
  <2> QED
    BY <2>1, <2>2, <2>3 DEF D
<1> HIDE DEF n, D, R
<1>4. n \div D = q
  BY <1>1, <1>2, <1>3, DividedIs
<1> QED
  BY <1>4 DEF n, D, q

\* The float one, in units of the smallest.
LEMMA OneIs ==
  /\ One \in Nat \ {0} /\ Bias - 1 \in Nat /\ One = 2 ^ FB * 2 ^ (Bias - 1)
  /\ 2 ^ (Bias - 1) \in Nat \ {0}
  /\ \A j \in Nat : /\ 2 ^ (Bias + j - 1) = 2 ^ (Bias - 1) * 2 ^ j
                    /\ One * 2 ^ j = 2 ^ FB * 2 ^ (Bias + j - 1)
                    /\ 2 ^ j \in Nat \ {0} /\ 2 ^ (Bias + j - 1) \in Nat \ {0}
<1> DEFINE P == 2 ^ (Bias - 1)
           F == 2 ^ FB
<1>1. Bias - 1 \in Nat /\ Bias \in Nat /\ FB \in Nat /\ F \in Nat \ {0}
  BY FloatConstants
<1>2. P \in Nat \ {0}
  BY <1>1, PowerPositive
<1>3. One = F * P
  <2>1. 2 ^ ((Bias - 1) + FB) = P * F
    BY <1>1, PowerAdds
  <2>2. One = 2 ^ ((Bias - 1) + FB)
    BY Zenon DEF One
  <2> HIDE DEF P, F
  <2> QED
    BY <1>1, <1>2, <2>1, <2>2
<1>4. ASSUME NEW j \in Nat
      PROVE  /\ 2 ^ (Bias + j - 1) = P * 2 ^ j /\ One * 2 ^ j = F * 2 ^ (Bias + j - 1)
             /\ 2 ^ j \in Nat \ {0} /\ 2 ^ (Bias + j - 1) \in Nat \ {0}
  <2>1. 2 ^ ((Bias - 1) + j) = P * 2 ^ j
    BY <1>1, PowerAdds
  <2>2. (Bias - 1) + j = Bias + j - 1 /\ Bias + j - 1 \in Nat
    BY <1>1
  <2>3. 2 ^ (Bias + j - 1) = P * 2 ^ j
    BY <2>1, <2>2
  <2>4. 2 ^ j \in Nat \ {0} /\ 2 ^ (Bias + j - 1) \in Nat \ {0}
    BY <2>2, PowerPositive
  <2> DEFINE J == 2 ^ j
  <2> HIDE DEF P, F, J
  <2>5. One * J = F * (P * J)
    BY <1>1, <1>2, <1>3, <2>4 DEF J
  <2> QED
    BY <2>3, <2>4, <2>5 DEF J
<1>5. F * P \in Nat \ {0}
  <2> HIDE DEF F, P
  <2> QED
    BY <1>1, <1>2
<1> QED
  BY <1>1, <1>2, <1>3, <1>4, <1>5

\* bits.c:382: the shift drops what is below one.
LEMMA FloatToIntIsRight == \A uf \in Word : float_f2i(uf) = test_float_f2i(uf)
<1> SUFFICES ASSUME NEW uf \in Word PROVE float_f2i(uf) = test_float_f2i(uf)
  OBVIOUS
<1> DEFINE s == uf \ Tmin
           c == uf \intersect FracMask
           e == Exp(uf)
           f == Num[c]
           F == 2 ^ FB
           E == e - Bias
           m == Magnitude[s]
           n == m \div One
           h == 2 ^ (W - 1)
<1>1. s \in Sized /\ e = Exp(s) /\ c = s \intersect FracMask /\ c \in Word
  BY FieldsOfAny
<1>2. e \in 0 .. MaxExp /\ f \in 0 .. F - 1
  <2>1. Exp(s) \in 0 .. MaxExp /\ Num[s \intersect FracMask] \in 0 .. F - 1
    BY <1>1, FieldsOf
  <2>2. Num[s \intersect FracMask] = f
    BY <1>1, Zenon
  <2> QED
    BY <1>1, <2>1, <2>2
<1>3. MaxExp \in Nat /\ Bias \in Nat /\ Bias >= W - 1 /\ W \in Nat /\ W >= 8 /\ Bias + W - 1 < MaxExp
  BY FloatConstants
<1>4. CASE e = MaxExp
  <2>1. ~(E < 0)
    BY <1>3, <1>4
  <2>2. float_f2i(uf) = Tmin
    BY <1>4, <2>1 DEF float_f2i
  <2>3. test_float_f2i(uf) = Tmin
    BY <1>4 DEF test_float_f2i
  <2> QED
    BY <2>2, <2>3
<1>5. CASE e # MaxExp
  <2>1. s \in Finite /\ m \in Nat
    BY <1>1, <1>5, FiniteIs, MagnitudeIs
  <2>2. m = IF e = 0 THEN f ELSE (F + f) * 2 ^ (e - 1)
    <3>1. Num[s \intersect FracMask] = f
      BY <1>1, Zenon
    <3> QED
      BY <1>1, <2>1, <3>1, MagnitudeIs
  <2>3. test_float_f2i(uf) = CASE n >= h -> Tmin [] OTHER -> IF Negative(uf) THEN Bits[-n] ELSE Bits[n]
    BY <1>5 DEF test_float_f2i
  <2>4. m < F * 2 ^ e /\ (e > 0 => m >= F * 2 ^ (e - 1))
    BY <1>1, <2>1, MagnitudeBounds
  <2>5. CASE E >= W - 1
    <3>1. float_f2i(uf) = Tmin
      <4>1. ~(E < 0)
        BY <1>2, <1>3, <2>5
      <4> QED
        BY <2>5, <4>1 DEF float_f2i
    <3>2. W - 1 \in Nat /\ e - Bias \in Nat /\ W - 1 <= e - Bias /\ e > 0 /\ Bias + (e - Bias) - 1 = e - 1
      BY <1>2, <1>3, <2>5
    <3> DEFINE j == e - Bias
    <3>3. h <= 2 ^ j
      BY <3>2, PowerGrows
    <3>4. One * 2 ^ j = F * 2 ^ (Bias + j - 1) /\ 2 ^ j \in Nat \ {0} /\ One \in Nat \ {0}
      BY <3>2, OneIs
    <3>5. m >= One * 2 ^ j
      <4>1. 2 ^ (Bias + j - 1) = 2 ^ (e - 1)
        BY <3>2, Zenon
      <4> QED
        BY <2>4, <3>2, <3>4, <4>1
    <3>6. n >= 2 ^ j
      BY <2>1, <3>4, <3>5, DividesAtLeast
    <3>7. n >= h
      <4>1. n \in Int
        <5> HIDE DEF m
        <5> QED
          BY <2>1, <3>4, Divides
      <4> HIDE DEF n, h, j
      <4> QED
        BY <3>3, <3>4, <3>6, <4>1, PowerFacts DEF h
    <3> QED
      BY <2>3, <3>1, <3>7
  <2>6. CASE E < 0
    <3>1. float_f2i(uf) = Zero
      <4>1. ~(E >= W - 1)
        BY <1>2, <1>3, <2>6
      <4> QED
        BY <1>5, <2>6, <4>1 DEF float_f2i
    <3>2. e \in Nat /\ Bias - 1 \in Nat /\ e <= Bias - 1
      BY <1>2, <1>3, <2>6
    <3>3. 2 ^ e <= 2 ^ (Bias - 1) /\ 2 ^ e \in Nat /\ 2 ^ (Bias - 1) \in Nat
      BY <3>2, PowerGrows, PowerIs
    <3>4. One = F * 2 ^ (Bias - 1) /\ One \in Nat \ {0} /\ F \in Nat
      BY OneIs, FloatConstants
    <3>5. m < One
      <4> DEFINE p == 2 ^ e
                 q == 2 ^ (Bias - 1)
      <4> HIDE DEF p, q, F, m
      <4>1. F * p <= F * q /\ F * p \in Int /\ F * q \in Int
        BY <3>3, <3>4 DEF p, q
      <4> QED
        BY <2>1, <2>4, <3>4, <4>1 DEF p, q
    <3>6. n = 0
      <4>1. m = One * 0 + m /\ 0 <= m
        BY <2>1, <3>4
      <4> QED
        BY <2>1, <3>4, <3>5, <4>1, DividedIs
    <3>7. ~(n >= h) /\ -n = 0
      BY <3>6, PowerFacts
    <3>8. Bits[-n] = Zero /\ Bits[n] = Zero
      BY <3>6, <3>7, SmallWords, Zenon
    <3> QED
      BY <2>3, <3>1, <3>7, <3>8
  <2>7. CASE E \in 0 .. W - 2
    <3> DEFINE l == W - 2 - FB
               k == W - 2 - E
               x == c \union {FB}
               tmp == Shl(x, l)
               ret == Shr(tmp, k)
    <3>1. l \in 0 .. W /\ k \in 0 .. W /\ l \in Nat /\ k \in Nat /\ E \in Nat /\ e > 0
          /\ FB + l = W - 2 /\ k + E = W - 2
      <4>1. l \in 0 .. W /\ FB \in Nat
        BY FloatConstants
      <4> QED
        BY <1>2, <1>3, <2>7, <4>1
    <3>2. float_f2i(uf) = IF Negative(uf) THEN Plus(Compl(ret), Unit) ELSE ret
      <4>1. ~(E >= W - 1) /\ ~(E < 0)
        BY <1>3, <2>7
      <4> QED
        BY <1>5, <4>1 DEF float_f2i
    <3>3. x \in Word /\ Num[x] = F + f /\ \A b \in x : b < W - l /\ b \in Nat /\ b + l <= W - 2
      <4>1. FB \in Positions /\ FB \in Nat /\ \A b \in FracMask : b \in Nat /\ b < FB
        BY FloatConstants DEF Positions, FracMask
      <4>2. {FB} \in Word /\ Num[{FB}] = F
        BY <4>1, NumOne
      <4>3. c \intersect {FB} = {}
        BY <4>1
      <4>4. x \in Word /\ Num[x] = Num[c] + Num[{FB}]
        BY <1>1, <4>2, <4>3, NumUnion
      <4>5. F \in Int /\ f \in Int
        BY <1>2, FloatConstants
      <4>6. \A b \in x : b \in Nat /\ b <= FB
        BY <4>1
      <4> HIDE DEF x, F, f
      <4>7. \A b \in x : b < W - l /\ b + l <= W - 2
        BY <1>3, <3>1, <4>1, <4>6
      <4> QED
        BY <4>2, <4>4, <4>5, <4>6, <4>7 DEF f
    <3>4. tmp \in Word /\ ret \in Word
      BY ShiftsAreWords
    <3>5. Num[tmp] = (F + f) * 2 ^ l
      <4>1. \A b \in x : b < W - l
        BY <3>3
      <4> HIDE DEF x, l
      <4> QED
        BY <3>1, <3>3, <4>1, NumShlAll
    <3>6. ~Negative(tmp)
      <4>1. \A b \in x : b + l # W - 1
        BY <1>3, <3>3
      <4> QED
        BY <4>1 DEF Negative, Shl
    <3>7. ~Negative(ret)
      <4>1. k \in Nat /\ W - 1 + k < W => k = 0
        BY <1>3, <3>1
      <4> QED
        BY <1>3, <3>1, <3>6, <4>1 DEF Negative, Shr
    <3>8. Num[ret] = Num[tmp] \div 2 ^ k
      <4> HIDE DEF tmp, k
      <4> QED
        BY <3>1, <3>4, <3>6, NumShr
    <3> DEFINE A == 2 ^ l
               B == 2 ^ k
               G == 2 ^ E
               P == 2 ^ (Bias - 1)
               a == F + f
    <3>9. /\ A \in Nat \ {0} /\ B \in Nat \ {0} /\ G \in Nat \ {0} /\ P \in Nat \ {0}
          /\ F \in Nat \ {0} /\ One = F * P /\ a \in Nat
      BY <1>2, <3>1, PowerPositive, OneIs, FloatConstants
    <3>10. F * A = B * G
      <4>1. 2 ^ (FB + l) = F * A /\ 2 ^ (k + E) = B * G
        BY <3>1, PowerAdds, FloatConstants
      <4>2. 2 ^ (FB + l) = 2 ^ (k + E)
        BY <3>1, Zenon
      <4> QED
        BY <4>1, <4>2
    <3>11. m = a * (P * G)
      <4>1. 2 ^ (Bias + E - 1) = P * G
        BY <3>1, OneIs
      <4>2. Bias + E - 1 = e - 1
        BY <1>2, <1>3
      <4>3. 2 ^ (Bias + E - 1) = 2 ^ (e - 1)
        BY <4>2, Zenon
      <4>4. e # 0
        BY <3>1
      <4> QED
        BY <2>2, <4>1, <4>3, <4>4
    <3>12. Num[ret] = n
      <4> HIDE DEF a, A, B, G, P, F, m, l, k, x, tmp, ret
      <4>1. a * A \in Nat /\ a * G \in Nat /\ F * A \in Nat \ {0} /\ B * G \in Nat \ {0}
        BY <3>9
      <4>2. ((a * A) * G) \div (B * G) = (a * A) \div B
        BY <3>9, <4>1, DivScale
      <4>3. ((a * G) * A) \div (F * A) = (a * G) \div F
        BY <3>9, <4>1, DivScale
      <4>4. ((a * G) * P) \div (F * P) = (a * G) \div F
        BY <3>9, <4>1, DivScale
      <4>5. (a * A) * G = (a * G) * A /\ (a * G) * P = a * (P * G)
        BY <3>9
      <4>6. m \div One = (a * G) \div F
        BY <3>9, <3>11, <4>4, <4>5
      <4>7. (a * A) \div B = (a * G) \div F
        BY <3>10, <4>2, <4>3, <4>5
      <4>8. Num[ret] = (a * A) \div B
        BY <3>5, <3>8 DEF a, A, B
      <4> QED
        BY <4>6, <4>7, <4>8
    <3>13. ~(n >= h) /\ n \in Nat
      <4>1. ~(Num[ret] >= h) /\ Num[ret] \in Nat
        BY <3>4, <3>7, NegativeIs, NumIsNat
      <4> QED
        BY <3>12, <4>1
    <3>14. ret = Bits[n]
      BY <3>4, <3>12, BitsOfNum
    <3>15. Plus(Compl(ret), Unit) = Bits[-n]
      <4>1. Plus(Compl(ret), Unit) = Bits[-Int_(ret)]
        BY <3>4, NegateIsRight DEF negate, test_negate
      <4>2. Int_(ret) = n
        BY <3>7, <3>12 DEF Int_
      <4> QED
        BY <4>1, <4>2
    <3> QED
      BY <2>3, <3>2, <3>13, <3>14, <3>15
  <2> QED
    BY <1>2, <1>3, <2>5, <2>6, <2>7
<1> QED
  BY <1>4, <1>5

-------------------------------------------------------------------------------
(* The puzzles: an int to a float. *)

\* A number less than 2^n has no bit from n on.
LEMMA BitsBelow ==
  ASSUME NEW x \in Word, NEW n \in 0 .. W, Num[x] < 2 ^ n
  PROVE  x \subseteq 0 .. n - 1
<1> SUFFICES ASSUME NEW b \in x, b >= n PROVE FALSE
  BY WidthIs DEF Word, Positions
<1>1. b \in Nat /\ n \in Nat /\ n <= b
  BY WidthIs DEF Word, Positions
<1>2. 2 ^ n <= 2 ^ b /\ 2 ^ n \in Nat /\ 2 ^ b \in Nat
  BY <1>1, PowerGrows, PowerIs
<1>3. Num[x] = 2 ^ b + Num[x \ {b}]
  BY NumLess
<1>4. Num[x \ {b}] \in Nat
  <2>1. x \ {b} \in Word
    BY DEF Word
  <2> QED
    BY <2>1, NumIsNat
<1> HIDE DEF Word
<1>5. Num[x] \in Nat
  BY NumIsNat
<1> QED
  BY <1>2, <1>3, <1>4, <1>5

\* The top bit of a number is the only place where it divides to one.
LEMMA TopIs ==
  ASSUME NEW m \in 1 .. 2 ^ (W - 1) - 1
  PROVE  LET E == CHOOSE e \in Positions : m \div 2 ^ e = 1
         IN  /\ Bits[m] \in Word /\ Num[Bits[m]] = m
             /\ E \in 0 .. W - 2 /\ E \in Bits[m] /\ \A b \in Bits[m] : b <= E
             /\ 2 ^ E <= m /\ m < 2 * 2 ^ E
<1> DEFINE x == Bits[m]
           S == {W - b : b \in x}
<1>1. x \in Word /\ Num[x] = m
  <2>1. m \in 0 .. 2 ^ W - 1
    BY PowerFacts
  <2> QED
    BY <2>1, NumOfSmall
<1>2. x # {}
  <2>1. Num[{}] = 0
    BY NumIsNat
  <2>2. x = {} => Num[x] = Num[{}]
    BY Zenon
  <2>3. m # 0
    OBVIOUS
  <2> QED
    BY <1>1, <2>1, <2>2, <2>3
<1>3. PICK e \in x : \A b \in x : b <= e
  <2>1. \A b \in x : W - b \in Nat /\ b \in Nat
    BY <1>1, WidthIs DEF Word, Positions
  <2>2. S \in SUBSET Nat /\ S # {}
    BY <1>2, <2>1
  <2>3. PICK t \in S : \A n \in S : t <= n
    BY <2>2, LeastNat
  <2>4. PICK e \in x : t = W - e
    BY <2>3
  <2>5. \A b \in x : W - e <= W - b
    BY <2>3, <2>4
  <2> HIDE DEF x
  <2>6. \A b \in x : b <= e
    BY <2>1, <2>5, WidthIs
  <2> QED
    BY <2>4, <2>6
<1> HIDE DEF x
<1>4. e \in Positions /\ e \in Nat /\ e < W
  BY <1>1, WidthIs DEF Word, Positions
<1>5. 2 ^ e <= m /\ m < 2 * 2 ^ e /\ 2 ^ e \in Nat \ {0}
  <2>1. 2 ^ e <= Num[x] /\ Num[x] < 2 ^ (e + 1)
    BY <1>1, <1>3, TopBit
  <2>2. 2 ^ (e + 1) = 2 * 2 ^ e
    BY <1>4, PowerIs
  <2> QED
    BY <1>1, <1>4, <2>1, <2>2, PowerPositive
<1>6. e <= W - 2
  <2>1. e = W - 1 => 2 ^ e = 2 ^ (W - 1)
    BY Zenon
  <2>2. m < 2 ^ (W - 1) /\ m \in Nat /\ 2 ^ (W - 1) \in Nat
    BY PowerFacts
  <2>3. e # W - 1
    BY <1>5, <2>1, <2>2
  <2> QED
    BY <1>4, <2>3, WidthIs
<1> DEFINE P(d) == d \in Positions /\ m \div 2 ^ d = 1
<1>7. P(e)
  <2> DEFINE D == 2 ^ e
  <2> HIDE DEF D
  <2>1. m = D * 1 + (m - D) /\ 0 <= m - D /\ m - D < D /\ m \in Int /\ m - D \in Int
    BY <1>5 DEF D
  <2>2. m \div D = 1
    BY <1>5, <2>1, DividedIs DEF D
  <2> QED
    BY <1>4, <2>2 DEF D
<1>8. ASSUME NEW d, P(d) PROVE d = e
  <2>1. d \in Nat /\ 2 ^ d \in Nat \ {0}
    BY <1>8, PowerFacts
  <2>2. 2 ^ d <= m /\ m < 2 * 2 ^ d
    <3> DEFINE D == 2 ^ d
    <3>0. m \div D = 1 /\ m \in Int /\ D \in Nat \ {0}
      BY <1>8, <2>1
    <3> HIDE DEF D
    <3>1. m = D * (m \div D) + (m % D) /\ m % D \in 0 .. D - 1
      BY <3>0, Divides
    <3> QED
      BY <2>1, <3>0, <3>1 DEF D
  <2>3. \A a, b \in Nat : a < b => 2 * 2 ^ a <= 2 ^ b /\ 2 ^ a \in Nat /\ 2 ^ b \in Nat
    BY PowerHalves, PowerIs
  <2>4. ~(d < e)
    BY <1>4, <1>5, <2>1, <2>2, <2>3
  <2>5. ~(e < d)
    BY <1>4, <1>5, <2>1, <2>2, <2>3
  <2> QED
    BY <1>4, <2>1, <2>4, <2>5
<1>9. (CHOOSE d \in Positions : m \div 2 ^ d = 1) = e
  <2>1. (CHOOSE d \in Positions : m \div 2 ^ d = 1) = CHOOSE d : P(d)
    OBVIOUS
  <2> HIDE DEF P
  <2>2. P(CHOOSE d : P(d))
    BY <1>7, Zenon
  <2> QED
    BY <1>8, <2>1, <2>2
<1>10. e \in 0 .. W - 2 /\ e \in x /\ \A b \in x : b <= e
  BY <1>3, <1>4, <1>6
<1> QED
  BY <1>1, <1>5, <1>9, <1>10 DEF x

\* The float with a given fraction, or the next one if it is full.
LEMMA FloatWith ==
  ASSUME NEW e \in 1 .. MaxExp - 2, NEW N \in 0 .. 2 ^ FB
  PROVE  \E u \in Finite : /\ Num[u] = e * 2 ^ FB + N /\ Magnitude[u] = (2 ^ FB + N) * 2 ^ (e - 1)
                           /\ N < 2 ^ FB => u \intersect FracMask = Bits[N]
<1> DEFINE F == 2 ^ FB
<1>1. F \in Nat \ {0} /\ MaxExp \in Nat /\ FB \in 0 .. W /\ 2 ^ W = 2 * 2 ^ (W - 1) /\ 2 ^ FB <= 2 ^ (W - 1)
      /\ 2 ^ (W - 1) \in Nat
  <2>1. FB \in Nat /\ W - 1 \in Nat /\ FB <= W - 1 /\ FB \in 0 .. W
    BY FloatConstants
  <2>2. 2 ^ FB <= 2 ^ (W - 1)
    BY <2>1, PowerGrows
  <2> QED
    BY <2>1, <2>2, FloatConstants, PowerFacts
<1>2. \A a \in 1 .. MaxExp - 1, c \in SUBSET FracMask :
        LET u == Shl(Bits[a], FB) \union c
        IN  /\ u \in Finite /\ Num[u] = a * F + Num[c]
            /\ Magnitude[u] = (F + Num[c]) * 2 ^ (a - 1) /\ u \intersect FracMask = c
  <2> TAKE a \in 1 .. MaxExp - 1, c \in SUBSET FracMask
  <2> DEFINE u == Shl(Bits[a], FB) \union c
  <2>1. a \in 0 .. MaxExp /\ a # MaxExp /\ a # 0
    BY <1>1
  <2>2. u \in Sized /\ Exp(u) = a /\ u \intersect FracMask = c /\ Num[u] = a * F + Num[c]
    BY <2>1, FloatOf
  <2>3. u \in Finite
    BY <2>1, <2>2, FiniteIs
  <2>4. Magnitude[u] = IF Exp(u) = 0 THEN Num[u \intersect FracMask]
                       ELSE (F + Num[u \intersect FracMask]) * 2 ^ (Exp(u) - 1)
    BY <2>3, MagnitudeIs
  <2>5. Num[u \intersect FracMask] = Num[c] /\ 2 ^ (Exp(u) - 1) = 2 ^ (a - 1)
    BY <2>2, Zenon
  <2>6. Magnitude[u] = (F + Num[c]) * 2 ^ (a - 1)
    BY <2>1, <2>2, <2>4, <2>5
  <2> QED
    BY <2>2, <2>3, <2>6
<1>3. CASE N < F
  <2>1. N \in 0 .. 2 ^ W - 1
    BY <1>1, <1>3
  <2>2. Bits[N] \in Word /\ Num[Bits[N]] = N
    BY <2>1, NumOfSmall
  <2>3. Bits[N] \in SUBSET FracMask
    BY <1>1, <1>3, <2>2, BitsBelow DEF FracMask
  <2>4. e \in 1 .. MaxExp - 1
    BY <1>1
  <2> DEFINE u == Shl(Bits[e], FB) \union Bits[N]
  <2>5. u \in Finite /\ Num[u] = e * F + Num[Bits[N]]
        /\ Magnitude[u] = (F + Num[Bits[N]]) * 2 ^ (e - 1) /\ u \intersect FracMask = Bits[N]
    BY <1>2, <2>3, <2>4
  <2> HIDE DEF u, F
  <2>6. Num[u] = e * F + N /\ Magnitude[u] = (F + N) * 2 ^ (e - 1)
    BY <2>2, <2>5
  <2> QED
    BY <2>5, <2>6 DEF F
<1>4. CASE N = F
  <2>1. e + 1 \in 1 .. MaxExp - 1 /\ {} \in SUBSET FracMask /\ e \in Nat /\ e - 1 \in Nat
    BY <1>1
  <2> DEFINE u == Shl(Bits[e + 1], FB) \union {}
             p == 2 ^ (e - 1)
  <2>2. /\ u \in Finite /\ Num[u] = (e + 1) * F + Num[{}]
        /\ Magnitude[u] = (F + Num[{}]) * 2 ^ ((e + 1) - 1)
    BY <1>2, <2>1
  <2>3. Num[{}] = 0
    BY NumIsNat
  <2>4. p \in Nat /\ 2 ^ ((e + 1) - 1) = 2 * p
    <3>1. p \in Nat /\ 2 ^ ((e - 1) + 1) = 2 * p
      BY <2>1, PowerIs
    <3>2. (e - 1) + 1 = (e + 1) - 1
      BY <2>1
    <3> QED
      BY <3>1, <3>2
  <2> HIDE DEF u, F, p
  <2>5. Num[u] = (e + 1) * F /\ Magnitude[u] = F * (2 * p)
    BY <1>1, <2>1, <2>2, <2>3, <2>4
  <2>6. (e + 1) * F = e * F + F /\ F * (2 * p) = (F + F) * p
    BY <1>1, <2>1, <2>4
  <2>7. Num[u] = e * F + N /\ Magnitude[u] = (F + N) * p /\ ~(N < F)
    BY <1>1, <1>4, <2>5, <2>6
  <2> QED
    BY <2>2, <2>7 DEF F, p
<1> QED
  BY <1>1, <1>3, <1>4

\* Numbers in proportion have the same sign.
LEMMA SameSign ==
  ASSUME NEW a \in Int, NEW b \in Int, NEW c \in Nat \ {0}, NEW d \in Nat \ {0}, a * c = b * d
  PROVE  (a > 0 <=> b > 0) /\ (a = 0 <=> b = 0)
<1>1. \A x \in Int, n \in Nat \ {0} : (x > 0 => x * n > 0) /\ (x = 0 => x * n = 0) /\ (x < 0 => x * n < 0)
  OBVIOUS
<1>2. (a > 0 => b * d > 0) /\ (a = 0 => b * d = 0) /\ (a < 0 => b * d < 0)
  BY <1>1
<1>3. (b > 0 => b * d > 0) /\ (b = 0 => b * d = 0) /\ (b < 0 => b * d < 0)
  BY <1>1
<1> DEFINE z == b * d
<1>4. z \in Int
  OBVIOUS
<1> HIDE DEF z
<1> QED
  BY <1>2, <1>3, <1>4 DEF z

\* What is left of a number whose top bit is shifted to the top of a word.
LEMMA CutIs ==
  ASSUME NEW m \in 1 .. 2 ^ (W - 1) - 1, NEW E \in 0 .. W - 2,
         E \in Bits[m], \A b \in Bits[m] : b <= E, Bits[m] \in Word, Num[Bits[m]] = m
  PROVE  LET top  == Shl(Bits[m], W - 1 - E)
             rest == Num[top \intersect (0 .. EB - 1)]
             cut  == FracMask \intersect Shr(top, EB)
         IN  /\ cut \in SUBSET FracMask /\ cut \in Word
             /\ Num[cut] \in 0 .. 2 ^ FB - 1 /\ rest \in 0 .. 2 ^ EB - 1
             /\ m * 2 ^ (W - 1 - E) = (2 ^ FB + Num[cut]) * 2 ^ EB + rest
<1> DEFINE x == Bits[m]
           k == W - 1 - E
           top == Shl(x, k)
           rest == Num[top \intersect (0 .. EB - 1)]
           cut == FracMask \intersect Shr(top, EB)
           y == top \ Tmin
           F == 2 ^ FB
           H == 2 ^ EB
           t == Num[top]
<1>1. W \in Nat /\ EB \in Nat /\ FB \in Nat /\ k \in Nat /\ k \in 0 .. W /\ E + k = W - 1 /\ EB \in 0 .. W
      /\ FB + EB = W - 1 /\ EB > 0 /\ FB > 0 /\ FB \in 0 .. W
  BY FloatConstants
<1>2. F \in Nat \ {0} /\ H \in Nat \ {0} /\ 2 ^ (W - 1) = F * H
  BY <1>1, FloatConstants, PowerPositive
<1> DEFINE d == 2 ^ k
<1>3. top \in Word /\ t = m * d /\ W - 1 \in top
  <2>1. \A b \in x : b < W - k /\ b \in Positions
    BY <1>1 DEF Word, Positions
  <2>2. x \in Word
    OBVIOUS
  <2>3. W - 1 \in top
    <3>1. E \in x /\ E + k = W - 1 /\ W - 1 \in Positions
      BY <1>1, PowerFacts
    <3> HIDE DEF x, k
    <3>2. E + k \in {b + k : b \in x}
      BY <3>1
    <3> QED
      BY <3>1, <3>2 DEF Shl
  <2> HIDE DEF x, k, d
  <2>4. Num[Shl(x, k)] = Num[x] * 2 ^ k
    BY <1>1, <2>1, <2>2, NumShlAll
  <2> QED
    BY <2>3, <2>4, ShiftsAreWords DEF d, x
<1> HIDE DEF top
<1>4. y \in Word /\ Num[y] = t - F * H /\ ~Negative(y) /\ t \in Nat /\ Num[y] \in Nat
  <2>1. y \in Word /\ ~Negative(y) /\ y = top \ {W - 1}
    BY <1>3 DEF Word, Negative, Tmin
  <2>2. Num[top] = 2 ^ (W - 1) + Num[top \ {W - 1}]
    BY <1>3, NumLess
  <2>3. Num[y] = Num[top \ {W - 1}]
    BY <2>1, Zenon
  <2>4. t \in Nat /\ Num[y] \in Nat
    BY <1>3, <2>1, NumIsNat
  <2>5. F * H \in Nat
    BY <1>2
  <2> HIDE DEF y, F, H
  <2> QED
    BY <1>2, <2>1, <2>2, <2>3, <2>4, <2>5
<1> DEFINE g == Num[y] \div H
           s == Num[y] % H
<1>5. rest = s
  <2>1. top \intersect (0 .. EB - 1) = Below(y, EB)
    BY <1>1 DEF Below, Tmin
  <2>2. rest = Num[Below(y, EB)]
    BY <2>1, Zenon
  <2>3. Num[Below(y, EB)] = Num[y] % 2 ^ EB
    <3> HIDE DEF y
    <3> QED
      BY <1>1, <1>4, NumRest
  <2> QED
    BY <2>2, <2>3
<1>6. cut = Shr(y, EB) /\ cut \in Word
  <2>1. Shr(y, EB) = {b \in Positions : b + EB \in y}
    <3> HIDE DEF y
    <3> QED
      BY <1>1, <1>4, NumShr
  <2>2. \A b \in Positions : b + EB \in y <=> b + EB \in top /\ b # FB
    BY <1>1 DEF Tmin, Positions
  <2>3. \A b \in Positions : b + EB \in top => b + EB \in Positions
    BY <1>3 DEF Word
  <2>4. \A b \in Positions : b \in FracMask <=> b < FB
    BY <1>1 DEF Positions, FracMask
  <2>5. \A b \in Positions : b + EB \in Positions <=> b <= FB
    BY <1>1 DEF Positions
  <2>6. \A b \in Positions : b \in Shr(top, EB) /\ b + EB \in Positions <=> b + EB \in top
    BY <1>1, <2>3 DEF Shr, Positions
  <2>7. \A b \in Positions : b \in cut <=> b \in Shr(y, EB)
    <3>1. \A b \in Positions : b < FB <=> b <= FB /\ b # FB
      BY <1>1 DEF Positions
    <3> HIDE DEF y
    <3> QED
      BY <2>1, <2>2, <2>3, <2>4, <2>5, <2>6, <3>1
  <2>8. cut \subseteq Positions /\ Shr(y, EB) \subseteq Positions
    BY DEF Shr
  <2> HIDE DEF cut, y
  <2> QED
    BY <2>7, <2>8 DEF Word
<1>7. Num[cut] = g
  <2>1. Num[Shr(y, EB)] = Num[y] \div 2 ^ EB
    <3> HIDE DEF y
    <3> QED
      BY <1>1, <1>4, NumShr
  <2>2. Num[cut] = Num[Shr(y, EB)]
    BY <1>6, Zenon
  <2> QED
    BY <2>1, <2>2
<1>8. g \in Int /\ s \in 0 .. H - 1 /\ Num[y] = H * g + s
  <2> DEFINE n == Num[y]
  <2>1. n \in Int /\ H \in Nat \ {0}
    BY <1>2, <1>4
  <2> HIDE DEF n, H
  <2>2. n \div H \in Int /\ n % H \in 0 .. H - 1 /\ n = H * (n \div H) + (n % H)
    BY <2>1, Divides
  <2> QED
    BY <2>2 DEF n
<1>9. cut \subseteq FracMask /\ Num[cut] \in 0 .. F - 1
  <2>1. cut \subseteq FracMask
    OBVIOUS
  <2>2. Below(cut, FB) = cut
    BY <2>1 DEF Below, FracMask
  <2>3. Num[Below(cut, FB)] = Num[cut]
    BY <2>2, Zenon
  <2> HIDE DEF cut
  <2>4. Num[Below(cut, FB)] \in 0 .. 2 ^ FB - 1
    BY <1>1, <1>6, BelowIsSmall
  <2> QED
    BY <2>1, <2>3, <2>4
<1>10. m * d = (F + g) * H + rest
  <2> HIDE DEF d, F, H, g, s, y, rest, t
  <2>1. (F + g) * H = F * H + H * g /\ F * H \in Int /\ H * g \in Int
    BY <1>2, <1>8
  <2> QED
    BY <1>3, <1>4, <1>5, <1>8, <2>1
<1>11. rest \in 0 .. H - 1
  BY <1>5, <1>8
<1> QED
  BY <1>6, <1>7, <1>9, <1>10, <1>11 DEF top

\* Between two floats, a number is nearer to the one its cut bits say.
LEMMA RoundsToNext ==
  ASSUME NEW v \in Values, v \in Nat, NEW e \in 1 .. MaxExp - 2, NEW c \in SUBSET FracMask, c \in Word,
         NEW rest \in 0 .. 2 ^ EB - 1, Num[c] \in 0 .. 2 ^ FB - 1,
         v * 2 ^ EB = ((2 ^ FB + Num[c]) * 2 ^ EB + rest) * 2 ^ (e - 1)
  PROVE  LET round == rest > 2 ^ (EB - 1) \/ (rest = 2 ^ (EB - 1) /\ 0 \in c)
         IN  Rounded(v) \in Finite /\ Num[Rounded(v)] = e * 2 ^ FB + Num[c] + (IF round THEN 1 ELSE 0)
<1> DEFINE F == 2 ^ FB
           H == 2 ^ EB
           K == 2 ^ (EB - 1)
           U == 2 ^ (e - 1)
           g == Num[c]
           round == rest > K \/ (rest = K /\ 0 \in c)
<1>1. /\ F \in Nat \ {0} /\ H \in Nat \ {0} /\ K \in Nat /\ H = 2 * K /\ U \in Nat \ {0} /\ MaxExp \in Nat
      /\ g \in 0 .. F - 1 /\ e \in Nat
  <2>1. e - 1 \in Nat /\ EB \in Nat
    BY FloatConstants
  <2> QED
    BY <2>1, FloatConstants, PowerPositive
<1>2. PICK lo \in Finite : Num[lo] = e * F + g /\ Magnitude[lo] = (F + g) * U /\ lo \intersect FracMask = c
  <2>1. g \in 0 .. F /\ g < F /\ Bits[g] = c
    BY <1>1, BitsOfNum
  <2> QED
    BY <2>1, FloatWith
<1>3. PICK hi \in Finite : Num[hi] = e * F + (g + 1) /\ Magnitude[hi] = (F + (g + 1)) * U
  <2>1. g + 1 \in 0 .. F
    BY <1>1
  <2> DEFINE N == g + 1
  <2> HIDE DEF N
  <2>2. \E u \in Finite : Num[u] = e * F + N /\ Magnitude[u] = (F + N) * U
    BY <2>1, FloatWith DEF N
  <2> QED
    BY <2>2 DEF N
<1> DEFINE a == Magnitude[lo]
           b == Magnitude[hi]
           d == v - a
<1> HIDE DEF F, H, K, U, g
<1>4. a \in Nat /\ b = a + U /\ d \in Int
  <2>1. (F + g) * U \in Nat /\ (F + (g + 1)) * U = (F + g) * U + U
    BY <1>1
  <2> QED
    BY <1>1, <1>2, <1>3, <2>1
<1>5. d * H = rest * U /\ rest \in 0 .. H - 1
  <2> DEFINE A == (F + g) * H
  <2>1. v * H = (A + rest) * U /\ rest \in 0 .. H - 1
    BY DEF F, H, U, g
  <2>2. A \in Int /\ rest \in Int /\ (A + rest) * U = A * U + rest * U /\ A * U = ((F + g) * U) * H
    BY <1>1
  <2>3. A * U = a * H
    BY <1>2, <2>2
  <2> HIDE DEF A, a
  <2>4. d * H = v * H - a * H /\ v * H \in Int /\ a * H \in Int /\ rest * U \in Int
    BY <1>1, <1>4
  <2>5. v * H = a * H + rest * U
    BY <2>1, <2>2, <2>3
  <2> QED
    BY <2>1, <2>4, <2>5
<1> HIDE DEF d
<1>6. d >= 0 /\ d < U
  <2>1. (d > 0 <=> rest > 0) /\ (d = 0 <=> rest = 0)
    BY <1>1, <1>4, <1>5, SameSign
  <2>2. (U - d) * H = (H - rest) * U
    <3>1. (U - d) * H = U * H - d * H /\ (H - rest) * U = U * H - rest * U
      BY <1>1, <1>4, <1>5
    <3> QED
      BY <1>5, <3>1
  <2> DEFINE p == U - d
             q == H - rest
  <2>3. p \in Int /\ q \in Int /\ q > 0
    BY <1>1, <1>4, <1>5
  <2> HIDE DEF p, q
  <2>4. p > 0 <=> q > 0
    BY <1>1, <2>2, <2>3, SameSign DEF p, q
  <2> QED
    BY <1>1, <1>4, <1>5, <2>1, <2>3, <2>4 DEF p
<1>7. (2 * d > U <=> rest > K) /\ (2 * d = U <=> rest = K)
  <2> DEFINE p == 2 * d - U
             q == 2 * (rest - K)
  <2>1. p * H = q * U
    <3>1. p * H = 2 * (d * H) - U * H /\ q * U = 2 * (rest * U) - (2 * K) * U /\ U * H = H * U
      BY <1>1, <1>4, <1>5
    <3>2. (2 * K) * U = H * U
      BY <1>1
    <3> HIDE DEF p, q
    <3> QED
      BY <1>5, <3>1, <3>2
  <2>2. p \in Int /\ q \in Int
    BY <1>1, <1>4, <1>5
  <2> HIDE DEF p, q
  <2>3. (p > 0 <=> q > 0) /\ (p = 0 <=> q = 0)
    BY <1>1, <2>1, <2>2, SameSign
  <2> QED
    BY <1>1, <1>4, <1>5, <2>3 DEF p, q
<1>8. a <= v /\ v < b /\ Num[hi] = Num[lo] + 1 /\ (0 \in lo <=> 0 \in c)
  <2>1. a <= v /\ v < b
    <3> HIDE DEF a, b
    <3>1. d = v - a
      BY DEF d
    <3> QED
      BY <1>1, <1>4, <1>6, <3>1
  <2>2. e * F \in Int /\ g \in Int
    BY <1>1
  <2>3. Num[hi] = Num[lo] + 1
    BY <1>2, <1>3, <2>2
  <2>4. 0 \in FracMask
    BY FloatConstants DEF FracMask
  <2>5. 0 \in lo <=> 0 \in c
    BY <1>2, <2>4
  <2> QED
    BY <2>1, <2>3, <2>5
<1> DEFINE up == v - a > b - v \/ (v - a = b - v /\ 0 \in lo)
<1>9. Nearest[v] = IF up THEN hi ELSE lo
  BY <1>8, NearestIsBetween
<1>10. up <=> round
  <2>1. (v - a > b - v <=> 2 * d > U) /\ (v - a = b - v <=> 2 * d = U)
    <3> HIDE DEF a, b
    <3> QED
      BY <1>1, <1>4 DEF d
  <2> QED
    BY <1>7, <1>8, <2>1
<1>11. Rounded(v) = Nearest[v]
  <2> DEFINE T == (2 ^ (FB + 2) - 1) * 2 ^ (MaxExp - 2)
  <2>1. ~(2 * b >= T)
    BY FiniteIsBelow
  <2>2. T \in Int
    <3>1. FB + 2 \in Nat /\ MaxExp - 2 \in Nat
      BY FloatConstants
    <3>2. 2 ^ (FB + 2) \in Nat /\ 2 ^ (MaxExp - 2) \in Nat
      BY <3>1, PowerIs
    <3> QED
      BY <3>2
  <2>3. Rounded(v) = IF 2 * v >= T THEN ExpMask ELSE Nearest[v]
    BY DEF Rounded
  <2> HIDE DEF T, a, b
  <2>4. ~(2 * v >= T)
    BY <1>1, <1>4, <1>8, <2>1, <2>2
  <2> QED
    BY <2>3, <2>4
<1>12. e * F \in Int /\ g \in Int
  BY <1>1
<1> DEFINE r == Rounded(v)
<1>13. r = IF round THEN hi ELSE lo
  BY <1>9, <1>10, <1>11
<1>14. CASE round
  <2>1. r = hi
    BY <1>13, <1>14
  <2>2. Num[r] = Num[hi]
    BY <2>1, Zenon
  <2> HIDE DEF r
  <2>3. r \in Finite /\ Num[r] = e * F + g + 1
    BY <1>3, <1>12, <2>1, <2>2
  <2> QED
    BY <1>14, <2>3 DEF r, F, g, K
<1>15. CASE ~round
  <2>1. r = lo
    BY <1>13, <1>15
  <2>2. Num[r] = Num[lo]
    BY <2>1, Zenon
  <2> HIDE DEF r
  <2>3. r \in Finite /\ Num[r] = e * F + g + 0
    BY <1>2, <1>12, <2>1, <2>2
  <2> QED
    BY <1>15, <2>3 DEF r, F, g, K
<1> QED
  BY <1>14, <1>15

\* bits.c:353: the cut bits round the fraction, and a carry goes to the exponent.
LEMMA RoundsTheFraction ==
  ASSUME NEW m \in 1 .. 2 ^ (W - 1) - 1
  PROVE  LET E    == CHOOSE e \in Positions : m \div 2 ^ e = 1
             top  == Shl(Bits[m], W - 1 - E)
             rest == Num[top \intersect (0 .. EB - 1)]
             cut  == FracMask \intersect Shr(top, EB)
             round == \/ rest > 2 ^ (EB - 1)
                      \/ rest = 2 ^ (EB - 1) /\ 0 \in cut
             frac == Plus(cut, Truth(round))
             exp  == E + Bias + (IF FB \in frac THEN 1 ELSE 0)
         IN  Rounded(m * One) = Shl(Bits[exp], FB) \union (frac \intersect FracMask)
<1> DEFINE E    == CHOOSE e \in Positions : m \div 2 ^ e = 1
           top  == Shl(Bits[m], W - 1 - E)
           rest == Num[top \intersect (0 .. EB - 1)]
           cut  == FracMask \intersect Shr(top, EB)
           round == rest > 2 ^ (EB - 1) \/ (rest = 2 ^ (EB - 1) /\ 0 \in cut)
           frac == Plus(cut, Truth(round))
           exp  == E + Bias + (IF FB \in frac THEN 1 ELSE 0)
           F    == 2 ^ FB
           H    == 2 ^ EB
           e    == E + Bias
           v    == m * One
           U    == 2 ^ (e - 1)
           k    == W - 1 - E
<1>1. /\ Bits[m] \in Word /\ Num[Bits[m]] = m
      /\ E \in 0 .. W - 2 /\ E \in Bits[m] /\ \A b \in Bits[m] : b <= E
  BY TopIs
<1> HIDE DEF E
<1>2. /\ cut \in SUBSET FracMask /\ cut \in Word /\ Num[cut] \in 0 .. F - 1 /\ rest \in 0 .. H - 1
      /\ m * 2 ^ k = (F + Num[cut]) * H + rest
  BY <1>1, CutIs
<1>3. /\ e \in 1 .. MaxExp - 2 /\ e + 1 \in 0 .. MaxExp /\ e \in 0 .. MaxExp /\ E \in Nat /\ k \in Nat
      /\ E + k = W - 1 /\ e = Bias + E
  BY <1>1, FloatConstants
<1>4. F \in Nat \ {0} /\ H \in Nat \ {0} /\ One \in Nat \ {0} /\ U \in Nat \ {0} /\ m \in Nat \ {0}
  <2>1. One \in Nat \ {0} /\ U \in Nat \ {0}
    <3>1. Bias + E - 1 = e - 1
      BY <1>3, FloatConstants
    <3>2. 2 ^ (Bias + E - 1) = U /\ 2 ^ (Bias + E - 1) \in Nat \ {0} /\ One \in Nat \ {0}
      BY <1>3, <3>1, OneIs
    <3> QED
      BY <3>2
  <2>2. EB \in Nat /\ F \in Nat \ {0}
    BY FloatConstants
  <2> QED
    BY <2>1, <2>2, PowerPositive, FloatConstants
<1>5. v \in Values /\ v \in Nat
  <2>1. m \in 0 .. 2 ^ (W - 1)
    BY PowerFacts
  <2> QED
    BY <1>4, <2>1 DEF Values
<1>6. v * H = ((F + Num[cut]) * H + rest) * U
  <2> DEFINE A == 2 ^ k
             G == 2 ^ E
             t == (F + Num[cut]) * H + rest
  <2>1. One * G = F * U
    <3>1. Bias + E - 1 = e - 1
      BY <1>3, FloatConstants
    <3>2. 2 ^ (Bias + E - 1) = U
      BY <3>1, Zenon
    <3> QED
      BY <1>3, <3>2, OneIs
  <2>2. G * A = F * H
    <3>1. 2 ^ (E + k) = G * A
      BY <1>3, PowerAdds
    <3>2. 2 ^ (E + k) = 2 ^ (W - 1)
      BY <1>3, Zenon
    <3> QED
      BY <3>1, <3>2, FloatConstants
  <2>3. A \in Nat /\ G \in Nat
    BY <1>3, PowerIs
  <2>4. t \in Nat /\ m * A = t
    <3>1. Num[cut] \in Nat /\ rest \in Nat
      BY <1>2, <1>4
    <3> HIDE DEF F, H, rest, cut
    <3>2. t \in Nat
      BY <1>4, <3>1
    <3> QED
      BY <1>2, <3>2
  <2> DEFINE a == v * H
             b == t * U
  <2>5. a \in Int /\ b \in Int
    <3> HIDE DEF t, H, U
    <3> QED
      BY <1>4, <1>5, <2>4
  <2>6. F * a = F * b
    <3> HIDE DEF t, F, H, U, G, A, k
    <3>1. F * a = (m * One) * (F * H)
      BY <1>4
    <3>2. (m * One) * (G * A) = (m * A) * (One * G)
      BY <1>4, <2>3
    <3>3. t * (F * U) = F * b
      BY <1>4, <2>4
    <3> QED
      BY <2>1, <2>2, <2>4, <3>1, <3>2, <3>3
  <2> HIDE DEF a, b, F
  <2>7. a = b
    <3> DEFINE z == a - b
    <3>1. F * z = 0
      <4>1. F * z = F * a - F * b /\ F * a \in Int /\ F * b \in Int
        BY <1>4, <2>5
      <4> QED
        BY <2>6, <4>1
    <3>2. z \in Int
      BY <2>5
    <3> HIDE DEF z
    <3>3. z = 0
      <4>1. z * F = 0 * F
        BY <1>4, <3>1, <3>2
      <4> QED
        BY <1>4, <3>2, <4>1, SameSign
    <3> QED
      BY <2>5, <3>3 DEF z
  <2> QED
    BY <2>7 DEF a, b, F
<1> DEFINE r == Rounded(v)
           g == Num[cut]
           N == g + (IF round THEN 1 ELSE 0)
<1>7. r \in Finite /\ Num[r] = e * F + g + (IF round THEN 1 ELSE 0)
  <2> HIDE DEF v, rest, cut, e
  <2> QED
    BY <1>2, <1>3, <1>5, <1>6, RoundsToNext
<1> HIDE DEF round, cut, r
<1>8. g \in 0 .. F - 1 /\ N \in 0 .. F /\ e * F \in Int
  <2> HIDE DEF F, e
  <2> QED
    BY <1>2, <1>3, <1>4 DEF e
<1>9. r \in Word /\ Num[r] = e * F + N
  <2>1. r \in Word
    BY <1>7, FiniteIs, SizedIs
  <2> HIDE DEF g, F, e
  <2> QED
    BY <1>7, <1>8, <2>1
<1>10. F < 2 ^ W /\ FB \in Positions /\ FB \in 0 .. W /\ 2 ^ W \in Nat
  <2>1. FB \in Nat /\ W \in Nat /\ FB < W
    BY FloatConstants
  <2> QED
    BY <2>1, PowerHalves, PowerFacts DEF Positions
<1>11. frac \in Word /\ Num[frac] = N
  <2> DEFINE o == Truth(round)
  <2>1. Num[o] = IF round THEN 1 ELSE 0
    <3>1. CASE round
      <4>1. o = Unit
        BY <3>1 DEF Truth
      <4>2. Num[o] = Num[Unit]
        BY <4>1, Zenon
      <4> QED
        BY <3>1, <4>2, NumUnit
    <3>2. CASE ~round
      <4>1. o = Zero
        BY <3>2 DEF Truth
      <4>2. Num[o] = Num[Zero]
        BY <4>1, Zenon
      <4> QED
        BY <3>2, <4>2, NumUnit
    <3> QED
      BY <3>1, <3>2
  <2> HIDE DEF o
  <2>2. frac = Bits[g + Num[o]]
    BY DEF Plus, o
  <2>3. g + Num[o] = N
    BY <2>1
  <2>4. frac = Bits[N]
    BY <2>2, <2>3, Zenon
  <2> HIDE DEF N, F, frac
  <2>5. N \in 0 .. 2 ^ W - 1
    BY <1>4, <1>8, <1>10
  <2>6. Bits[N] \in Word /\ Num[Bits[N]] = N
    BY <2>5, NumOfSmall
  <2> QED
    BY <2>4, <2>6
<1> HIDE DEF frac
<1> DEFINE u == Shl(Bits[exp], FB) \union (frac \intersect FracMask)
<1>12. u \in Word /\ Num[u] = e * F + N
  <2>1. CASE N < F
    <3>1. frac \subseteq FracMask
      <4> HIDE DEF N
      <4> QED
        BY <1>10, <1>11, <2>1, BitsBelow DEF FracMask
    <3>2. FB \notin FracMask
      BY FloatConstants DEF FracMask
    <3>3. exp = e
      BY <1>3, <3>1, <3>2, FloatConstants
    <3>4. frac \intersect FracMask = frac
      BY <3>1
    <3>5. u = Shl(Bits[e], FB) \union frac
      BY <3>3, <3>4, Zenon
    <3> DEFINE w == Shl(Bits[e], FB) \union frac
    <3>6. w \in Sized /\ Num[w] = e * F + Num[frac]
      BY <1>3, <3>1, FloatOf
    <3>7. Num[u] = Num[w]
      BY <3>5, Zenon
    <3> QED
      BY <1>11, <3>5, <3>6, <3>7, SizedIs
  <2>2. CASE N = F
    <3>1. {FB} \in Word /\ Num[{FB}] = F
      BY <1>10, NumOne
    <3>2. frac = {FB}
      <4>1. Num[frac] = Num[{FB}]
        BY <1>11, <2>2, <3>1
      <4> QED
        BY <1>11, <3>1, <4>1, NumDiffers
    <3>3. exp = e + 1
      BY <3>2
    <3>4. FB \notin FracMask
      BY FloatConstants DEF FracMask
    <3>5. frac \intersect FracMask = {}
      BY <3>2, <3>4
    <3> DEFINE w == Shl(Bits[e + 1], FB) \union {}
    <3>6. u = w
      BY <3>3, <3>5, Zenon
    <3>7. w \in Sized /\ Num[w] = (e + 1) * F + Num[{}]
      <4>1. {} \in SUBSET FracMask
        OBVIOUS
      <4> QED
        BY <1>3, <4>1, FloatOf
    <3>8. Num[u] = Num[w] /\ Num[{}] = 0
      BY <3>6, NumIsNat, Zenon
    <3>9. (e + 1) * F + 0 = e * F + F
      <4> HIDE DEF F, e
      <4> QED
        BY <1>3, <1>4 DEF e
    <3> HIDE DEF w, u, N, e, F
    <3>10. Num[w] = (e + 1) * F + 0
      BY <3>7, <3>8 DEF F
    <3> QED
      BY <2>2, <3>6, <3>7, <3>8, <3>9, <3>10, SizedIs
  <2> HIDE DEF N, F
  <2>3. N < F \/ N = F
    BY <1>4, <1>8
  <2> QED
    BY <2>1, <2>2, <2>3
<1>13. r = u
  <2>1. Num[r] = Num[u]
    BY <1>9, <1>12
  <2> HIDE DEF u
  <2> QED
    BY <1>9, <1>12, <2>1, NumDiffers
<1> QED
  BY <1>13 DEF E, cut, round, frac, r

\* The ends of the range: both are floats.
LEMMA ZeroAndTminRound ==
  Rounded(0) = {} /\ Rounded(2 ^ (W - 1) * One) = Shl(Bits[Bias + W - 1], FB)
<1>0. {} \in SUBSET FracMask /\ Num[{}] = 0
  BY NumIsNat
<1>1. Rounded(0) = {}
  <2>1. {} \in Sized
    BY DEF Sized
  <2> DEFINE u == {}
             F == 2 ^ FB
             f == Num[u \intersect FracMask]
  <2> HIDE DEF u
  <2>2. Exp(u) \in 0 .. MaxExp /\ f \in 0 .. F - 1 /\ Num[u] = Exp(u) * F + f
    BY <2>1, FieldsOf DEF u
  <2>3. Num[u] = 0
    BY <1>0 DEF u
  <2>4. F \in Nat \ {0} /\ MaxExp \in Nat /\ MaxExp > 0
    BY FloatConstants
  <2> DEFINE e == Exp(u)
  <2>5. e = 0 /\ f = 0
    <3> HIDE DEF e, f, F
    <3>1. e \in Nat /\ f \in Nat /\ e * F + f = 0
      BY <2>2, <2>3, <2>4 DEF e
    <3>2. e > 0 => e * F > 0
      BY <2>4, <3>1
    <3>3. e * F >= 0 /\ e * F \in Int
      BY <2>4, <3>1
    <3> QED
      BY <3>1, <3>2, <3>3
  <2>6. u \in Finite
    BY <2>1, <2>4, <2>5, FiniteIs DEF u
  <2>7. Magnitude[u] = 0
    BY <2>5, <2>6, MagnitudeIs
  <2>8. 0 \in Values
    <3>1. 0 \in 0 .. 2 ^ (W - 1) /\ 0 = 0 * One
      BY PowerFacts, OneIs
    <3> QED
      BY <3>1 DEF Values
  <2>9. Rounded(Magnitude[u]) = u
    BY <2>6, <2>7, <2>8, RoundedIsExact
  <2> QED
    BY <2>7, <2>9 DEF u
<1>2. Rounded(2 ^ (W - 1) * One) = Shl(Bits[Bias + W - 1], FB)
  <2> DEFINE e == Bias + W - 1
             h == 2 ^ (W - 1)
             u == Shl(Bits[e], FB) \union {}
             F == 2 ^ FB
  <2>1. e \in 0 .. MaxExp /\ e # MaxExp /\ e # 0 /\ W - 1 \in Nat /\ F \in Nat /\ Bias + (W - 1) - 1 = e - 1
        /\ e - 1 \in Nat
    BY FloatConstants
  <2>2. u \in Sized /\ Exp(u) = e /\ u \intersect FracMask = {}
    BY <1>0, <2>1, FloatOf
  <2>3. u \in Finite
    BY <2>1, <2>2, FiniteIs
  <2>4. Magnitude[u] = IF Exp(u) = 0 THEN Num[u \intersect FracMask]
                       ELSE (F + Num[u \intersect FracMask]) * 2 ^ (Exp(u) - 1)
    BY <2>3, MagnitudeIs
  <2>5. Num[u \intersect FracMask] = Num[{}] /\ 2 ^ (Exp(u) - 1) = 2 ^ (e - 1)
    BY <2>2, Zenon
  <2>6. One * h = F * 2 ^ (e - 1) /\ One \in Nat /\ h \in Nat
    <3>1. One * h = F * 2 ^ (Bias + (W - 1) - 1)
      BY <2>1, OneIs
    <3>2. 2 ^ (Bias + (W - 1) - 1) = 2 ^ (e - 1)
      BY <2>1, Zenon
    <3> QED
      BY <3>1, <3>2, OneIs, PowerFacts
  <2>7. Magnitude[u] = h * One
    <3> DEFINE p == 2 ^ (e - 1)
    <3>0. p \in Nat
      BY <2>1, PowerIs
    <3>1. Magnitude[u] = (F + 0) * p
      BY <1>0, <2>1, <2>2, <2>4, <2>5
    <3> HIDE DEF p, h, F
    <3>2. (F + 0) * p = F * p /\ h * One = One * h
      BY <2>1, <2>6, <3>0
    <3> QED
      BY <2>6, <3>1, <3>2 DEF p
  <2>8. h * One \in Values
    BY PowerFacts DEF Values
  <2>9. Rounded(Magnitude[u]) = u
    BY <2>3, <2>7, <2>8, RoundedIsExact
  <2>10. u = Shl(Bits[e], FB)
    OBVIOUS
  <2> HIDE DEF u, h
  <2> QED
    BY <2>7, <2>9, <2>10 DEF h
<1> QED
  BY <1>1, <1>2

\* bits.c:342: the ints are rounded as tests.c rounds them, to even in a tie.
LEMMA IntToFloatIsRight == \A x \in Word : float_i2f(x) = test_float_i2f(x)
<1> SUFFICES ASSUME NEW x \in Word PROVE float_i2f(x) = test_float_i2f(x)
  OBVIOUS
<1> DEFINE a == Int_(x)
           h == 2 ^ (W - 1)
           sign == x \intersect Tmin
           m == Num[IF Negative(x) THEN Neg(x) ELSE x]
<1>1. a \in -h .. h - 1 /\ (Negative(x) <=> a < 0) /\ (a = Num[x] \/ a = Num[x] - 2 ^ W) /\ Num[x] \in Nat
      /\ h \in Nat \ {0} /\ 2 ^ W = 2 * h
  BY NegativeIs, NumIsNat, PowerFacts
<1>2. (a = -h <=> x = Tmin) /\ (a = 0 <=> x = Zero) /\ Tmin # Zero
  <2>1. Int_(Tmin) = -h /\ Int_(Zero) = 0 /\ Tmin \in Word /\ Zero \in Word
    BY SmallWords, NumUnit
  <2> QED
    BY <2>1, IntDiffers DEF Tmin, Zero
<1>3. CASE x = Zero
  <2>1. float_i2f(x) = x
    BY <1>2, <1>3 DEF float_i2f
  <2>2. a = 0 /\ ~Negative(x)
    BY <1>1, <1>2, <1>3
  <2>3. test_float_i2f(x) = Rounded(a * One)
    BY <2>2 DEF test_float_i2f
  <2>4. a * One = 0
    BY <2>2, OneIs
  <2>5. Rounded(a * One) = Rounded(0)
    BY <2>4, Zenon
  <2> QED
    BY <1>3, <2>1, <2>3, <2>5, ZeroAndTminRound DEF Zero
<1>4. CASE x = Tmin
  <2>1. float_i2f(x) = sign \union Shl(Bits[Bias + W - 1], FB)
    BY <1>2, <1>4 DEF float_i2f
  <2>2. -a = h /\ Negative(x)
    BY <1>1, <1>2, <1>4
  <2>3. test_float_i2f(x) = Tmin \union Rounded(-a * One)
    BY <2>2 DEF test_float_i2f
  <2>4. -a * One = h * One
    BY <1>1, <2>2, OneIs
  <2>5. Rounded(-a * One) = Rounded(h * One)
    BY <2>4, Zenon
  <2>6. sign = Tmin
    BY <1>4
  <2> QED
    BY <2>1, <2>3, <2>5, <2>6, ZeroAndTminRound
<1>5. CASE x # Zero /\ x # Tmin
  <2> DEFINE E    == CHOOSE e \in Positions : m \div 2 ^ e = 1
             top  == Shl(Bits[m], W - 1 - E)
             rest == Num[top \intersect (0 .. EB - 1)]
             cut  == FracMask \intersect Shr(top, EB)
             round == rest > 2 ^ (EB - 1) \/ (rest = 2 ^ (EB - 1) /\ 0 \in cut)
             frac == Plus(cut, Truth(round))
             exp  == E + Bias + (IF FB \in frac THEN 1 ELSE 0)
  <2>1. float_i2f(x) = sign \union Shl(Bits[exp], FB) \union (frac \intersect FracMask)
    BY <1>5 DEF float_i2f
  <2>2. m = (IF Negative(x) THEN -a ELSE a) /\ m \in 1 .. h - 1
    <3>1. CASE Negative(x)
      <4>1. a = Num[x] - 2 ^ W
        BY <3>1 DEF Int_
      <4>2. -a \in 1 .. h - 1 /\ -a \in 0 .. 2 ^ W - 1 /\ -Num[x] = -a + (-1) * 2 ^ W /\ -Num[x] \in Int /\ -a \in Int
        BY <1>1, <1>2, <1>5, <3>1, <4>1
      <4>3. Bits[-Num[x]] = Bits[-a]
        <5> DEFINE p == -Num[x]
                   q == -a
        <5> HIDE DEF p, q
        <5>1. Bits[p] = Bits[q]
          BY <4>2, SameBits DEF p, q
        <5> QED
          BY <5>1 DEF p, q
      <4>4. m = Num[Bits[-a]]
        BY <3>1, <4>3, Zenon DEF Neg
      <4>5. Num[Bits[-a]] = -a
        BY <4>2, NumOfSmall
      <4> QED
        BY <3>1, <4>2, <4>4, <4>5
    <3>2. CASE ~Negative(x)
      <4>1. m = Num[x] /\ a = Num[x]
        BY <3>2 DEF Int_
      <4> HIDE DEF m, a
      <4> QED
        BY <1>1, <1>2, <1>5, <3>2, <4>1
    <3> QED
      BY <3>1, <3>2
  <2>3. Rounded(m * One) = Shl(Bits[exp], FB) \union (frac \intersect FracMask)
    <3> HIDE DEF m
    <3> QED
      BY <2>2, RoundsTheFraction
  <2>4. test_float_i2f(x) = sign \union Rounded(m * One)
    <3>1. CASE Negative(x)
      <4>1. m = -a /\ sign = Tmin
        BY <2>2, <3>1 DEF Negative, Tmin
      <4>2. test_float_i2f(x) = Tmin \union Rounded(-a * One)
        BY <3>1 DEF test_float_i2f
      <4>3. Rounded(-a * One) = Rounded(m * One)
        <5>1. a \in Int /\ One \in Int
          BY <1>1, OneIs
        <5> HIDE DEF m, a
        <5>2. -a * One = m * One
          BY <4>1, <5>1
        <5> QED
          BY <5>2, Zenon
      <4> QED
        BY <4>1, <4>2, <4>3
    <3>2. CASE ~Negative(x)
      <4>1. m = a /\ sign = {}
        BY <2>2, <3>2 DEF Negative, Tmin
      <4>2. test_float_i2f(x) = Rounded(a * One)
        BY <3>2 DEF test_float_i2f
      <4> HIDE DEF m, a
      <4>3. Rounded(a * One) = Rounded(m * One)
        BY <4>1, Zenon
      <4> QED
        BY <4>1, <4>2, <4>3
    <3> QED
      BY <3>1, <3>2
  <2> HIDE DEF exp, frac, m
  <2> QED
    BY <2>1, <2>3, <2>4
<1> QED
  BY <1>3, <1>4, <1>5

-------------------------------------------------------------------------------
(* Puzzles that are a matter of single bits, for every even width. *)

\* bits.c:143: the exclusive or, by De Morgan.
LEMMA BitXorIsRight == \A x, y : bitXor(x, y) = test_bitXor(x, y)
  BY DEF bitXor, test_bitXor, Compl

\* bits.c:182: the odd bits and their right neighbours are all bits.
LEMMA AllOddBitsIsRight == \A x : allOddBits(x) = test_allOddBits(x)
<1> SUFFICES ASSUME NEW x PROVE allOddBits(x) = test_allOddBits(x)
  OBVIOUS
<1> DEFINE nx == x \intersect OddMask
           all == nx \union Shr(nx, 1)
<1>1. W \in Nat /\ W % 2 = 0
  BY BitsAssumption
<1>2. (Compl(all) = Zero) <=> \A b \in Positions : b \in all
  BY DEF Compl, Zero
<1>3. ASSUME \A b \in Positions : b % 2 = 1 => b \in x
      PROVE  \A b \in Positions : b \in all
  <2> TAKE b \in Positions
  <2>1. CASE b % 2 = 1
    BY <1>3, <2>1 DEF OddMask
  <2>2. CASE b % 2 # 1
    <3>1. b + 1 \in Positions /\ (b + 1) % 2 = 1 /\ b + 1 < W
      BY <1>1, <2>2 DEF Positions
    <3>2. b + 1 \in nx
      BY <1>3, <3>1 DEF OddMask
    <3>3. QED  BY <3>1, <3>2 DEF Shr
  <2>3. QED  BY <2>1, <2>2
<1>4. ASSUME \A b \in Positions : b \in all
      PROVE  \A b \in Positions : b % 2 = 1 => b \in x
  <2> TAKE b \in Positions
  <2> HAVE b % 2 = 1
  <2>1. CASE b \in nx
    BY <2>1
  <2>2. CASE b \in Shr(nx, 1)
    <3>1. b + 1 \notin OddMask
      BY <1>1 DEF OddMask, Positions
    <3>2. ~(b + 1 < W) => b = W - 1
      BY <1>1 DEF Positions
    <3>3. QED  BY <2>2, <3>1, <3>2 DEF Shr
  <2>3. QED  BY <1>4, <2>1, <2>2
<1>5. allOddBits(x) = IF Compl(all) = Zero THEN Unit ELSE Zero
  BY DEF allOddBits, LNot
<1>6. QED  BY <1>2, <1>3, <1>4, <1>5 DEF test_allOddBits, Truth

\* bits.c:229: a mask of all ones or none for each branch.
LEMMA ConditionalIsRight ==
  \A x, y, z \in Word : conditional(x, y, z) = test_conditional(x, y, z)
<1> SUFFICES ASSUME NEW x \in Word, NEW y \in Word, NEW z \in Word
             PROVE  conditional(x, y, z) = test_conditional(x, y, z)
  OBVIOUS
<1>1. W \in Nat /\ W > 0
  BY BitsAssumption DEF FB
<1>2. Shl(Unit, W - 1) = {W - 1} /\ Shl(Zero, W - 1) = {}
  BY <1>1 DEF Shl, Unit, Zero, Positions
<1>3. Shr({W - 1}, W - 1) = Positions
  BY <1>1 DEF Shr, Positions
<1>4. Shr({}, W - 1) = {}
  BY DEF Shr
<1>5. LNot(x) = IF x = Zero THEN Unit ELSE Zero
  BY DEF LNot
<1>6. LNot(LNot(x)) = IF x = Zero THEN Zero ELSE Unit
  BY DEF LNot, Unit, Zero
<1>7. y \intersect Positions = y /\ z \intersect Positions = z
  BY DEF Word
<1>8. CASE x = Zero
  <2>1. conditional(x, y, z) = (y \intersect {}) \union (z \intersect Positions)
    BY <1>2, <1>3, <1>4, <1>5, <1>6, <1>8 DEF conditional
  <2>2. QED  BY <2>1, <1>7, <1>8 DEF test_conditional
<1>9. CASE x # Zero
  <2>1. conditional(x, y, z) = (y \intersect Positions) \union (z \intersect {})
    BY <1>2, <1>3, <1>4, <1>5, <1>6, <1>9 DEF conditional
  <2>2. QED  BY <2>1, <1>7, <1>9 DEF test_conditional
<1>10. QED  BY <1>8, <1>9

\* The thirteen puzzles compute what their references do for every word of every
\* width, whatever values the tests happen to try; but isTmax adds one to the largest
\* int, and what the build makes of that may be right or not (bits.c:143-405; tests.c).
THEOREM PuzzlesAreRight ==
  \A x, y, z \in Word :
    /\ bitXor(x, y) = test_bitXor(x, y)            /\ tmin = test_tmin
    /\ allOddBits(x) = test_allOddBits(x)          /\ negate(x) = test_negate(x)
    /\ isAsciiDigit(x) = test_isAsciiDigit(x)
    /\ conditional(x, y, z) = test_conditional(x, y, z)
    /\ isLessOrEqual(x, y) = test_isLessOrEqual(x, y)
    /\ logicalNeg(x) = test_logicalNeg(x)          /\ howManyBits(x) = test_howManyBits(x)
    /\ float_twice(x) = test_float_twice(x)        /\ float_i2f(x) = test_float_i2f(x)
    /\ float_f2i(x) = test_float_f2i(x)
    /\ test_isTmax(x) \in isTmax(x) /\ (x # Tmax => isTmax(x) = {test_isTmax(x)})
  BY BitXorIsRight, TminIsRight, AllOddBitsIsRight, NegateIsRight, IsAsciiDigitIsRight,
     ConditionalIsRight, IsLessOrEqualIsRight, LogicalNegIsRight, HowManyBitsIsRight,
     FloatTwiceIsRight, IntToFloatIsRight, FloatToIntIsRight, IsTmaxIsRight

-------------------------------------------------------------------------------
(* The inductive invariant. *)

Puzzles  == 1 .. Len(test_set)
Found    == {"right", "wrong", "timeout", "late"}
Places   == {"options", "next", "generate", "arm", "test", "score",
             "done", "usage", "refused", "crashed"}
Starting == {"options", "usage", "refused"}
Testing  == {"generate", "arm", "test", "score"}

\* The locals and globals of main and run_tests.
TypesOK ==
  /\ line \in CommandLines /\ optind \in 0 .. Len(line) /\ pc \in Places
  /\ DOMAIN flags = {"test_fname", "global_rating", "limited", "argval"}
  /\ flags.global_rating \in Int /\ DOMAIN flags.argval = Range(ArgOptions)
  /\ i \in 1 .. Len(test_set) + 1 /\ (pc \in Testing => i \in Puzzles)
  /\ alarm \in 0 .. Len(test_set) /\ found \in Found
  /\ verdict \in [Puzzles -> Found \union {"none"}]
  /\ points \in Nat /\ max_points \in Nat

\* The options have been read, each over what an earlier one of its letter left; a
\* negative rating is refused; no value was stored that does not fit.
OptionsOK ==
  /\ pc # "refused" => /\ LastIsFixed(optind)
                       /\ \A o \in Range(ArgOptions) : \A text \in Range(LastTyped(o, optind)) :
                            text.float \/ Fits(text.value)
  /\ pc \notin Starting  => optind = Len(line)
  /\ pc # "usage"        => flags.global_rating >= 0
  /\ pc \in Starting     => /\ alarm = 0 /\ points = 0 /\ max_points = 0
                            /\ \A p \in Puzzles : verdict[p] = "none"

\* A pending alarm belongs to the running test or to the last one that ended.
AlarmOK ==
  alarm # 0 => /\ flags.limited /\ alarm <= i
               /\ pc \in {"test", "score"} => alarm = i /\ (pc = "score" => found # "late")
               /\ \A p \in Puzzles : verdict[p] # "none" => p <= alarm

\* What test_function may have found for puzzle p.
MayBe(result, p) ==
  /\ result = "wrong"     => /\ Asked(p) /\ test_set[p].name = "isTmax"
                            /\ Fixed(1) \in {<<>>, <<Tmax>>}
  /\ result = "right"     => Asked(p) /\ test_set[p].name \notin Looping
  /\ result = "timeout" => test_set[p].name \in Looping \union Slow /\ flags.limited
  /\ result = "late"      => \E q \in 1 .. p : test_set[q].name \in Slow

\* Nothing from i on has a verdict, unless a late alarm has brought the test back.
VerdictsOK ==
  /\ \A p \in Puzzles :
       /\ MayBe(verdict[p], p)
       /\ verdict[p] # "none" => p < i \/ (p = i /\ pc = "score" /\ found = "late")
  /\ pc \in {"generate", "arm", "test"} => Asked(i)
  /\ pc = "score" => MayBe(found, i)

\* The points lost are those of the verdicts that are not right.
PointsOK == points <= max_points /\ FullMarksMeanAllRight

IInv == TypesOK /\ OptionsOK /\ AlarmOK /\ VerdictsOK /\ PointsOK

\* gen_vals draws a word for one argument of the running test after the other.
DrawsOK ==
  /\ draws \in Seq(Word)
  /\ CASE pc = "generate"         -> Len(draws) <= test_set[i].args
       [] pc \in {"arm", "test"}  -> Len(draws) = test_set[i].args
       [] pc = "crashed"          -> TRUE
       [] OTHER                   -> draws = <<>>

BtestInv == IInv /\ DrawsOK

-------------------------------------------------------------------------------
(* The steps of btest. *)

\* decl.c: thirteen puzzles, each worth something.
LEMMA Thirteen == Len(test_set) = 13 /\ Puzzles = 1 .. 13
  BY DEF test_set, Puzzles

\* Every puzzle has a rating.
LEMMA TestSet == \A p \in Puzzles : test_set[p].rating \in Nat \ {0}
<1>1. \A p \in 1 .. 13 : test_set[p].rating \in Nat \ {0}
  BY DEF test_set, Puzzle
<1>2. QED  BY <1>1, Thirteen

\* The options that fix an argument.
LEMMA ArgOptionsAre == Range(ArgOptions) = {"1", "2", "3"}
  BY DEF ArgOptions, Range

\* A command line is a sequence of options.
LEMMA CommandLineIsSeq ==
  ASSUME NEW l \in CommandLines
  PROVE  Len(l) \in Nat /\ DOMAIN l = 1 .. Len(l) /\ \A k \in 1 .. Len(l) : IsOption(l[k])
<1>1. l \in Seq(Range(l)) /\ \A k \in DOMAIN l : IsOption(l[k])
  BY BtestAssumption
<1> DEFINE R == Range(l)
<1> HIDE DEF R
<1>2. l \in Seq(R)
  BY <1>1 DEF R
<1>3. Len(l) \in Nat /\ DOMAIN l = 1 .. Len(l)
  BY <1>2
<1>4. QED  BY <1>1, <1>3

\* A puzzle is worth something whatever -r says.
LEMMA RatingIsPositive ==
  ASSUME flags.global_rating \in Int, flags.global_rating >= 0, NEW p \in Puzzles
  PROVE  Rating(p) \in Nat /\ Rating(p) > 0
  BY TestSet DEF Rating

\* tests.c: what the puzzles are tested against.
LEMMA NamesAndArguments ==
  \A p \in Puzzles :
    /\ test_set[p].name \in {"bitXor", "isLessOrEqual"} => test_set[p].args = 2
    /\ test_set[p].name = "conditional" => test_set[p].args = 3
    /\ test_set[p].name = "tmin" => test_set[p].args = 0
    /\ test_set[p].name \notin {"bitXor", "isLessOrEqual", "conditional", "tmin"} => test_set[p].args = 1
    /\ test_set[p].name \in {"bitXor", "tmin", "isTmax", "allOddBits", "negate", "isAsciiDigit",
         "conditional", "isLessOrEqual", "logicalNeg", "howManyBits", "float_twice", "float_i2f",
         "float_f2i"}
    /\ test_set[p].args \in 0 .. 3 /\ test_set[p].float \in BOOLEAN
<1> DEFINE Is(p, name, args) == /\ test_set[p].name = name /\ test_set[p].args = args
                               /\ test_set[p].float \in BOOLEAN
<1>1. Is(1, "bitXor", 2) /\ Is(2, "tmin", 0) /\ Is(3, "isTmax", 1)
  BY DEF test_set, Puzzle
<1>2. Is(4, "allOddBits", 1) /\ Is(5, "negate", 1) /\ Is(6, "isAsciiDigit", 1)
  BY DEF test_set, Puzzle
<1>3. Is(7, "conditional", 3) /\ Is(8, "isLessOrEqual", 2) /\ Is(9, "logicalNeg", 1)
  BY DEF test_set, Puzzle
<1>4. Is(10, "howManyBits", 1) /\ Is(11, "float_twice", 1)
  BY DEF test_set, Puzzle
<1>5. Is(12, "float_i2f", 1) /\ Is(13, "float_f2i", 1)
  BY DEF test_set, Puzzle
<1>6. \A p \in Puzzles : p \in {1, 2, 3, 4, 5, 6, 7, 8, 9, 10, 11, 12, 13}
  BY Thirteen
<1>7. QED  BY <1>1, <1>2, <1>3, <1>4, <1>5, <1>6

\* btest.c:164: every value generated is a word.
LEMMA FloatValsAreWords == \A range : FloatVals(range) \subseteq Word
<1> TAKE range
<1> DEFINE n == 0 .. (IF range > 2 ^ FB THEN 2 ^ FB ELSE range) - 1
           around == UNION {{k, 2 ^ FB + k, 2 ^ FB - k, Bias * 2 ^ FB + k, Bias * 2 ^ FB - k,
                             MaxExp * 2 ^ FB - 1 - k} : k \in n}
           positive == {Bits[k] : k \in around} \union {ExpMask, ExpMask \union {FB - 1}}
<1>1. 2 ^ FB \in Int /\ Bias \in Int /\ MaxExp \in Int /\ Bias * 2 ^ FB \in Int /\ MaxExp * 2 ^ FB \in Int
  BY FloatConstants
<1>2. \A k \in n : k \in Int
  OBVIOUS
<1> HIDE DEF n
<1>3. \A k \in around : k \in Int
  BY <1>1, <1>2
<1> HIDE DEF around
<1>4. \A k \in around : Bits[k] \in Word
  BY <1>3 DEF Bits, Word
<1>5. ExpMask \in Word /\ ExpMask \union {FB - 1} \in Word
  BY FloatConstants DEF ExpMask, Word, Positions
<1>6. positive \subseteq Word
  BY <1>4, <1>5
<1> HIDE DEF positive
<1>7. Tmin \in Word /\ \A p \in positive : Tmin \union p \in Word
  BY <1>6, NumUnit DEF Word
<1>8. FloatVals(range) = positive \union {Tmin \union p : p \in positive}
  BY DEF FloatVals, positive, around, n
<1>9. QED  BY <1>6, <1>7, <1>8

\* What fixes an argument is a text of the command line.
LEMMA LastTypedIsText ==
  ASSUME line \in CommandLines, NEW o \in Range(ArgOptions), NEW n \in 0 .. Len(line),
         LastTyped(o, n) # <<>>
  PROVE  \E text : IsText(text) /\ LastTyped(o, n) = <<text>>
<1> DEFINE typed == {k \in 1 .. n : line[k][1] = o}
<1>1. typed # {} /\ LastTyped(o, n) = <<line[Max(typed)][2]>>
  BY DEF LastTyped
<1>2. n \in Nat /\ Len(line) \in Nat /\ \A k \in 1 .. Len(line) : IsOption(line[k])
  BY CommandLineIsSeq
<1>3. Max(typed) \in typed
  <2>1. typed \in SUBSET (1 .. n)
    OBVIOUS
  <2> HIDE DEF typed
  <2>2. QED  BY <1>1, <1>2, <2>1, MaxIsIn
<1> DEFINE k == Max(typed)
<1> HIDE DEF k
<1>4. k \in 1 .. Len(line) /\ line[k][1] = o
  BY <1>2, <1>3 DEF k
<1>5. IsOption(line[k]) /\ o \in {"1", "2", "3"}
  BY <1>2, <1>4, ArgOptionsAre
<1>6. IsText(line[k][2])
  BY <1>4, <1>5 DEF IsOption
<1>7. QED  BY <1>1, <1>6 DEF k

\* What a text leaves is a word.
LEMMA StoredIsWord == \A text : IsText(text) => Stored(text) \in Word
<1> SUFFICES ASSUME NEW text, IsText(text) PROVE Stored(text) \in Word
  OBVIOUS
<1>1. CASE text.float
  BY <1>1 DEF IsText, Stored
<1>2. CASE ~text.float
  <2>1. text.value \in Int
    BY <1>2 DEF IsText
  <2>2. Bits[text.value] \in Word
    BY <2>1, NumOfBits
  <2>3. QED  BY <1>2, <2>2 DEF Stored
<1>3. QED  BY <1>1, <1>2

\* What -1, -2 and -3 fix is a word.
LEMMA FixedIsWord ==
  ASSUME IInv, pc \notin Starting, NEW k \in 1 .. 3, Fixed(k) # <<>>
  PROVE  \E w \in Word : Fixed(k) = <<w>>
<1> DEFINE o == ArgOptions[k]
           text == LastTyped(o, Len(line))
<1>1. o \in Range(ArgOptions)
  BY ArgOptionsAre DEF ArgOptions
<1>2. line \in CommandLines /\ Len(line) \in 0 .. Len(line) /\ optind = Len(line)
  BY CommandLineIsSeq DEF IInv, TypesOK, OptionsOK
<1>3. LastIsFixed(Len(line))
  BY <1>2 DEF IInv, OptionsOK, Starting
<1>4. Fixed(k) = IF text = <<>> THEN <<>> ELSE <<Stored(text[1])>>
  BY <1>1, <1>3 DEF Fixed, LastIsFixed
<1>5. text # <<>>
  BY <1>4
<1>6. PICK t : IsText(t) /\ text = <<t>>
  <2> HIDE DEF o
  <2>1. QED  BY <1>1, <1>2, <1>5, LastTypedIsText
<1> HIDE DEF text
<1>7. text[1] = t
  BY <1>6
<1>8. QED  BY <1>4, <1>5, <1>6, <1>7, StoredIsWord

\* The values tried are words.
LEMMA DrawnAreWords ==
  ASSUME NEW p, NEW k, NEW draw \in Word, Fixed(k) = <<>>
  PROVE  gen_vals(p, k, draw) \subseteq Word
<1> DEFINE few == Int_(Tmax) - 13 * TEST_RANGE <= Int_(Tmin)
<1>1. CASE p.float
  <2>1. gen_vals(p, k, draw) = FloatVals(arg_test_range(p.args))
    BY <1>1 DEF gen_vals
  <2>2. QED  BY <2>1, FloatValsAreWords
<1>2. CASE ~p.float /\ few
  BY <1>2 DEF gen_vals
<1>3. CASE ~p.float /\ ~few
  <2> DEFINE n == 0 .. arg_test_range(p.args) - 1
             near(m) == {Bits[Int_(Tmin) + m], Bits[Int_(Tmax) - m], Bits[m], Bits[-m]}
  <2>1. gen_vals(p, k, draw) = (UNION {near(m) : m \in n}) \union {draw}
    BY <1>3, Zenon DEF gen_vals
  <2>2. Int_(Tmin) \in Int /\ Int_(Tmax) \in Int /\ \A m \in n : m \in Int
    BY SmallWords, PowerFacts
  <2> HIDE DEF n
  <2>3. \A m \in n : Int_(Tmin) + m \in Int /\ Int_(Tmax) - m \in Int /\ m \in Int /\ -m \in Int
    BY <2>2
  <2>4. \A m \in n : near(m) \subseteq Word
    BY <2>3, NumOfBits
  <2> HIDE DEF near
  <2>5. UNION {near(m) : m \in n} \subseteq Word
    BY <2>4, Zenon
  <2>6. (UNION {near(m) : m \in n}) \union {draw} \subseteq Word
    BY <2>5
  <2>7. QED  BY <2>1, <2>6, Zenon
<1>4. QED  BY <1>1, <1>2, <1>3

\* The values of a running test are words, a fixed one alone.
LEMMA ValuesAreWords ==
  ASSUME IInv, DrawsOK, pc = "test", NEW k \in 1 .. test_set[i].args
  PROVE  /\ gen_vals(test_set[i], k, draws[k]) \subseteq Word
         /\ \A w : Fixed(k) = <<w>> => gen_vals(test_set[i], k, draws[k]) = {w}
<1> DEFINE p == test_set[i]
           V == gen_vals(p, k, draws[k])
<1>1. i \in Puzzles /\ p.args \in 0 .. 3 /\ k \in 1 .. 3
  <2>1. i \in Puzzles
    BY DEF IInv, TypesOK, Testing
  <2>2. p.args \in 0 .. 3
    BY <2>1, NamesAndArguments
  <2>3. QED  BY <2>1, <2>2
<1>2. draws[k] \in Word
  BY <1>1 DEF DrawsOK
<1> HIDE DEF p
<1>3. ASSUME NEW w, Fixed(k) = <<w>> PROVE V = {w}
  <2>1. Range(<<w>>) = {w}
    BY DEF Range
  <2>2. <<w>> # <<>>
    OBVIOUS
  <2>3. QED  BY <1>3, <2>1, <2>2 DEF gen_vals
<1>4. V \subseteq Word
  <2>1. CASE Fixed(k) # <<>>
    <3>1. PICK w \in Word : Fixed(k) = <<w>>
      BY <1>1, <2>1, FixedIsWord DEF Starting
    <3>2. QED  BY <1>3, <3>1
  <2>2. CASE Fixed(k) = <<>>
    BY <1>2, <2>2, DrawnAreWords
  <2>3. QED  BY <2>1, <2>2
<1>5. QED  BY <1>3, <1>4 DEF p

\* A combination is a word for each argument.
LEMMA CombinationsAreWords ==
  ASSUME IInv, DrawsOK, pc = "test", NEW a \in Combinations(test_set[i])
  PROVE  /\ \A k \in 1 .. test_set[i].args : a[k] \in Word
         /\ test_set[i].args = 1 => \A w : Fixed(1) = <<w>> => a[1] = w
<1> DEFINE p == test_set[i]
           V(k) == gen_vals(p, k, draws[k])
<1>1. p.args \in 0 .. 3
  BY NamesAndArguments DEF IInv, TypesOK, Testing
<1>2. \A k \in 1 .. p.args : V(k) \subseteq Word /\ \A w : Fixed(k) = <<w>> => V(k) = {w}
  BY ValuesAreWords
<1> HIDE DEF p
<1>3. \A k \in 1 .. p.args : [j \in 1 .. p.args |-> V(j)][k] = V(k)
  OBVIOUS
<1> DEFINE vals == [j \in 1 .. p.args |-> V(j)]
<1>4. a \in CASE p.args = 0 -> {<<>>}
              [] p.args = 1 -> {<<x>> : x \in vals[1]}
              [] p.args = 2 -> vals[1] \X vals[2]
              [] p.args = 3 -> vals[1] \X vals[2] \X vals[3]
  BY DEF Combinations, p
<1>5. \A k \in 1 .. p.args : vals[k] = V(k)
  BY <1>3
<1> HIDE DEF vals, V
<1>6. CASE p.args = 0
  BY <1>6 DEF p
<1>7. CASE p.args = 1
  <2>1. a \in {<<x>> : x \in V(1)}
    BY <1>4, <1>5, <1>7
  <2>2. QED  BY <1>2, <1>7, <2>1 DEF p
<1>8. CASE p.args = 2
  <2>1. a \in V(1) \X V(2)
    BY <1>4, <1>5, <1>8
  <2>2. a[1] \in V(1) /\ a[2] \in V(2)
    BY <2>1
  <2>3. QED  BY <1>2, <1>8, <2>2 DEF p
<1>9. CASE p.args = 3
  <2>1. a \in V(1) \X V(2) \X V(3)
    BY <1>4, <1>5, <1>9
  <2>2. a[1] \in V(1) /\ a[2] \in V(2) /\ a[3] \in V(3)
    BY <2>1
  <2>3. QED  BY <1>2, <1>9, <2>2 DEF p
<1>10. QED  BY <1>1, <1>6, <1>7, <1>8, <1>9

\* A test that ends with an error is that of isTmax, and has tried the largest int.
LEMMA TestFinds ==
  ASSUME IInv, DrawsOK, Test
  PROVE  /\ found' \in {"right", "wrong"} /\ test_set[i].name \notin Looping
         /\ found' = "wrong" => test_set[i].name = "isTmax" /\ Fixed(1) \in {<<>>, <<Tmax>>}
<1> DEFINE name == test_set[i].name
           args == test_set[i].args
           bad  == {a \in Combinations(test_set[i]) : Solution(name, a) # {Reference(name, a)}}
<1>1. found' \in {"right", "wrong"} /\ name \notin Looping /\ pc = "test"
  BY DEF Test, Returns
<1>2. found' = "wrong" => bad # {}
  BY DEF Test
<1>3. /\ name \in {"bitXor", "isLessOrEqual"} => args = 2
      /\ name = "conditional" => args = 3
      /\ name \notin {"bitXor", "isLessOrEqual", "conditional", "tmin"} => args = 1
      /\ name \in {"bitXor", "tmin", "isTmax", "allOddBits", "negate", "isAsciiDigit",
                   "conditional", "isLessOrEqual", "logicalNeg", "howManyBits", "float_twice",
                   "float_i2f", "float_f2i"}
  BY <1>1, NamesAndArguments DEF IInv, TypesOK, Testing
<1>4. \A a \in Combinations(test_set[i]) :
        /\ \A k \in 1 .. args : a[k] \in Word
        /\ args = 1 => \A w : Fixed(1) = <<w>> => a[1] = w
  BY <1>1, CombinationsAreWords
<1> HIDE DEF name, args
<1>5. ASSUME NEW a \in Combinations(test_set[i]), name # "isTmax"
      PROVE  Solution(name, a) = {Reference(name, a)}
  <2>1. /\ args >= 1 => a[1] \in Word
        /\ args >= 2 => a[2] \in Word
        /\ args >= 3 => a[3] \in Word
    <3>1. args \in {1, 2, 3} \/ name = "tmin"
      BY <1>3
    <3>2. args \in Nat
      BY <1>1, NamesAndArguments DEF IInv, TypesOK, Testing, args
    <3>3. QED  BY <1>4, <1>5, <3>2
  <2>2. CASE name = "bitXor"
    BY <2>2, BitXorIsRight DEF Solution, Reference
  <2>3. CASE name = "tmin"
    BY <2>3, TminIsRight DEF Solution, Reference
  <2>4. CASE name = "allOddBits"
    BY <2>4, AllOddBitsIsRight DEF Solution, Reference
  <2>5. CASE name = "negate"
    BY <1>3, <2>1, <2>5, NegateIsRight DEF Solution, Reference
  <2>6. CASE name = "isAsciiDigit"
    BY <1>3, <2>1, <2>6, IsAsciiDigitIsRight DEF Solution, Reference
  <2>7. CASE name = "conditional"
    BY <1>3, <2>1, <2>7, ConditionalIsRight DEF Solution, Reference
  <2>8. CASE name = "isLessOrEqual"
    BY <1>3, <2>1, <2>8, IsLessOrEqualIsRight DEF Solution, Reference
  <2>9. CASE name = "logicalNeg"
    BY <1>3, <2>1, <2>9, LogicalNegIsRight DEF Solution, Reference
  <2>10. CASE name = "howManyBits"
    BY <1>3, <2>1, <2>10, HowManyBitsIsRight DEF Solution, Reference
  <2>11. CASE name = "float_twice"
    BY <1>3, <2>1, <2>11, FloatTwiceIsRight DEF Solution, Reference
  <2>12. CASE name = "float_i2f"
    BY <1>3, <2>1, <2>12, IntToFloatIsRight DEF Solution, Reference
  <2>13. CASE name = "float_f2i"
    BY <1>3, <2>1, <2>13, FloatToIntIsRight DEF Solution, Reference
  <2>14. QED
    BY <1>3, <1>5, <2>2, <2>3, <2>4, <2>5, <2>6, <2>7, <2>8, <2>9, <2>10, <2>11, <2>12, <2>13
<1>6. ASSUME NEW a \in Combinations(test_set[i]), name = "isTmax",
             Solution(name, a) # {Reference(name, a)}
      PROVE  Fixed(1) \in {<<>>, <<Tmax>>}
  <2>1. args = 1 /\ a[1] \in Word
    BY <1>3, <1>4, <1>6
  <2>2. Solution(name, a) = isTmax(a[1]) /\ Reference(name, a) = test_isTmax(a[1])
    BY <1>6 DEF Solution, Reference
  <2>3. a[1] = Tmax
    BY <1>6, <2>1, <2>2, IsTmaxIsRight
  <2>4. CASE Fixed(1) # <<>>
    <3>1. PICK w \in Word : Fixed(1) = <<w>>
      BY <1>1, <2>4, FixedIsWord DEF Starting
    <3>2. w = Tmax
      BY <1>4, <1>6, <2>1, <2>3, <3>1
    <3>3. QED  BY <3>1, <3>2
  <2>5. QED  BY <2>4
<1>7. QED
  BY <1>1, <1>2, <1>5, <1>6 DEF name

LEMMA Initially == Init => IInv
<1> SUFFICES ASSUME Init PROVE IInv
  OBVIOUS
<1>1. line \in CommandLines /\ Len(line) \in Nat
  BY CommandLineIsSeq, Zenon DEF Init
<1>a. /\ optind = 0 /\ i = 1 /\ pc = "options" /\ alarm = 0 /\ found = "right"
      /\ points = 0 /\ max_points = 0
      /\ verdict = [p \in Puzzles |-> "none"]
  BY Zenon DEF Init, Puzzles
<1>b. \E name : flags = [test_fname |-> name, global_rating |-> 0, limited |-> TRUE,
                        argval |-> [o \in Range(ArgOptions) |-> <<>>]]
  BY Zenon DEF Init
<1>c. /\ DOMAIN flags = {"test_fname", "global_rating", "limited", "argval"}
      /\ flags.global_rating = 0 /\ flags.argval = [o \in Range(ArgOptions) |-> <<>>]
  BY <1>b
<1>2. TypesOK
  <2>1. optind = 0 /\ optind \in 0 .. Len(line) /\ pc \in Places /\ pc \notin Testing
    BY <1>a, <1>c, <1>1 DEF Places, Testing
  <2>2. /\ DOMAIN flags = {"test_fname", "global_rating", "limited", "argval"}
        /\ flags.global_rating \in Int /\ DOMAIN flags.argval = Range(ArgOptions)
    BY <1>a, <1>c
  <2>3. i \in 1 .. Len(test_set) + 1 /\ alarm \in 0 .. Len(test_set) /\ found \in Found
    BY <1>a, <1>c, Thirteen DEF Found
  <2>4. verdict \in [Puzzles -> Found \union {"none"}] /\ points \in Nat /\ max_points \in Nat
    BY <1>a, <1>c
  <2>5. QED  BY <1>1, <2>1, <2>2, <2>3, <2>4 DEF TypesOK
<1>3. OptionsOK
  <2>1. \A o : LastTyped(o, 0) = <<>>
    <3> TAKE o
    <3>1. {k \in 1 .. 0 : line[k][1] = o} = {}
      OBVIOUS
    <3>2. QED  BY <3>1 DEF LastTyped
  <2>2. Range(<<>>) = {}
    BY DEF Range
  <2>3. QED
    BY <1>a, <1>c, <2>1, <2>2 DEF OptionsOK, LastIsFixed, Starting
<1>4. AlarmOK /\ VerdictsOK
  <2>1. alarm = 0 /\ pc = "options" /\ \A p \in Puzzles : verdict[p] = "none"
    BY <1>a, <1>c
  <2>2. \A p \in Puzzles : MayBe("none", p)
    BY DEF MayBe
  <2>3. QED  BY <2>1, <2>2 DEF AlarmOK, VerdictsOK
<1>5. PointsOK
  BY <1>a DEF PointsOK, FullMarksMeanAllRight, Puzzles
<1>6. QED  BY <1>2, <1>3, <1>4, <1>5 DEF IInv

\* An option adds itself to those of its letter and leaves the others alone.
LEMMA OneMoreOption ==
  ASSUME NEW n \in Nat, NEW o
  PROVE  LastTyped(o, n + 1) = IF line[n + 1][1] = o THEN <<line[n + 1][2]>> ELSE LastTyped(o, n)
<1> DEFINE Typed(m) == {k \in 1 .. m : line[k][1] = o}
<1>1. CASE line[n + 1][1] = o
  <2>1. n + 1 \in Typed(n + 1) /\ \A k \in Typed(n + 1) : n + 1 >= k /\ k \in Int
    BY <1>1
  <2>2. Max(Typed(n + 1)) = n + 1
    BY <2>1 DEF Max
  <2>3. Typed(n + 1) # {}
    BY <2>1
  <2>4. QED  BY <1>1, <2>2, <2>3 DEF LastTyped
<1>2. CASE line[n + 1][1] # o
  <2>1. Typed(n + 1) = Typed(n)
    BY <1>2
  <2>2. QED  BY <1>2, <2>1 DEF LastTyped
<1>3. QED  BY <1>1, <1>2

LEMMA ReadOptionStep ==
  ASSUME IInv, ReadOption
  PROVE  IInv'
<1> DEFINE option == line[optind + 1]
<1>1. /\ optind \in Nat /\ optind + 1 \in 1 .. Len(line) /\ optind' = optind + 1
      /\ line' = line /\ i' = i /\ alarm' = alarm /\ found' = found /\ verdict' = verdict
      /\ points' = points /\ max_points' = max_points
      /\ pc = "options" /\ Len(line) \in Nat
  BY CommandLineIsSeq DEF IInv, TypesOK, ReadOption, score_vars
<1>2. IsOption(option)
  BY <1>1, CommandLineIsSeq DEF IInv, TypesOK
<1> DEFINE Name    == option[1] = "f" /\ flags' = [flags EXCEPT !.test_fname = option[2]] /\ pc' = pc
           Points  == /\ option[1] = "r" /\ flags' = [flags EXCEPT !.global_rating = option[2]]
                      /\ pc' = IF option[2] < 0 THEN "usage" ELSE pc
           Limit   == option[1] = "T" /\ flags' = [flags EXCEPT !.limited = option[2] > 0] /\ pc' = pc
           Fix     == /\ option[1] \in Range(ArgOptions) /\ pc' = pc
                      /\ option[2].float \/ Fits(option[2].value)
                      /\ flags' = [flags EXCEPT !.argval[option[1]] = <<Stored(option[2])>>]
           Refuse  == option[1] \in Range(ArgOptions) /\ pc' = "refused" /\ flags' = flags
           Other   == /\ option[1] \in {"g", "h", "?"} /\ flags' = flags
                      /\ pc' \in {"options", "usage"}
<1>3. Name \/ Points \/ Limit \/ Fix \/ Refuse \/ Other
  BY <1>1 DEF ReadOption, FixArgument, TakenByBtest
<1>4. /\ DOMAIN flags = {"test_fname", "global_rating", "limited", "argval"}
      /\ flags.global_rating \in Int /\ flags.global_rating >= 0
      /\ DOMAIN flags.argval = {"1", "2", "3"}
  BY <1>1, ArgOptionsAre DEF IInv, TypesOK, OptionsOK
<1>5. /\ pc' \in Starting
      /\ DOMAIN flags' = DOMAIN flags /\ DOMAIN flags'.argval = DOMAIN flags.argval
      /\ flags'.global_rating \in Int
      /\ pc' # "usage" => flags'.global_rating >= 0
      /\ pc' # "refused" =>
           \A o \in {"1", "2", "3"} :
             flags'.argval[o] = IF option[1] = o THEN <<Stored(option[2])>> ELSE flags.argval[o]
      /\ pc' # "refused" /\ option[1] \in {"1", "2", "3"} => option[2].float \/ Fits(option[2].value)
  <2>1. CASE Name
    BY <1>1, <1>4, <2>1 DEF Starting
  <2>2. CASE Points
    <3>1. option[2] \in Int
      BY <1>2, <2>2, ArgOptionsAre DEF IsOption
    <3>2. QED  BY <1>1, <1>4, <2>2, <3>1 DEF Starting
  <2>3. CASE Limit
    BY <1>1, <1>4, <2>3 DEF Starting
  <2>4. CASE Fix
    BY <1>1, <1>4, <2>4, ArgOptionsAre DEF Starting
  <2>5. CASE Refuse
    BY <1>1, <1>4, <2>5 DEF Starting
  <2>6. CASE Other
    BY <1>1, <1>4, <2>6 DEF Starting
  <2>7. QED  BY <1>3, <2>1, <2>2, <2>3, <2>4, <2>5, <2>6
<1> HIDE DEF Name, Points, Limit, Fix, Refuse, Other
<1>6. TypesOK'
  <2>1. pc' \in Places /\ pc' \notin Testing
    BY <1>5 DEF Starting, Places, Testing
  <2>2. /\ line' \in CommandLines /\ optind' \in 0 .. Len(line')
        /\ i' \in 1 .. Len(test_set) + 1 /\ alarm' \in 0 .. Len(test_set) /\ found' \in Found
        /\ verdict' \in [Puzzles -> Found \union {"none"}]
        /\ points' \in Nat /\ max_points' \in Nat
    BY <1>1 DEF IInv, TypesOK
  <2>3. QED  BY <1>4, <1>5, <2>1, <2>2, ArgOptionsAre DEF TypesOK
<1>7. pc' # "refused" => LastIsFixed(optind)'
  <2> DEFINE text(o) == LastTyped(o, optind + 1)
  <2>0. \A o : LastTyped(o, optind)' = text(o)
    BY <1>1 DEF LastTyped
  <2> SUFFICES ASSUME pc' # "refused", NEW o \in Range(ArgOptions)
               PROVE  flags'.argval[o] = IF text(o) = <<>> THEN <<>> ELSE <<Stored(text(o)[1])>>
    BY <2>0 DEF LastIsFixed
  <2>1. text(o) = IF option[1] = o THEN <<option[2]>> ELSE LastTyped(o, optind)
    BY <1>1, OneMoreOption
  <2> HIDE DEF text
  <2>2. CASE option[1] = o
    <3>1. flags'.argval[o] = <<Stored(option[2])>>
      BY <1>5, <2>2, ArgOptionsAre
    <3>2. text(o) = <<option[2]>>
      BY <2>1, <2>2
    <3> HIDE DEF option
    <3>3. <<option[2]>> # <<>> /\ <<option[2]>>[1] = option[2]
      OBVIOUS
    <3>4. QED  BY <3>1, <3>2, <3>3
  <2>3. CASE option[1] # o
    <3>1. flags'.argval[o] = flags.argval[o]
      BY <1>5, <2>3, ArgOptionsAre
    <3>2. flags.argval[o] = IF LastTyped(o, optind) = <<>> THEN <<>>
                            ELSE <<Stored(LastTyped(o, optind)[1])>>
      BY <1>1 DEF IInv, OptionsOK, LastIsFixed
    <3>3. text(o) = LastTyped(o, optind)
      BY <2>1, <2>3
    <3>4. QED  BY <3>1, <3>2, <3>3
  <2>4. QED  BY <2>2, <2>3
<1>7a. ASSUME pc' # "refused", NEW o \in Range(ArgOptions), NEW text \in Range(LastTyped(o, optind)')
       PROVE  text.float \/ Fits(text.value)
  <2>1. LastTyped(o, optind)' = LastTyped(o, optind + 1)
    BY <1>1 DEF LastTyped
  <2>2. LastTyped(o, optind + 1) = IF option[1] = o THEN <<option[2]>> ELSE LastTyped(o, optind)
    BY <1>1, OneMoreOption
  <2>3. CASE option[1] = o
    <3> HIDE DEF option
    <3>1. text = option[2]
      BY <1>7a, <2>1, <2>2, <2>3 DEF Range
    <3>2. QED  BY <1>5, <1>7a, <2>3, <3>1, ArgOptionsAre
  <2>4. CASE option[1] # o
    BY <1>1, <1>7a, <2>1, <2>2, <2>4 DEF IInv, OptionsOK
  <2>5. QED  BY <2>3, <2>4
<1>8. OptionsOK'
  BY <1>1, <1>5, <1>7, <1>7a DEF IInv, OptionsOK, Starting, Puzzles
<1>9. AlarmOK' /\ VerdictsOK'
  <2>1. alarm' = 0 /\ pc' \notin Testing /\ \A p \in Puzzles : verdict'[p] = "none"
    BY <1>1, <1>5 DEF IInv, OptionsOK, Starting, Testing
  <2>2. \A p \in Puzzles : MayBe("none", p)'
    BY DEF MayBe
  <2>3. QED  BY <2>1, <2>2 DEF AlarmOK, VerdictsOK, Testing, Puzzles
<1>10. PointsOK'
  BY <1>1 DEF IInv, PointsOK, FullMarksMeanAllRight
<1>11. QED  BY <1>6, <1>8, <1>9, <1>10 DEF IInv

\* Once the options are read, nothing that they decide changes.
LEMMA OptionsStay ==
  ASSUME OptionsOK, UNCHANGED main_vars, pc \notin {"usage", "refused"}, pc' \notin Starting,
         pc # "options" \/ optind = Len(line)
  PROVE  OptionsOK' /\ \A result, p : MayBe(result, p)' <=> MayBe(result, p)
<1>1. line' = line /\ optind' = optind /\ flags' = flags
  BY DEF main_vars
<1>2. OptionsOK'
  <2>1. LastIsFixed(optind)
    BY DEF OptionsOK
  <2>2. LastIsFixed(optind)'
    BY <1>1, <2>1 DEF LastIsFixed, LastTyped
  <2>3. optind = Len(line) /\ flags.global_rating >= 0
    BY DEF OptionsOK, Starting
  <2>4. pc' # "usage" /\ pc' # "refused"
    BY DEF Starting
  <2>5. \A o : LastTyped(o, optind)' = LastTyped(o, optind)
    BY <1>1 DEF LastTyped
  <2>6. QED  BY <1>1, <2>2, <2>3, <2>4, <2>5 DEF OptionsOK
<1>3. \A p : Asked(p)' <=> Asked(p)
  BY <1>1, Zenon DEF Asked
<1>4. QED  BY <1>1, <1>2, <1>3 DEF MayBe, Fixed

\* Steps that score nothing: the verdicts and the points stay.
LEMMA PointsStay ==
  ASSUME PointsOK, UNCHANGED score_vars
  PROVE  PointsOK'
  BY DEF PointsOK, FullMarksMeanAllRight, score_vars

LEMMA RunTestsStep == IInv /\ RunTests => IInv'
<1> SUFFICES ASSUME IInv, RunTests PROVE IInv'
  OBVIOUS
<1>1. /\ pc = "options" /\ pc' = "next" /\ optind = Len(line) /\ UNCHANGED <<main_vars, score_vars>>
      /\ i' = i /\ alarm' = alarm /\ found' = found
  BY DEF RunTests
<1>2. OptionsOK' /\ \A result, p : MayBe(result, p)' <=> MayBe(result, p)
  BY <1>1, OptionsStay DEF IInv, Starting
<1>3. TypesOK'
  BY <1>1 DEF IInv, TypesOK, Places, Testing, main_vars, score_vars, Puzzles
<1>4. AlarmOK' /\ VerdictsOK'
  BY <1>1, <1>2 DEF IInv, OptionsOK, Starting, AlarmOK, VerdictsOK, main_vars, score_vars, Puzzles
<1>5. PointsOK'
  BY <1>1, PointsStay DEF IInv
<1>6. QED  BY <1>2, <1>3, <1>4, <1>5 DEF IInv

LEMMA BeginStep == IInv /\ Begin => IInv'
<1> SUFFICES ASSUME IInv, Begin PROVE IInv'
  OBVIOUS
<1>1. /\ pc = "next" /\ i \in Puzzles /\ UNCHANGED <<main_vars, score_vars>>
      /\ \/ Asked(i) /\ pc' = "generate" /\ i' = i
         \/ pc' = pc /\ i' = i + 1
      /\ alarm' = alarm /\ found' = found
  <2>1. /\ pc = "next" /\ i <= Len(test_set) /\ UNCHANGED <<main_vars, score_vars>>
        /\ IF Asked(i) THEN pc' = "generate" /\ i' = i ELSE i' = i + 1 /\ pc' = pc
        /\ alarm' = alarm /\ found' = found
    BY DEF Begin
  <2>2. i \in Puzzles
    BY <2>1, Thirteen DEF IInv, TypesOK
  <2>3. QED  BY <2>1, <2>2
<1>2. OptionsOK' /\ \A result, p : MayBe(result, p)' <=> MayBe(result, p)
  BY <1>1, OptionsStay DEF IInv, Starting
<1>3. pc' = "generate" => Asked(i)'
  <2>1. pc' = "generate" => Asked(i) /\ i' = i
    BY <1>1
  <2>2. i' = i => (Asked(i)' <=> Asked(i))
    BY <1>1, Zenon DEF Asked, main_vars
  <2>3. QED  BY <2>1, <2>2
<1>4. TypesOK'
  <2>1. pc' \in Places
    BY <1>1 DEF Places
  <2>2. i' \in 1 .. 14
    BY <1>1, Thirteen
  <2>3. pc' \in Testing => i' = i
    BY <1>1 DEF Testing
  <2>4. QED  BY <1>1, <2>1, <2>2, <2>3, Thirteen DEF IInv, TypesOK, main_vars, score_vars
<1>5. AlarmOK'
  BY <1>1, Thirteen DEF IInv, TypesOK, AlarmOK, main_vars, score_vars
<1>6. VerdictsOK'
  <2>1. pc' \in {"generate", "next"} /\ (pc' = "generate" => Asked(i)')
    BY <1>1, <1>3
  <2>2. \A p \in Puzzles : MayBe(verdict[p], p)' /\ (verdict'[p] # "none" => p < i')
    BY <1>1, <1>2, Thirteen DEF IInv, TypesOK, VerdictsOK, score_vars
  <2>3. QED  BY <2>1, <2>2 DEF VerdictsOK, Puzzles
<1>7. PointsOK'
  BY <1>1, PointsStay DEF IInv
<1>8. QED  BY <1>2, <1>4, <1>5, <1>6, <1>7 DEF IInv

LEMMA GenerateStep == IInv /\ Generate => IInv'
<1> SUFFICES ASSUME IInv, Generate PROVE IInv'
  OBVIOUS
<1>1. /\ pc = "generate" /\ pc' \in {"generate", "arm"} /\ UNCHANGED <<main_vars, score_vars>>
      /\ i' = i /\ alarm' = alarm /\ found' = found
  BY DEF Generate
<1>2. OptionsOK' /\ \A result, p : MayBe(result, p)' <=> MayBe(result, p)
  BY <1>1, OptionsStay DEF IInv, Starting
<1>3. Asked(i)' <=> Asked(i)
  BY <1>1, Zenon DEF Asked, main_vars
<1>4. TypesOK'
  BY <1>1 DEF IInv, TypesOK, Places, Testing, main_vars, score_vars, Puzzles
<1>5. AlarmOK'
  BY <1>1 DEF IInv, AlarmOK, main_vars, score_vars, Puzzles
<1>6. VerdictsOK'
  BY <1>1, <1>2, <1>3 DEF IInv, VerdictsOK, score_vars, Puzzles
<1>7. PointsOK'
  BY <1>1, PointsStay DEF IInv
<1>8. QED  BY <1>2, <1>4, <1>5, <1>6, <1>7 DEF IInv

LEMMA SetAlarmStep == IInv /\ SetAlarm => IInv'
<1> SUFFICES ASSUME IInv, SetAlarm PROVE IInv'
  OBVIOUS
<1>1. /\ pc = "arm" /\ pc' = "test" /\ UNCHANGED <<main_vars, score_vars>>
      /\ i' = i /\ alarm' = (IF flags.limited THEN i ELSE alarm) /\ found' = found
      /\ i \in Puzzles
  BY DEF SetAlarm, IInv, TypesOK, Testing
<1>2. OptionsOK' /\ \A result, p : MayBe(result, p)' <=> MayBe(result, p)
  BY <1>1, OptionsStay DEF IInv, Starting
<1>3. Asked(i)' <=> Asked(i)
  BY <1>1, Zenon DEF Asked, main_vars
<1>4. TypesOK'
  BY <1>1, Thirteen DEF IInv, TypesOK, Places, Testing, main_vars, score_vars
<1>5. AlarmOK'
  BY <1>1, Thirteen DEF IInv, TypesOK, AlarmOK, VerdictsOK, main_vars, score_vars
<1>6. VerdictsOK'
  BY <1>1, <1>2, <1>3 DEF IInv, VerdictsOK, score_vars, Puzzles
<1>7. PointsOK'
  BY <1>1, PointsStay DEF IInv
<1>8. QED  BY <1>2, <1>4, <1>5, <1>6, <1>7 DEF IInv

LEMMA TestStep == BtestInv /\ Test => IInv'
<1> SUFFICES ASSUME IInv, DrawsOK, Test PROVE IInv'
  BY DEF BtestInv
<1>1. /\ pc = "test" /\ pc' = "score" /\ UNCHANGED <<main_vars, score_vars>>
      /\ i' = i /\ alarm' = alarm
  BY DEF Test, Returns
<1>2. OptionsOK' /\ \A result, p : MayBe(result, p)' <=> MayBe(result, p)
  BY <1>1, OptionsStay DEF IInv, Starting
<1>3. found' \in {"right", "wrong"} /\ MayBe(found', i)
  BY <1>1, TestFinds DEF IInv, VerdictsOK, MayBe
<1>4. TypesOK'
  BY <1>1, <1>3 DEF IInv, TypesOK, Places, Testing, Found, main_vars, score_vars, Puzzles
<1>5. AlarmOK'
  BY <1>1, <1>3 DEF IInv, AlarmOK, main_vars, score_vars, Puzzles
<1>6. VerdictsOK'
  BY <1>1, <1>2, <1>3 DEF IInv, VerdictsOK, score_vars, Puzzles
<1>7. PointsOK'
  BY <1>1, PointsStay DEF IInv
<1>8. QED  BY <1>2, <1>4, <1>5, <1>6, <1>7 DEF IInv

LEMMA TimeOutStep == IInv /\ TimeOut => IInv'
<1> SUFFICES ASSUME IInv, TimeOut PROVE IInv'
  OBVIOUS
<1>1. /\ pc = "test" /\ pc' = "score" /\ UNCHANGED <<main_vars, score_vars>>
      /\ i' = i /\ alarm = i /\ alarm' = 0 /\ found' = "timeout"
  BY DEF TimeOut
<1>0. test_set[i].name \in Looping \union Slow
  BY DEF TimeOut
<1>2. OptionsOK' /\ \A result, p : MayBe(result, p)' <=> MayBe(result, p)
  BY <1>1, OptionsStay DEF IInv, Starting
<1>3. MayBe(found', i)
  <2>1. i # 0
    BY DEF IInv, TypesOK
  <2>2. flags.limited
    BY <1>1, <2>1 DEF IInv, AlarmOK
  <2>3. QED  BY <1>0, <1>1, <2>2 DEF MayBe
<1>4. TypesOK'
  <2>1. pc' \in Places /\ found' \in Found
    BY <1>1 DEF Places, Found
  <2>2. alarm' \in 0 .. 13
    BY <1>1
  <2>3. i \in Puzzles
    BY <1>1 DEF IInv, TypesOK, Testing
  <2>4. QED  BY <1>1, <2>1, <2>2, <2>3, Thirteen DEF IInv, TypesOK, main_vars, score_vars
<1>5. AlarmOK'
  BY <1>1 DEF AlarmOK
<1>6. VerdictsOK'
  BY <1>1, <1>2, <1>3 DEF IInv, VerdictsOK, score_vars, Puzzles
<1>7. PointsOK'
  BY <1>1, PointsStay DEF IInv
<1>8. QED  BY <1>2, <1>4, <1>5, <1>6, <1>7 DEF IInv

LEMMA LateAlarmStep == IInv /\ LateAlarm => IInv'
<1> SUFFICES ASSUME IInv, LateAlarm PROVE IInv'
  OBVIOUS
<1>1. /\ alarm # 0 /\ test_set[alarm].name \in Slow /\ UNCHANGED <<main_vars, score_vars>>
      /\ pc \in {"score", "next", "generate", "arm"} /\ alarm' = 0
      /\ \/ pc' = "crashed" /\ i' = i /\ found' = found
         \/ pc' = "score" /\ found' = "late" /\ i' \in {alarm, i} \ {14}
  BY Thirteen DEF LateAlarm
<1>2. OptionsOK' /\ \A result, p : MayBe(result, p)' <=> MayBe(result, p)
  BY <1>1, OptionsStay DEF IInv, Starting
<1>3. /\ alarm \in 1 .. 13 /\ alarm <= i /\ i \in 1 .. 14 /\ i' \in 1 .. 14
      /\ \A p \in Puzzles : verdict[p] # "none" => p <= alarm
  BY <1>1, Thirteen DEF IInv, TypesOK, AlarmOK
<1>4. TypesOK'
  <2>1. pc' \in Places /\ (pc' \in Testing => pc' = "score")
    BY <1>1 DEF Places, Testing
  <2>2. found' \in Found
    BY <1>1 DEF Found, IInv, TypesOK
  <2>3. pc' = "score" => i' \in 1 .. 13
    BY <1>1, <1>3
  <2>4. alarm' \in 0 .. 13
    BY <1>1
  <2>5. QED  BY <1>1, <1>3, <2>1, <2>2, <2>3, <2>4, Thirteen DEF IInv, TypesOK, main_vars, score_vars
<1>5. AlarmOK'
  BY <1>1 DEF AlarmOK
<1>6. VerdictsOK'
  <2>1. pc' = "score" => MayBe(found', i')
    <3>1. pc' = "score" => found' = "late" /\ alarm \in 1 .. i'
      BY <1>1, <1>3
    <3>2. QED  BY <1>1, <3>1 DEF MayBe
  <2>2. ASSUME NEW p \in Puzzles, verdict[p] # "none"
        PROVE  p < i' \/ (p = i' /\ pc' = "score" /\ found' = "late")
    <3>1. p <= alarm /\ (p < i \/ (p = i /\ pc = "score" /\ found = "late"))
      BY <1>3, <2>2 DEF IInv, VerdictsOK
    <3>0. ~(pc = "score" /\ found = "late")
      BY <1>1 DEF IInv, AlarmOK
    <3>2. CASE pc' = "crashed"
      <4>1. p < i
        BY <3>0, <3>1
      <4>2. QED  BY <1>1, <3>2, <4>1
    <3>3. CASE pc' # "crashed"
      BY <1>1, <1>3, <3>1, <3>3, Thirteen
    <3>4. QED  BY <3>2, <3>3
  <2>3. pc' \in {"crashed", "score"}
    BY <1>1
  <2>4. QED  BY <1>1, <1>2, <2>1, <2>2, <2>3 DEF IInv, VerdictsOK, score_vars, Puzzles
<1>7. PointsOK'
  BY <1>1, PointsStay DEF IInv
<1>8. QED  BY <1>2, <1>4, <1>5, <1>6, <1>7 DEF IInv

LEMMA ScoreStep == IInv /\ Score => IInv'
<1> SUFFICES ASSUME IInv, Score PROVE IInv'
  OBVIOUS
<1> DEFINE R == Rating(i)
<1>1. /\ pc = "score" /\ pc' = "next" /\ UNCHANGED main_vars
      /\ i' = i + 1 /\ alarm' = alarm /\ found' = found /\ verdict' = [verdict EXCEPT ![i] = found]
      /\ points' = points + (IF found = "right" THEN R ELSE 0) /\ max_points' = max_points + R
  BY DEF Score
<1>2. /\ i \in 1 .. 13 /\ found \in Found /\ verdict \in [Puzzles -> Found \union {"none"}]
      /\ points \in Nat /\ max_points \in Nat
  BY <1>1, Thirteen DEF IInv, TypesOK, Testing
<1>3. R \in Nat /\ R > 0
  BY <1>1, <1>2, RatingIsPositive, Thirteen DEF IInv, TypesOK, OptionsOK
<1> HIDE DEF R
<1>4. \A p \in Puzzles : verdict'[p] = IF p = i THEN found ELSE verdict[p]
  BY <1>1, <1>2
<1>5. OptionsOK' /\ \A result, p : MayBe(result, p)' <=> MayBe(result, p)
  BY <1>1, OptionsStay DEF IInv, Starting
<1>6. TypesOK'
  <2>1. points' \in Nat /\ max_points' \in Nat /\ i' \in 1 .. 14
    BY <1>1, <1>2, <1>3
  <2>2. verdict' \in [Puzzles -> Found \union {"none"}]
    BY <1>1, <1>2
  <2>3. pc' \in Places /\ pc' \notin Testing
    BY <1>1 DEF Places, Testing
  <2>4. QED  BY <1>1, <2>1, <2>2, <2>3, Thirteen DEF IInv, TypesOK, main_vars
<1>7. AlarmOK'
  BY <1>1, <1>2, <1>4 DEF IInv, AlarmOK, main_vars, Puzzles
<1>8. VerdictsOK'
  <2>1. ASSUME NEW p \in Puzzles
        PROVE  MayBe(verdict[p], p)' /\ (verdict'[p] # "none" => p < i')
    <3>1. MayBe(verdict'[p], p)
      BY <1>1, <1>4 DEF IInv, VerdictsOK
    <3>2. verdict'[p] # "none" => p <= i
      BY <1>2, <1>4, Thirteen DEF IInv, VerdictsOK
    <3>3. verdict'[p] # "none" => p < i'
      BY <1>1, <1>2, <3>2, Thirteen
    <3>4. Asked(p)' <=> Asked(p)
      BY <1>1, Zenon DEF Asked, main_vars
    <3>5. MayBe(verdict[p], p)'
      BY <1>1, <3>1, <3>4 DEF MayBe, Fixed, main_vars
    <3>6. QED  BY <3>3, <3>5
  <2>2. pc' \notin {"generate", "arm", "test", "score"}
    BY <1>1
  <2>3. QED  BY <2>1, <2>2 DEF VerdictsOK, Puzzles
<1>9. PointsOK'
  <2>1. CASE found = "right"
    <3>1. verdict[i] = "none"
      BY <1>2, <2>1, Thirteen DEF IInv, VerdictsOK
    <3>2. (\A p \in Puzzles : verdict'[p] \in {"none", "right"})
            <=> \A p \in Puzzles : verdict[p] \in {"none", "right"}
      BY <1>4, <2>1, <3>1
    <3>3. points' = points + R /\ max_points' = max_points + R
      BY <1>1, <2>1
    <3>4. points' <= max_points' /\ (points' = max_points' <=> points = max_points)
      BY <1>2, <1>3, <3>3 DEF IInv, PointsOK
    <3>5. QED  BY <3>2, <3>4 DEF IInv, PointsOK, FullMarksMeanAllRight, Puzzles
  <2>2. CASE found # "right"
    <3>1. points' < max_points'
      BY <1>1, <1>2, <1>3, <2>2 DEF IInv, PointsOK
    <3>2. ~\A p \in Puzzles : verdict'[p] \in {"none", "right"}
      BY <1>2, <1>4, <2>2, Thirteen DEF Found
    <3>3. points' \in Nat /\ max_points' \in Nat
      BY <1>6 DEF TypesOK
    <3>4. QED  BY <3>1, <3>2, <3>3 DEF PointsOK, FullMarksMeanAllRight, Puzzles
  <2>3. QED  BY <2>1, <2>2
<1>10. QED  BY <1>5, <1>6, <1>7, <1>8, <1>9 DEF IInv

LEMMA FinishStep == IInv /\ Finish => IInv'
<1> SUFFICES ASSUME IInv, Finish PROVE IInv'
  OBVIOUS
<1>1. /\ pc = "next" /\ pc' = "done" /\ UNCHANGED <<main_vars, score_vars>>
      /\ i' = i /\ alarm' = alarm /\ found' = found
  BY DEF Finish
<1>2. OptionsOK' /\ \A result, p : MayBe(result, p)' <=> MayBe(result, p)
  BY <1>1, OptionsStay DEF IInv, Starting
<1>3. TypesOK'
  BY <1>1 DEF IInv, TypesOK, Places, Testing, main_vars, score_vars, Puzzles
<1>4. AlarmOK' /\ VerdictsOK'
  BY <1>1, <1>2 DEF IInv, AlarmOK, VerdictsOK, main_vars, score_vars, Puzzles
<1>5. PointsOK'
  BY <1>1, PointsStay DEF IInv
<1>6. QED  BY <1>2, <1>3, <1>4, <1>5 DEF IInv

\* A step of ishow or fshow leaves btest as it is.
LEMMA Stutter == IInv /\ UNCHANGED vars => IInv'
<1> SUFFICES ASSUME IInv, UNCHANGED vars PROVE IInv'
  OBVIOUS
<1>1. /\ line' = line /\ optind' = optind /\ flags' = flags /\ i' = i /\ pc' = pc
      /\ alarm' = alarm /\ found' = found /\ UNCHANGED score_vars
  BY DEF vars, main_vars
<1>2. \A p : Asked(p)' <=> Asked(p)
  BY <1>1, Zenon DEF Asked
<1>3. LastIsFixed(optind)' <=> LastIsFixed(optind)
  BY <1>1 DEF LastIsFixed, LastTyped
<1>4. \A result, p : MayBe(result, p)' <=> MayBe(result, p)
  BY <1>1, <1>2 DEF MayBe, Fixed
<1>4a. \A o : LastTyped(o, optind)' = LastTyped(o, optind)
  BY <1>1 DEF LastTyped
<1>5. TypesOK' /\ OptionsOK'
  BY <1>1, <1>3, <1>4a DEF IInv, TypesOK, OptionsOK, Puzzles, score_vars
<1>6. AlarmOK' /\ VerdictsOK'
  BY <1>1, <1>2, <1>4 DEF IInv, AlarmOK, VerdictsOK, Puzzles, score_vars
<1>7. PointsOK'
  BY <1>1, PointsStay DEF IInv
<1>8. QED  BY <1>5, <1>6, <1>7 DEF IInv

\* Each test draws its values anew.
LEMMA DrawsStep == BtestInv /\ [Next]_vars => DrawsOK'
<1> SUFFICES ASSUME IInv, DrawsOK, [Next]_vars PROVE DrawsOK'
  BY DEF BtestInv
<1> DEFINE Idle == {"generate", "arm", "test", "crashed"}
<1>1. pc \notin Idle => draws = <<>>
  BY DEF DrawsOK
<1>2. ASSUME draws' \in Seq(Word), pc' \notin Idle => draws' = <<>>,
             pc' = "generate" => Len(draws') <= test_set[i'].args,
             pc' \in {"arm", "test"} => Len(draws') = test_set[i'].args
      PROVE  DrawsOK'
  BY <1>2 DEF DrawsOK
<1>3. <<>> \in Seq(Word) /\ draws \in Seq(Word) /\ Len(<<>>) = 0
  BY DEF DrawsOK
<1>4. ASSUME pc \notin Idle, draws' = draws, pc' \notin Idle PROVE DrawsOK'
  BY <1>1, <1>2, <1>3, <1>4
<1>5. CASE ReadOption
  <2>1. pc = "options" /\ draws' = draws /\ (pc' = pc \/ pc' = "usage" \/ pc' = "refused")
    BY <1>5 DEF ReadOption, FixArgument
  <2>2. QED  BY <1>4, <2>1
<1>6. CASE RunTests
  BY <1>4, <1>6 DEF RunTests
<1>7. CASE Begin
  <2>1. pc = "next" /\ draws' = draws /\ (pc' = pc \/ (pc' = "generate" /\ i' = i)) /\ i <= Len(test_set)
    BY <1>7 DEF Begin
  <2>2. pc' = "generate" => Len(draws') <= test_set[i'].args
    <3>1. i \in Puzzles
      BY <2>1, Thirteen DEF IInv, TypesOK
    <3>2. test_set[i].args >= 0
      BY <3>1, NamesAndArguments
    <3>3. QED  BY <1>1, <1>3, <2>1, <3>2
  <2>3. QED  BY <1>1, <1>2, <1>3, <2>1, <2>2
<1>8. CASE Generate
  <2> DEFINE p == test_set[i]
  <2>1. pc = "generate" /\ i' = i /\ i \in Puzzles
    BY <1>8 DEF Generate, IInv, TypesOK, Testing
  <2>2. p.args \in 0 .. 3 /\ Len(draws) <= p.args /\ Len(draws) \in Nat
    BY <1>3, <2>1, NamesAndArguments DEF DrawsOK
  <2>3. CASE Len(draws) = p.args
    <3>1. pc' = "arm" /\ draws' = draws
      BY <1>8, <2>3 DEF Generate
    <3>2. QED  BY <1>2, <1>3, <2>1, <2>3, <3>1
  <2>4. CASE Len(draws) # p.args
    <3>1. PICK r \in Randoms[p.args] \union {Zero} : draws' = Append(draws, r) /\ pc' = pc
      BY <1>8, <2>4 DEF Generate
    <3>2. p.args \in 1 .. 3
      BY <2>2, <2>4
    <3>3. r \in Word
      BY <3>2, NumUnit, BtestAssumption
    <3>4. draws' \in Seq(Word) /\ Len(draws') = Len(draws) + 1
      BY <1>3, <3>1, <3>3
    <3> HIDE DEF p
    <3>5. Len(draws') <= p.args
      BY <2>2, <2>4, <3>4
    <3>6. QED  BY <1>2, <2>1, <3>1, <3>4, <3>5 DEF p
  <2>5. QED  BY <2>3, <2>4
<1>9. CASE SetAlarm
  <2>1. pc = "arm" /\ pc' = "test" /\ draws' = draws /\ i' = i
    BY <1>9 DEF SetAlarm
  <2>2. Len(draws) = test_set[i].args
    BY <2>1 DEF DrawsOK
  <2>3. QED  BY <1>2, <1>3, <2>1, <2>2
<1>10. CASE Test \/ TimeOut
  <2>1. pc' = "score" /\ draws' = <<>>
    BY <1>10 DEF Test, Returns, TimeOut
  <2>2. QED  BY <1>2, <1>3, <2>1
<1>11. CASE LateAlarm
  <2>1. (pc' = "crashed" /\ draws' = draws) \/ (pc' = "score" /\ draws' = <<>>)
    BY <1>11 DEF LateAlarm
  <2>2. QED  BY <1>2, <1>3, <2>1
<1>12. CASE Score
  <2>1. pc = "score" /\ pc' = "next" /\ draws' = draws
    BY <1>12 DEF Score
  <2>2. QED  BY <1>4, <2>1
<1>13. CASE Finish
  BY <1>4, <1>13 DEF Finish
<1>14. CASE UNCHANGED vars
  <2>1. draws' = draws /\ pc' = pc /\ i' = i
    BY <1>14 DEF vars
  <2>2. QED  BY <2>1 DEF DrawsOK
<1>15. QED
  BY <1>5, <1>6, <1>7, <1>8, <1>9, <1>10, <1>11, <1>12, <1>13, <1>14 DEF Next

-------------------------------------------------------------------------------
(* ishow and fshow. *)

Answers == {Bad} \union {show_int(Stored(text)) : text \in Texts}
                 \union {show_float(Stored(text)) : text \in Texts}

\* Until fshow exits, it has refused nothing; what was displayed is right.
ShowInv == /\ tool \in {"btest", "ishow", "fshow"} /\ Len(argv) \in Nat
           /\ \A k \in 1 .. Len(argv) : argv[k] \in Texts \/ tool = "btest"
           /\ shown \in Seq(Answers) /\ Len(shown) <= Len(argv)
           /\ tool = "fshow" /\ ~exited => \A k \in 1 .. Len(shown) : shown[k] # Bad
           /\ AnswersGoOn /\ \A k \in 1 .. Len(shown) : ShownRight(k)

\* What fshow displays is never taken for a refusal.
LEMMA FloatIsNotBad == \A uf : show_float(uf) # Bad
<1> TAKE uf
<1>1. show_float(uf).class \in {"infinity", "nan", "denormalized", "normalized"}
  BY DEF show_float
<1>2. Bad.class = "bad"
  BY DEF Bad
<1>3. QED  BY <1>1, <1>2

\* What ishow displays is never taken for a refusal either, and is the number typed.
LEMMA IntIsNotBad == \A x : show_int(x) # Bad
<1> TAKE x
<1>1. DOMAIN show_int(x) = {"hex", "signed", "unsigned"} /\ DOMAIN Bad = {"class"}
  BY DEF show_int, Bad
<1>2. "hex" # "class"
  OBVIOUS
<1>3. QED  BY <1>1, <1>2

\* What is taken without being a float is stored as the number typed.
LEMMA IntsAreExact ==
  ASSUME NEW text, IsText(text), ~text.float, Fits(text.value)
  PROVE  /\ Stored(text) = Bits[text.value] /\ Stored(text) \in Word
         /\ text.value \in {Int_(Stored(text)), Num[Stored(text)]}
<1>1. text.value \in Int /\ Stored(text) = Bits[text.value]
  BY DEF IsText, Stored
<1>2. QED  BY <1>1, FitsIsTyped

\* What is refused without being a float is no number of the width.
LEMMA RefusedAreNoNumbers ==
  ASSUME NEW text, IsText(text), ~text.float, ~Fits(text.value)
  PROVE  \A w \in Word : text.value \notin {Int_(w), Num[w]}
<1>1. text.value \in Int
  BY DEF IsText
<1>2. QED  BY <1>1, NothingElseFits

\* fshow.c:59: the fields displayed have the value of the float.
LEMMA FieldsAreExact ==
  ASSUME NEW bits \in Word
  PROVE  LET s == show_float(bits)
             size == bits \ Tmin
         IN  /\ s.sign = 1 <=> Negative(bits)
             /\ CASE size \in Finite -> /\ s.mantissa * 2 ^ (s.uexp + Bias - 1) = Magnitude[size]
                                        /\ s.class = "normalized" <=> s.mantissa >= 2 ^ FB
                  [] size = ExpMask  -> s.class = "infinity"
                  [] OTHER           -> s.class = "nan"
<1> DEFINE s == show_float(bits)
           size == bits \ Tmin
           e == Exp(bits)
           f == Num[bits \intersect FracMask]
           F == 2 ^ FB
<1>1. size \in Sized /\ e = Exp(size) /\ bits \intersect FracMask = size \intersect FracMask
  BY FieldsOfAny
<1>2. Num[size \intersect FracMask] = f
  BY <1>1, Zenon
<1>3. e \in 0 .. MaxExp /\ f \in 0 .. F - 1
  <2>1. Exp(size) \in 0 .. MaxExp /\ Num[size \intersect FracMask] \in 0 .. F - 1
    BY <1>1, FieldsOf
  <2>2. QED  BY <1>1, <1>2, <2>1
<1>4. F \in Nat \ {0} /\ MaxExp \in Nat /\ MaxExp > 0 /\ Bias \in Nat
  BY FloatConstants
<1>5. s.sign = 1 <=> Negative(bits)
  BY DEF show_float, get_sign
<1>6. /\ s.mantissa = IF e = 0 THEN f ELSE f + F
      /\ s.uexp = IF e = 0 THEN 1 - Bias ELSE e - Bias
  BY DEF show_float, get_exp, get_frac
<1>7. s.class = CASE e = MaxExp /\ f = 0 -> "infinity"
                  [] e = MaxExp /\ f # 0 -> "nan"
                  [] e = 0      -> "denormalized"
                  [] OTHER      -> "normalized"
  BY DEF show_float, get_exp, get_frac
<1> HIDE DEF s
<1>8. CASE e # MaxExp
  <2>1. size \in Finite
    BY <1>1, <1>8, FiniteIs
  <2>2. Magnitude[size] = IF e = 0 THEN f ELSE (F + f) * 2 ^ (e - 1)
    BY <1>1, <1>2, <2>1, MagnitudeIs
  <2>3. s.class = "normalized" <=> s.mantissa >= F
    <3>1. CASE e = 0
      <4>1. s.class = "denormalized" /\ s.mantissa = f
        BY <1>6, <1>7, <1>8, <3>1
      <4> HIDE DEF f, F
      <4>2. ~(f >= F)
        BY <1>3, <1>4
      <4>3. QED  BY <4>1, <4>2
    <3>2. CASE e # 0
      <4>1. s.class = "normalized" /\ s.mantissa = f + F
        BY <1>6, <1>7, <1>8, <3>2
      <4> HIDE DEF f, F
      <4>2. f + F >= F
        BY <1>3, <1>4
      <4>3. QED  BY <4>1, <4>2
    <3>3. QED  BY <3>1, <3>2
  <2>4. s.mantissa * 2 ^ (s.uexp + Bias - 1) = Magnitude[size]
    <3>1. CASE e = 0
      <4>1. s.uexp + Bias - 1 = 0
        BY <1>4, <1>6, <3>1
      <4>2. 2 ^ (s.uexp + Bias - 1) = 2 ^ 0
        BY <4>1, Zenon
      <4>3. f * 1 = f
        BY <1>3
      <4>4. QED  BY <1>6, <2>2, <3>1, <4>2, <4>3, SmallPowers
    <3>2. CASE e # 0
      <4>1. s.uexp + Bias - 1 = e - 1
        BY <1>3, <1>4, <1>6, <3>2
      <4>2. 2 ^ (s.uexp + Bias - 1) = 2 ^ (e - 1)
        BY <4>1, Zenon
      <4>3. f + F = F + f
        BY <1>3, <1>4
      <4>4. QED  BY <1>6, <2>2, <3>2, <4>2, <4>3
    <3>3. QED  BY <3>1, <3>2
  <2>5. size # ExpMask
    <3>1. size = ExpMask => Exp(size) = Exp(ExpMask)
      BY Zenon
    <3>2. QED  BY <1>1, <1>8, <3>1, ExpMaskIs
  <2>6. QED  BY <1>5, <2>1, <2>3, <2>4, <2>5 DEF s
<1>9. CASE e = MaxExp
  <2>1. size \notin Finite /\ e # 0
    <3>1. size \notin Finite
      BY <1>1, <1>9, FiniteIs
    <3> HIDE DEF e
    <3>2. e # 0
      BY <1>4, <1>9
    <3>3. QED  BY <3>1, <3>2
  <2>2. f = 0 <=> size = ExpMask
    BY <1>1, <1>2, <1>9, ExpMaskIs
  <2>3. CASE f = 0
    <3>1. s.class = "infinity"
      BY <1>7, <1>9, <2>1, <2>3
    <3>2. QED  BY <1>5, <2>1, <2>2, <2>3, <3>1 DEF s
  <2>4. CASE f # 0
    <3>1. s.class = "nan"
      BY <1>7, <1>9, <2>1, <2>4
    <3>2. QED  BY <1>5, <2>1, <2>2, <2>4, <3>1 DEF s
  <2>5. QED  BY <2>3, <2>4
<1>10. QED  BY <1>8, <1>9

LEMMA ShowInitially == BtestStarts \/ ShowStarts => ShowInv
<1>1. BtestStarts => ShowInv
  BY DEF BtestStarts, ShowInv, AnswersGoOn
<1>2. ASSUME ShowStarts PROVE ShowInv
  <2>1. PICK n \in 0 .. MAXARGC : argv \in [1 .. n -> Texts]
    BY <1>2 DEF ShowStarts, ShowInit
  <2>2. n \in Nat /\ Len(argv) = n
    BY <2>1, ShowAssumption
  <2>3. shown = <<>> /\ exited = FALSE
    BY <1>2 DEF ShowStarts, ShowInit
  <2>4. tool \in {"ishow", "fshow"}
    BY <1>2 DEF ShowStarts, ShowInit
  <2>5. QED  BY <2>1, <2>2, <2>3, <2>4 DEF ShowInv, AnswersGoOn
<1>3. QED  BY <1>1, <1>2

\* One more answer.
LEMMA OneMoreAnswer ==
  ASSUME ShowInv, NEW s \in Answers, shown' = Append(shown, s)
  PROVE  /\ shown' \in Seq(Answers) /\ Len(shown') = Len(shown) + 1 /\ Len(shown) \in Nat
         /\ \A k \in 1 .. Len(shown) : shown'[k] = shown[k]
         /\ shown'[Len(shown) + 1] = s /\ shown' # <<>> /\ Last(shown') = s
<1> USE DEF ShowInv
<1>1. /\ shown' \in Seq(Answers) /\ Len(shown') = Len(shown) + 1 /\ Len(shown) \in Nat
      /\ \A k \in 1 .. Len(shown) : shown'[k] = shown[k]
      /\ shown'[Len(shown) + 1] = s
  OBVIOUS
<1>2. shown' # <<>>
  BY <1>1
<1>3. QED  BY <1>1, <1>2 DEF Last

\* The answers given stay right, and it remains to see that the new one is.
LEMMA AnswersStayRight ==
  ASSUME ShowInv, tool' = tool, argv' = argv, NEW s \in Answers, shown' = Append(shown, s),
         NEW n, n = Len(shown) + 1, ShownRight(n)'
  PROVE  \A k \in 1 .. Len(shown') : ShownRight(k)'
<1>1. /\ Len(shown') = Len(shown) + 1 /\ Len(shown) \in Nat
      /\ \A k \in 1 .. Len(shown) : shown'[k] = shown[k]
  BY OneMoreAnswer
<1>2. ASSUME NEW k \in 1 .. Len(shown) PROVE ShownRight(k)'
  <2>1. shown'[k] = shown[k] /\ ShownRight(k)
    BY <1>1, <1>2 DEF ShowInv
  <2>2. QED  BY <2>1, Zenon DEF ShownRight
<1>3. \A k \in 1 .. Len(shown') : k \in 1 .. Len(shown) \/ k = n
  BY <1>1
<1>4. QED  BY <1>2, <1>3

\* What ishow answers is right.
LEMMA IshowIsRight ==
  ASSUME NEW n, NEW text, NEW s, IsText(text), tool' = "ishow", argv'[n] = text, shown'[n] = s,
         s = IF TakenByIshow(text) THEN show_int(Stored(text)) ELSE Bad
  PROVE  ShownRight(n)'
<1>1. text.float \in BOOLEAN
  BY DEF IsText
<1>2. CASE text.float
  <2>1. s = Bad
    BY <1>2 DEF TakenByIshow
  <2>2. QED  BY <1>2, <2>1 DEF ShownRight
<1>3. CASE ~text.float /\ ~Fits(text.value)
  <2>1. s = Bad
    BY <1>3 DEF TakenByIshow
  <2>2. \A w \in Word : text.value \notin {Int_(w), Num[w]}
    BY <1>3, RefusedAreNoNumbers
  <2>3. QED  BY <1>3, <2>1, <2>2 DEF ShownRight
<1>4. CASE ~text.float /\ Fits(text.value)
  <2>1. s = show_int(Stored(text)) /\ s # Bad
    BY <1>4, IntIsNotBad DEF TakenByIshow
  <2>2. /\ Stored(text) = Bits[text.value]
        /\ text.value \in {Int_(Stored(text)), Num[Stored(text)]}
    BY <1>4, IntsAreExact
  <2>3. s.hex = Bits[text.value] /\ text.value \in {s.signed, s.unsigned}
    BY <2>1, <2>2 DEF show_int
  <2>4. QED  BY <1>4, <2>1, <2>3 DEF ShownRight
<1>5. QED  BY <1>1, <1>2, <1>3, <1>4

\* What fshow answers is right.
LEMMA FshowIsRight ==
  ASSUME NEW n, NEW text, NEW s, IsText(text), tool' = "fshow", argv'[n] = text, shown'[n] = s,
         s = IF TakenByFshow(text) THEN show_float(Stored(text)) ELSE Bad
  PROVE  ShownRight(n)'
<1>1. text.float \in BOOLEAN /\ text.rest \in BOOLEAN
  BY DEF IsText
<1>2. CASE ~TakenByFshow(text)
  <2>1. s = Bad
    BY <1>2
  <2>2. text.float => text.rest
    BY <1>1, <1>2 DEF TakenByFshow
  <2>3. ~text.float => \A w \in Word : text.value \notin {Int_(w), Num[w]}
    BY <1>2, RefusedAreNoNumbers DEF TakenByFshow
  <2>4. CASE text.float
    BY <2>1, <2>2, <2>4 DEF ShownRight
  <2>5. CASE ~text.float
    BY <2>1, <2>3, <2>5 DEF ShownRight
  <2>6. QED  BY <2>4, <2>5
<1>3. CASE TakenByFshow(text)
  <2> DEFINE bits == IF text.float THEN text.value ELSE Bits[text.value]
             size == bits \ Tmin
  <2>1. s = show_float(bits) /\ s # Bad
    BY <1>3, FloatIsNotBad DEF Stored
  <2>2. bits \in Word /\ (text.float \/ text.value \in {Int_(bits), Num[bits]})
    <3>1. CASE text.float
      BY <3>1 DEF IsText
    <3>2. CASE ~text.float
      <4>1. Fits(text.value)
        BY <1>3, <3>2 DEF TakenByFshow
      <4>2. QED  BY <3>2, <4>1, IntsAreExact DEF Stored
    <3>3. QED  BY <1>1, <3>1, <3>2
  <2>3. /\ s.sign = 1 <=> Negative(bits)
        /\ CASE size \in Finite -> /\ s.mantissa * 2 ^ (s.uexp + Bias - 1) = Magnitude[size]
                                   /\ s.class = "normalized" <=> s.mantissa >= 2 ^ FB
             [] size = ExpMask  -> s.class = "infinity"
             [] OTHER           -> s.class = "nan"
    <3> HIDE DEF bits
    <3>1. QED  BY <2>1, <2>2, FieldsAreExact
  <2>4. QED  BY <2>1, <2>2, <2>3, Zenon DEF ShownRight
<1>4. QED  BY <1>2, <1>3

\* Nor do the answers change while nothing is displayed.
LEMMA AnswersKept ==
  ASSUME ShowInv, UNCHANGED <<tool, argv, shown>>
  PROVE  Len(shown') = Len(shown) /\ \A k \in 1 .. Len(shown') : ShownRight(k)'
<1>1. ASSUME NEW k, ShownRight(k) PROVE ShownRight(k)'
  BY <1>1, Zenon DEF ShownRight
<1>2. QED  BY <1>1 DEF ShowInv

LEMMA ShowStep == ShowInv /\ [BtestRuns \/ ShowRuns]_<<vars, showVars>> => ShowInv'
<1> SUFFICES ASSUME ShowInv, [BtestRuns \/ ShowRuns]_<<vars, showVars>> PROVE ShowInv'
  OBVIOUS
<1>1. CASE UNCHANGED showVars
  BY <1>1, AnswersKept DEF ShowInv, AnswersGoOn, showVars
<1>2. ASSUME tool # "btest", Running
      PROVE  /\ ~exited /\ Current \in Texts /\ IsText(Current) /\ Len(shown) + 1 <= Len(argv)
             /\ Len(shown) \in Nat /\ Len(argv) \in Nat
  BY <1>2, ShowAssumption DEF ShowInv, Running, Current
<1>3. CASE tool # "btest" /\ ShowInt
  <2> DEFINE s == IF TakenByIshow(Current) THEN show_int(Stored(Current)) ELSE Bad
  <2>1. /\ tool = "ishow" /\ shown' = Append(shown, s) /\ tool' = tool /\ argv' = argv
        /\ exited' = exited
    BY <1>3 DEF ShowInt
  <2>2. Running
    BY <1>3 DEF ShowInt
  <2>3. s \in Answers
    BY <1>2, <1>3, <2>2 DEF Answers
  <2> HIDE DEF s
  <2>4. \A k \in 1 .. Len(shown') : ShownRight(k)'
    <3> DEFINE n == Len(shown) + 1
    <3>1. argv'[n] = Current /\ IsText(Current) /\ shown'[n] = s
      BY <1>2, <2>1, <2>2, <2>3, <1>3, OneMoreAnswer DEF Current
    <3>2. tool' = "ishow"
      BY <2>1
    <3>3. PICK m : m = n
      OBVIOUS
    <3>4. ShownRight(m)'
      <4> PICK text : text = Current
        OBVIOUS
      <4> PICK answer : answer = s
        OBVIOUS
      <4>1. argv'[m] = text /\ IsText(text) /\ shown'[m] = answer
        BY <3>1, <3>3
      <4>2. answer = IF TakenByIshow(text) THEN show_int(Stored(text)) ELSE Bad
        BY DEF s
      <4> QED  BY <3>2, <4>1, <4>2, IshowIsRight
    <3>5. QED  BY <2>1, <2>3, <3>3, <3>4, AnswersStayRight
  <2>5. QED  BY <1>2, <1>3, <2>1, <2>2, <2>3, <2>4, OneMoreAnswer DEF ShowInv, AnswersGoOn
<1>4. CASE tool # "btest" /\ ShowFloat
  <2> DEFINE s == IF TakenByFshow(Current) THEN show_float(Stored(Current)) ELSE Bad
  <2>1. /\ tool = "fshow" /\ shown' = Append(shown, s) /\ tool' = tool /\ argv' = argv
        /\ IF TakenByFshow(Current) THEN exited' = exited ELSE exited' = TRUE
    BY <1>4 DEF ShowFloat
  <2>2. Running
    BY <1>4 DEF ShowFloat
  <2>3. s \in Answers /\ (s = Bad <=> ~TakenByFshow(Current))
    BY <1>2, <1>4, <2>2, FloatIsNotBad DEF Answers
  <2> HIDE DEF s
  <2>4. \A k \in 1 .. Len(shown') : ShownRight(k)'
    <3> DEFINE n == Len(shown) + 1
    <3>1. argv'[n] = Current /\ IsText(Current) /\ shown'[n] = s
      BY <1>2, <2>1, <2>2, <2>3, <1>4, OneMoreAnswer DEF Current
    <3>2. tool' = "fshow"
      BY <2>1
    <3>3. PICK m : m = n
      OBVIOUS
    <3>4. ShownRight(m)'
      <4> PICK text : text = Current
        OBVIOUS
      <4> PICK answer : answer = s
        OBVIOUS
      <4>1. argv'[m] = text /\ IsText(text) /\ shown'[m] = answer
        BY <3>1, <3>3
      <4>2. answer = IF TakenByFshow(text) THEN show_float(Stored(text)) ELSE Bad
        BY DEF s
      <4> QED  BY <3>2, <4>1, <4>2, FshowIsRight
    <3>5. QED  BY <2>1, <2>3, <3>3, <3>4, AnswersStayRight
  <2>5. QED  BY <1>2, <1>4, <2>1, <2>2, <2>3, <2>4, OneMoreAnswer DEF ShowInv, AnswersGoOn
<1>5. CASE Leave
  BY <1>5, AnswersKept DEF Leave, ShowInv, AnswersGoOn
<1>6. QED
  BY <1>1, <1>3, <1>4, <1>5 DEF BtestRuns, ShowRuns, ShowNext, showVars

-------------------------------------------------------------------------------
(* The theorems. *)

\* The invariant of btest that the theorems below rest on (btest.c:425-584).
THEOREM Invariance == LabSpec => []BtestInv
<1>1. BtestStarts \/ ShowStarts => BtestInv
  <2>1. Init => DrawsOK
    <3>1. Init => pc = "options" /\ draws = <<>>
      BY DEF Init
    <3>2. <<>> \in Seq(Word)
      OBVIOUS
    <3>3. QED  BY <3>1, <3>2 DEF DrawsOK
  <2>2. QED  BY <2>1, Initially DEF BtestStarts, ShowStarts, BtestInv
<1>2. BtestInv /\ [BtestRuns \/ ShowRuns]_<<vars, showVars>> => BtestInv'
  <2> SUFFICES ASSUME BtestInv, [Next]_vars PROVE IInv' /\ DrawsOK'
    BY DEF BtestInv, BtestRuns, ShowRuns
  <2>0. IInv /\ DrawsOK'
    BY DrawsStep DEF BtestInv
  <2>1. CASE Next
    BY <2>0, <2>1, ReadOptionStep, RunTestsStep, BeginStep, GenerateStep, SetAlarmStep, TestStep,
       TimeOutStep, LateAlarmStep, ScoreStep, FinishStep DEF Next
  <2>2. CASE UNCHANGED vars
    BY <2>0, <2>2, Stutter
  <2>3. QED  BY <2>0, <2>1, <2>2
<1>3. QED  BY <1>1, <1>2, PTL DEF LabSpec

\* The total is full if and only if every puzzle scored is right, although a late
\* alarm can have a puzzle scored twice: for any ratings, any time limit, and any
\* solutions (btest.c:436-451).
THEOREM FullMarksAreEarned == LabSpec => []FullMarksMeanAllRight
<1>1. BtestInv => FullMarksMeanAllRight
  BY DEF BtestInv, IInv, PointsOK
<1>2. QED  BY <1>1, Invariance, PTL

\* No verdict falls on a puzzle nobody asked for, except that of a late alarm; what
\* does not return never passes; and no puzzle of bits.c fails its tests but isTmax,
\* when the largest int may be among its values: for every width, every command line
\* and every value drawn (btest.c:99-105, 296-419, 436; bits.c:143-405).
THEOREM OnlyIsTmaxCanFail == LabSpec => []VerdictsAreRight
<1>1. BtestInv => VerdictsAreRight
  BY DEF BtestInv, IInv, VerdictsOK, MayBe, VerdictsFit, VerdictsAreRight, Puzzles
<1>2. QED  BY <1>1, Invariance, PTL

\* Once the options are read, an argument is fixed to the last value typed for it, and
\* to none if none was typed (btest.c:542-568).
THEOREM TheLastOptionDecides == LabSpec => [](pc \notin Starting => LastIsFixed(Len(line)))
<1>1. BtestInv => (pc \notin Starting => LastIsFixed(Len(line)))
  BY DEF BtestInv, IInv, OptionsOK, Starting
<1>2. QED  BY <1>1, Invariance, PTL

\* The tests use the values of the command line, and the word stored is the number
\* typed, as an int or as an unsigned: a second value for the same argument, which
\* get_num_val may not check, included (btest.c:458-497, 542-561).
THEOREM TheNumbersTypedAreUsed == LabSpec => []FixedValuesAreTyped
<1>1. BtestInv => FixedValuesAreTyped
  <2> SUFFICES ASSUME IInv, pc \notin Starting, NEW o \in Range(ArgOptions),
                      LastTyped(o, Len(line)) # <<>>
               PROVE  LET text == LastTyped(o, Len(line))
                          word == flags.argval[o][1]
                      IN  IF text[1].float THEN word = text[1].value
                          ELSE text[1].value \in {Int_(word), Num[word]}
    <3>1. IInv /\ pc \notin Starting => LastIsFixed(Len(line))
      BY DEF IInv, OptionsOK, Starting
    <3>2. QED  BY <3>1 DEF BtestInv, FixedValuesAreTyped, Starting
  <2> DEFINE text == LastTyped(o, Len(line))
             word == flags.argval[o][1]
  <2>1. line \in CommandLines /\ Len(line) \in 0 .. Len(line) /\ optind = Len(line) /\ pc # "refused"
    BY CommandLineIsSeq DEF IInv, TypesOK, OptionsOK, Starting
  <2>2. PICK t : IsText(t) /\ text = <<t>>
    BY <2>1, LastTypedIsText
  <2>3. /\ flags.argval[o] = IF text = <<>> THEN <<>> ELSE <<Stored(text[1])>>
        /\ \A u \in Range(text) : u.float \/ Fits(u.value)
    BY <2>1 DEF IInv, OptionsOK, LastIsFixed
  <2> HIDE DEF text
  <2>4. text[1] = t /\ t \in Range(text) /\ text # <<>>
    BY <2>2 DEF Range
  <2>5. word = Stored(t) /\ (t.float \/ Fits(t.value))
    BY <2>3, <2>4
  <2>6. CASE t.float
    BY <2>4, <2>5, <2>6 DEF Stored, text
  <2>7. CASE ~t.float
    <3>1. t.value \in Int /\ Fits(t.value) /\ word = Bits[t.value]
      BY <2>2, <2>5, <2>7 DEF IsText, Stored
    <3>2. t.value \in {Int_(word), Num[word]}
      BY <3>1, FitsIsTyped
    <3>3. QED  BY <2>4, <2>7, <3>2 DEF text
  <2>8. QED  BY <2>6, <2>7
<1>2. QED  BY <1>1, Invariance, PTL

\* ishow answers for every argument, fshow for all up to the first it refuses, and every
\* answer is right: what is refused is no number, and the number, the fields and the
\* class displayed are those of the bits typed, for every width and however many
\* arguments there are (ishow.c:11-78, fshow.c:59-152).
THEOREM TheNumbersShownAreTyped == LabSpec => []ValuesAreExact
<1>1. ShowInv => ValuesAreExact
  <2> SUFFICES ASSUME ShowInv PROVE AnswersGoOn /\ \A k \in DOMAIN shown : ShownRight(k)
    BY DEF ValuesAreExact
  <2>1. DOMAIN shown = 1 .. Len(shown)
    BY DEF ShowInv
  <2>2. QED  BY <2>1 DEF ShowInv
<1>2. QED  BY <1>1, ShowInitially, ShowStep, PTL DEF LabSpec
===============================================================================
