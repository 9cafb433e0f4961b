------------------------------ MODULE TransProofs -------------------------------
(***************************************************************************)
(* For every size, and for both functions, B ends as the transpose of A.   *)
(* The invariant says of each loop what the block it works on holds so     *)
(* far; the places outside the block are those that have been left, which  *)
(* no loop writes, and those still to come.                                *)
(* The second part is about the places a pass touches and the cache its    *)
(* accesses go through: all of them lie in the matrices.                   *)
(***************************************************************************)
EXTENDS Trans, WellFoundedInduction, TLAPS

\* Where the loops may be: the block lies in B, whole but for the edges.
PlaceOK ==
  /\ M \in Nat \ {0} /\ N \in Nat \ {0} /\ <<M, N>> \in Sizes
  /\ i \in Nat /\ j \in Nat /\ k \in Nat
  /\ pc \in {"copy", "swap", "top", "bottom", "strip", "edge", "row", "done"}
  /\ pc # "done" => i < N /\ j < M /\ k <= Passes
  /\ pc \in {"copy", "swap"}   => M = 32 /\ N = 32 /\ i % 8 = 0 /\ j % 8 = 0
  /\ pc \in {"top", "bottom"}  => M = 64 /\ N % 8 = 0 /\ i % 8 = 0 /\ j % 8 = 0
  /\ pc \in {"strip", "edge"}  => M \notin {32, 64} /\ (pc = "strip" <=> Whole)
  /\ pc = "row"                => j = 0

\* What the block holds after k passes of each loop.  Copied rows are not yet
\* transposed; a swap does so for the places before the diagonal's next one.
AfterCopy(r, c) == r < j + k => B[<<r, c>>] = <<i + (r - j), j + (c - i)>>
AfterSwap(r, c) == B[<<r, c>>] = IF r < j + k \/ c < i + k THEN <<c, r>>
                             ELSE <<i + (r - j), j + (c - i)>>
\* The upper half of the block keeps the upper right of A's in its right.
AfterTop(r, c)  == r < j + 4 => /\ c < i + k => B[<<r, c>>] = <<c, r>>
                                /\ c \in i + 4 .. i + 3 + k => B[<<r, c>>] = <<c - 4, r + 4>>
AfterBottom(r, c) ==
  /\ r < j + 4 => B[<<r, c>>] = IF c < i + 4 \/ r < j + k THEN <<c, r>> ELSE <<c - 4, r + 4>>
  /\ r \in j + 4 .. j + 3 + k => B[<<r, c>>] = <<c, r>>
AfterStrip(r, c) == r < j + k => B[<<r, c>>] = <<c, r>>
AfterEdge(r, c)  == c < i + k => B[<<r, c>>] = <<c, r>>

BlockOK(r, c) ==
  /\ pc = "copy"          => AfterCopy(r, c)
  /\ pc = "swap"          => AfterSwap(r, c)
  /\ pc = "top"           => AfterTop(r, c)
  /\ pc = "bottom"        => AfterBottom(r, c)
  /\ pc = "strip"         => AfterStrip(r, c)
  /\ pc \in {"edge", "row"} => AfterEdge(r, c)

InBlock(r, c) == r \in j .. j + Width - 1 /\ c \in i .. i + Height - 1
Rows    == 0 .. M - 1
Cols    == 0 .. N - 1

LeftOK  == pc # "done" => \A r \in Rows, c \in Cols : Left(<<r, c>>) => B[<<r, c>>] = <<c, r>>
DoneOK  == pc = "done" => \A r \in Rows, c \in Cols : B[<<r, c>>] = <<c, r>>
BlocksOK == pc # "done" => \A r \in Rows, c \in Cols : InBlock(r, c) => BlockOK(r, c)

IInv == PlaceOK /\ LeftOK /\ BlocksOK /\ DoneOK
-------------------------------------------------------------------------------
LEMMA InitInv == Init => IInv
<1> SUFFICES ASSUME Init PROVE IInv
  OBVIOUS
<1>1. PICK s \in Sizes, f \in Registered : M = s[1] /\ N = s[2] /\ pc = Start(f)
  BY DEF Init
<1>2. /\ i = 0 /\ j = 0 /\ k = 0
      /\ <<M, N>> = s /\ M \in Nat \ {0} /\ N \in Nat \ {0}
      /\ M = 32 => N = 32
      /\ M = 64 => N % 8 = 0
  BY <1>1, SizesAssumption DEF Init
<1>3. \/ pc = "copy" /\ M = 32
      \/ pc = "top" /\ M = 64
      \/ pc \in {"strip", "edge"} /\ M \notin {32, 64} /\ (pc = "strip" <=> Whole)
      \/ pc = "row"
  BY <1>1 DEF Registered, Start
<1>4. PlaceOK
  <2>1. k <= Passes
    BY <1>2, <1>3 DEF Passes
  <2> QED
    BY <1>2, <1>3, <2>1 DEF PlaceOK
<1>5. ASSUME NEW r \in Rows, NEW c \in Cols
      PROVE  ~Left(<<r, c>>)
  BY <1>2, <1>5 DEF Left, Rows, Cols, Height
<1>6. ASSUME NEW r \in Rows, NEW c \in Cols, InBlock(r, c)
      PROVE  BlockOK(r, c)
  <2>1. r >= 0 /\ c >= 0 /\ r \in Int /\ c \in Int
    BY <1>2 DEF Rows, Cols
  <2> QED
    BY <1>2, <1>3, <2>1 DEF BlockOK, AfterCopy, AfterTop, AfterBottom, AfterStrip, AfterEdge, InBlock, Width, Height
<1> QED
  BY <1>3, <1>4, <1>5, <1>6 DEF IInv, LeftOK, BlocksOK, DoneOK

\* The limits of each loop.
LEMMA Limits ==
  ASSUME PlaceOK
  PROVE  /\ pc \in {"copy", "swap"}  => Passes = 8 /\ Width = 8 /\ Height = 8 /\ Columns = 32
         /\ pc \in {"top", "bottom"} => Passes = 4 /\ Width = 8 /\ Height = 8 /\ Columns = M
         /\ pc = "strip" => Passes = 23 /\ Width = 23 /\ Height = 8 /\ Columns = M
         /\ pc = "edge"  => Passes \in 1 .. 8 /\ Width = 23 /\ Height = 8 /\ Columns = M
         /\ pc = "edge"  => Passes = 8 \/ i + Passes = N
         /\ pc = "row"   => Passes = 1 /\ Width = M /\ Height = 1
         /\ pc = "done"  => Passes = 0
<1>1. CASE pc \in {"copy", "swap"}
  BY <1>1 DEF PlaceOK, Passes, Width, Height, Columns
<1>2. CASE pc \in {"top", "bottom"}
  BY <1>2 DEF PlaceOK, Passes, Width, Height, Columns
<1>3. CASE pc = "strip"
  BY <1>3 DEF PlaceOK, Passes, Width, Height, Columns
<1>4. CASE pc = "edge"
  <2>1. Passes = IF i + 8 <= N THEN 8 ELSE N - i
    BY <1>4 DEF Passes
  <2>2. Passes \in 1 .. 8 /\ (Passes = 8 \/ i + Passes = N)
    BY <1>4, <2>1 DEF PlaceOK
  <2> QED
    BY <1>4, <2>2 DEF PlaceOK, Width, Height, Columns
<1>5. CASE pc = "row"
  BY <1>5 DEF PlaceOK, Passes, Width, Height
<1>6. CASE pc = "done"
  BY <1>6 DEF PlaceOK, Passes
<1> QED
  BY <1>1, <1>2, <1>3, <1>4, <1>5, <1>6 DEF PlaceOK

\* What each loop leaves at a place of B.
LEMMA Values ==
  ASSUME NEW r, NEW c
  PROVE  /\ pc = "copy"   => Value(r, c) = CopyValue(r, c)
         /\ pc = "swap"   => Value(r, c) = SwapValue(r, c)
         /\ pc = "top"    => Value(r, c) = TopValue(r, c)
         /\ pc = "bottom" => Value(r, c) = BottomValue(r, c)
         /\ pc = "strip"  => Value(r, c) = StripValue(r, c)
         /\ pc = "edge"   => Value(r, c) = EdgeValue(r, c)
         /\ pc = "row"    => Value(r, c) = RowValue(r, c)
  BY DEF Value

\* What a pass does to B, and that it stays where it is.
LEMMA PassFacts ==
  ASSUME IInv, OnePass
  PROVE  /\ pc # "done" /\ k < Passes /\ k' = k + 1
         /\ M' = M /\ N' = N /\ pc' = pc /\ i' = i /\ j' = j
         /\ \A r \in Rows, c \in Cols : B'[<<r, c>>] = Value(r, c)
<1>1. k < Passes /\ k' = k + 1 /\ M' = M /\ N' = N /\ pc' = pc /\ i' = i /\ j' = j
  BY DEF OnePass
<1>2. pc # "done"
  BY <1>1, Limits DEF IInv, PlaceOK
<1>3. ASSUME NEW r \in Rows, NEW c \in Cols PROVE B'[<<r, c>>] = Value(r, c)
  <2>1. <<r, c>> \in CellsB
    BY DEF Rows, Cols, CellsB
  <2> QED
    BY <2>1 DEF OnePass
<1> QED
  BY <1>1, <1>2, <1>3

LEMMA PassPlace == ASSUME IInv, OnePass PROVE PlaceOK'
<1>1. PlaceOK
  BY DEF IInv
<1>2. Passes' = Passes
  <2>1. N' = N /\ pc' = pc /\ i' = i
    BY PassFacts
  <2> QED
    BY <2>1 DEF Passes
<1>3. Whole' = Whole
  <2>1. N' = N /\ M' = M /\ i' = i /\ j' = j
    BY PassFacts
  <2> QED
    BY <2>1 DEF Whole
<1>4. Passes \in Nat
  BY <1>1, Limits DEF PlaceOK
<1>5. k' \in Nat /\ k' <= Passes
  BY <1>1, <1>4, PassFacts DEF PlaceOK
<1>6. /\ M' = M /\ N' = N /\ pc' = pc /\ i' = i /\ j' = j
  BY PassFacts
<1> QED
  BY <1>1, <1>2, <1>3, <1>5, <1>6 DEF PlaceOK

\* No pass writes a place that has been left.
LEMMA LeftIsKept ==
  ASSUME IInv, OnePass, NEW r \in Rows, NEW c \in Cols, Left(<<r, c>>)
  PROVE  B'[<<r, c>>] = <<c, r>>
<1>1. B[<<r, c>>] = <<c, r>>
  BY PassFacts DEF IInv, LeftOK
<1>2. Value(r, c) = B[<<r, c>>]
  <2>1. PlaceOK /\ k < Passes /\ pc # "done"
    BY PassFacts DEF IInv
  <2>2. /\ r \in Nat /\ c \in Nat /\ i \in Nat /\ j \in Nat /\ k \in Nat
        /\ M \in Nat /\ N \in Nat /\ r < M /\ c < N
        /\ c < i \/ (c < i + Height /\ r < j)
    BY <2>1 DEF PlaceOK, Rows, Cols, Left
  <2>3. CASE pc = "copy"
    BY <2>1, <2>2, <2>3, Limits, Values DEF CopyValue
  <2>4. CASE pc = "swap"
    <3>1. k < 8 /\ ~(r = k + j /\ c \in i + k + 1 .. i + 7) /\ ~(c = k + i /\ r \in j + k + 1 .. j + 7)
      BY <2>1, <2>2, <2>4, Limits
    <3> QED
      BY <2>4, <3>1, Values DEF SwapValue
  <2>5. CASE pc = "top"
    BY <2>1, <2>2, <2>5, Limits, Values DEF TopValue
  <2>6. CASE pc = "bottom"
    <3>1. k < 4 /\ (c < i \/ r < j)
      BY <2>1, <2>2, <2>6, Limits
    <3>2. /\ ~(r = j + k /\ c \in i + 4 .. i + 7)
          /\ ~(r = j + k + 4 /\ c \in i .. i + 3)
          /\ ~(r = j + k + 4 /\ c \in i + 4 .. i + 7)
      BY <2>2, <3>1
    <3> QED
      BY <2>6, <3>2, Values DEF BottomValue
  <2>7. CASE pc = "strip"
    BY <2>1, <2>2, <2>7, Limits, Values DEF StripValue
  <2>8. CASE pc = "edge"
    BY <2>1, <2>2, <2>8, Limits, Values DEF EdgeValue, EdgeEnd
  <2>9. CASE pc = "row"
    <3>1. c # i
      BY <2>1, <2>2, <2>9, Limits DEF PlaceOK
    <3> QED
      BY <2>9, <3>1, Values DEF RowValue
  <2> QED
    BY <2>1, <2>3, <2>4, <2>5, <2>6, <2>7, <2>8, <2>9 DEF PlaceOK
<1> QED
  BY <1>1, <1>2, PassFacts

\* A place of the block and the numbers that locate it.
LEMMA Located ==
  ASSUME PlaceOK, pc # "done", NEW r, NEW c, InBlock(r, c), r \in Rows, c \in Cols
  PROVE  /\ r \in Nat /\ c \in Nat /\ i \in Nat /\ j \in Nat /\ k \in Nat
         /\ M \in Nat /\ N \in Nat /\ r < M /\ c < N
         /\ r >= j /\ c >= i /\ r < j + Width /\ c < i + Height
<1>1. Width \in Nat /\ Height \in Nat
  BY Limits DEF PlaceOK
<1> QED
  BY <1>1 DEF PlaceOK, Rows, Cols, InBlock

\* Every pass takes the block one step further.
LEMMA PassBlocks ==
  ASSUME IInv, OnePass, NEW r \in Rows, NEW c \in Cols, InBlock(r, c)
  PROVE  BlockOK(r, c)'
<1>1. PlaceOK /\ k < Passes /\ pc # "done"
  BY PassFacts DEF IInv
<1>2. B'[<<r, c>>] = Value(r, c) /\ k' = k + 1 /\ i' = i /\ j' = j /\ pc' = pc
  BY PassFacts
<1>3. BlockOK(r, c)
  BY <1>1 DEF IInv, BlocksOK
<1>4. /\ r \in Nat /\ c \in Nat /\ i \in Nat /\ j \in Nat /\ k \in Nat
      /\ r >= j /\ c >= i /\ r < j + Width /\ c < i + Height
  BY <1>1, Located
<1>5. CASE pc = "copy"
  <2>1. c < i + 8 /\ AfterCopy(r, c)
    BY <1>1, <1>3, <1>4, <1>5, Limits DEF BlockOK
  <2>2. B'[<<r, c>>] = CopyValue(r, c)
    BY <1>2, <1>5, Values
  <2>3. AfterCopy(r, c)'
    <3>1. CASE r = j + k
      BY <1>2, <1>4, <2>1, <2>2, <3>1 DEF AfterCopy, CopyValue
    <3>2. CASE r # j + k
      BY <1>2, <1>4, <2>1, <2>2, <3>2 DEF AfterCopy, CopyValue
    <3> QED
      BY <3>1, <3>2
  <2> QED
    BY <1>2, <1>5, <2>3 DEF BlockOK
<1>6. CASE pc = "swap"
  <2>1. /\ M = 32 /\ N = 32 /\ i + 8 <= 32 /\ j + 8 <= 32
        /\ r < j + 8 /\ c < i + 8 /\ k < 8 /\ AfterSwap(r, c)
    BY <1>1, <1>3, <1>4, <1>6, Limits DEF BlockOK, PlaceOK
  <2>2. B'[<<r, c>>] = SwapValue(r, c)
    BY <1>2, <1>6, Values
  \* The places a swap reads lie in the block too.
  <2>3. ASSUME NEW x \in Nat, NEW y \in Nat, x >= j, x < j + 8, y >= i, y < i + 8
        PROVE  AfterSwap(x, y)
    <3>1. x \in Rows /\ y \in Cols /\ InBlock(x, y)
      BY <1>1, <1>4, <1>6, <2>1, <2>3, Limits DEF Rows, Cols, InBlock
    <3> QED
      BY <1>1, <1>6, <3>1 DEF IInv, BlocksOK, BlockOK
  <2>4. AfterSwap(r, c)'
    <3>1. CASE r = k + j /\ c \in i + k + 1 .. i + 7
      <4>1. B'[<<r, c>>] = B[<<c - i + j, k + i>>]
        <5>1. ~(c = k + i /\ r \in j + k + 1 .. j + 7)
          BY <1>4, <3>1
        <5> QED
          BY <2>2, <3>1, <5>1 DEF SwapValue
      <4>2. AfterSwap(c - i + j, k + i)
        BY <1>4, <2>1, <2>3, <3>1
      <4>3. B[<<c - i + j, k + i>>] = <<i + (c - i), j + k>>
        BY <1>4, <2>1, <3>1, <4>2 DEF AfterSwap
      <4>4. i + (c - i) = c /\ j + k = r /\ r < j + (k + 1)
        BY <1>4, <3>1
      <4>5. B'[<<r, c>>] = <<c, r>>
        BY <4>1, <4>3, <4>4
      <4> QED
        BY <1>2, <4>4, <4>5 DEF AfterSwap
    <3>2. CASE c = k + i /\ r \in j + k + 1 .. j + 7
      <4>0. ~(r = k + j /\ c \in i + k + 1 .. i + 7)
        BY <1>4, <3>2
      <4>1. B'[<<r, c>>] = B[<<k + j, r - j + i>>]
        BY <2>2, <3>2, <4>0 DEF SwapValue
      <4>2. AfterSwap(k + j, r - j + i)
        BY <1>4, <2>1, <2>3, <3>2
      <4>3. B[<<k + j, r - j + i>>] = <<i + k, j + (r - j)>>
        BY <1>4, <2>1, <3>2, <4>2 DEF AfterSwap
      <4> QED
        BY <1>2, <1>4, <2>1, <3>2, <4>1, <4>3 DEF AfterSwap
    <3>3. CASE /\ ~(r = k + j /\ c \in i + k + 1 .. i + 7)
               /\ ~(c = k + i /\ r \in j + k + 1 .. j + 7)
      <4>1. B'[<<r, c>>] = B[<<r, c>>]
        BY <2>2, <3>3 DEF SwapValue
      \* What the swap leaves alone has its final value, or is on the diagonal.
      <4>2. \/ r < j + k \/ c < i + k
            \/ r = j + k /\ c = i + k
            \/ r > j + k /\ c > i + k
        BY <1>4, <2>1, <3>3
      <4> QED
        BY <1>2, <1>4, <2>1, <4>1, <4>2 DEF AfterSwap
    <3> QED
      BY <3>1, <3>2, <3>3
  <2> QED
    BY <1>2, <1>6, <2>4 DEF BlockOK
<1>7. CASE pc = "top"
  <2>1. c < i + 8 /\ k < 4 /\ AfterTop(r, c)
    BY <1>1, <1>3, <1>4, <1>7, Limits DEF BlockOK
  <2>2. B'[<<r, c>>] = TopValue(r, c)
    BY <1>2, <1>7, Values
  <2>3. AfterTop(r, c)'
    <3>1. CASE r \in j .. j + 3 /\ c = k + i
      BY <1>2, <1>4, <2>1, <2>2, <3>1 DEF AfterTop, TopValue
    <3>2. CASE r \in j .. j + 3 /\ c = k + 4 + i
      <4>1. ~(r \in j .. j + 3 /\ c = k + i)
        BY <1>4, <3>2
      <4>2. B'[<<r, c>>] = <<c - 4, r + 4>>
        BY <2>2, <3>2, <4>1 DEF TopValue
      <4> QED
        BY <1>2, <1>4, <2>1, <3>2, <4>2 DEF AfterTop
    <3>3. CASE ~(r \in j .. j + 3 /\ c = k + i) /\ ~(r \in j .. j + 3 /\ c = k + 4 + i)
      <4>1. B'[<<r, c>>] = B[<<r, c>>]
        BY <2>2, <3>3 DEF TopValue
      <4> QED
        BY <1>2, <1>4, <2>1, <3>3, <4>1 DEF AfterTop
    <3> QED
      BY <3>1, <3>2, <3>3
  <2> QED
    BY <1>2, <1>7, <2>3 DEF BlockOK
<1>8. CASE pc = "bottom"
  <2>1. c < i + 8 /\ r < j + 8 /\ k < 4 /\ AfterBottom(r, c) /\ M = 64
    BY <1>1, <1>3, <1>4, <1>8, Limits DEF BlockOK, PlaceOK
  <2>2. B'[<<r, c>>] = BottomValue(r, c)
    BY <1>2, <1>8, Values
  <2>3. AfterBottom(r, c)'
    <3>1. CASE r = j + k
      <4>1. B'[<<r, c>>] = <<c, r>>
        <5>1. CASE c \in i + 4 .. i + 7
          BY <2>2, <3>1, <5>1 DEF BottomValue
        <5>2. CASE c < i + 4
          <6>1. B'[<<r, c>>] = B[<<r, c>>]
            BY <1>4, <2>1, <2>2, <3>1, <5>2 DEF BottomValue
          <6> QED
            BY <1>4, <2>1, <3>1, <5>2, <6>1 DEF AfterBottom
        <5> QED
          BY <1>4, <2>1, <5>1, <5>2
      <4> QED
        BY <1>2, <1>4, <2>1, <3>1, <4>1 DEF AfterBottom
    <3>2. CASE r = j + k + 4
      <4>1. B'[<<r, c>>] = <<c, r>>
        <5>1. CASE c \in i + 4 .. i + 7
          BY <1>4, <2>1, <2>2, <3>2, <5>1 DEF BottomValue
        <5>2. CASE c \in i .. i + 3
          <6>1. B'[<<r, c>>] = B[<<r - 4, c + 4>>]
            BY <1>4, <2>1, <2>2, <3>2, <5>2 DEF BottomValue
          <6>2. c + 4 < N
            BY <1>1, <1>4, <1>8, <5>2 DEF PlaceOK, Cols
          <6>3. r - 4 \in Rows /\ c + 4 \in Cols /\ InBlock(r - 4, c + 4)
            BY <1>1, <1>4, <1>8, <2>1, <3>2, <5>2, <6>2, Limits DEF Rows, Cols, InBlock, PlaceOK
          <6>4. AfterBottom(r - 4, c + 4)
            BY <1>1, <1>8, <6>3 DEF IInv, BlocksOK, BlockOK
          <6>5. B[<<r - 4, c + 4>>] = <<c + 4 - 4, r - 4 + 4>>
            BY <1>4, <2>1, <3>2, <5>2, <6>4 DEF AfterBottom
          <6> QED
            BY <1>4, <6>1, <6>5
        <5> QED
          BY <1>4, <2>1, <5>1, <5>2
      <4> QED
        BY <1>2, <1>4, <2>1, <3>2, <4>1 DEF AfterBottom
    <3>3. CASE r # j + k /\ r # j + k + 4
      <4>1. B'[<<r, c>>] = B[<<r, c>>]
        BY <2>2, <3>3 DEF BottomValue
      <4> QED
        BY <1>2, <1>4, <2>1, <3>3, <4>1 DEF AfterBottom
    <3> QED
      BY <3>1, <3>2, <3>3
  <2> QED
    BY <1>2, <1>8, <2>3 DEF BlockOK
<1>9. CASE pc = "strip"
  <2>1. c < i + 8 /\ AfterStrip(r, c)
    BY <1>1, <1>3, <1>4, <1>9, Limits DEF BlockOK
  <2>2. B'[<<r, c>>] = StripValue(r, c)
    BY <1>2, <1>9, Values
  <2>3. AfterStrip(r, c)'
    <3>1. CASE r = j + k
      BY <1>2, <1>4, <2>1, <2>2, <3>1 DEF AfterStrip, StripValue
    <3>2. CASE r # j + k
      BY <1>2, <1>4, <2>1, <2>2, <3>2 DEF AfterStrip, StripValue
    <3> QED
      BY <3>1, <3>2
  <2> QED
    BY <1>2, <1>9, <2>3 DEF BlockOK
<1>10. CASE pc = "edge"
  <2>1. r < j + 23 /\ r < M /\ AfterEdge(r, c)
    BY <1>1, <1>3, <1>4, <1>10, Limits, Located DEF BlockOK
  <2>2. B'[<<r, c>>] = EdgeValue(r, c)
    BY <1>2, <1>10, Values
  <2>3. r \in j .. EdgeEnd - 1
    BY <1>1, <1>4, <2>1 DEF EdgeEnd, PlaceOK
  <2>4. AfterEdge(r, c)'
    <3>1. CASE c = i + k
      BY <1>2, <1>4, <2>2, <2>3, <3>1 DEF AfterEdge, EdgeValue
    <3>2. CASE c # i + k
      BY <1>2, <1>4, <2>1, <2>2, <3>2 DEF AfterEdge, EdgeValue
    <3> QED
      BY <3>1, <3>2
  <2> QED
    BY <1>2, <1>10, <2>4 DEF BlockOK
<1>11. CASE pc = "row"
  <2>1. c = i
    BY <1>1, <1>4, <1>11, Limits
  <2>2. B'[<<r, c>>] = <<c, r>>
    BY <1>2, <1>11, <2>1, Values DEF RowValue
  <2> QED
    BY <1>2, <1>11, <2>2 DEF BlockOK, AfterEdge
<1> QED
  BY <1>1, <1>5, <1>6, <1>7, <1>8, <1>9, <1>10, <1>11 DEF PlaceOK

LEMMA PassInv == ASSUME IInv, OnePass PROVE IInv'
<1>1. PlaceOK'
  BY PassPlace
<1>2. pc # "done" /\ M' = M /\ N' = N /\ pc' = pc /\ i' = i /\ j' = j
  BY PassFacts
<1>3. Rows' = Rows /\ Cols' = Cols /\ Height' = Height /\ Width' = Width
  BY <1>2 DEF Rows, Cols, Height, Width
<1>4. LeftOK'
  <2>1. ASSUME NEW r \in Rows, NEW c \in Cols PROVE Left(<<r, c>>)' <=> Left(<<r, c>>)
    BY <1>2, <1>3 DEF Left
  <2> QED
    BY <1>3, <2>1, LeftIsKept DEF LeftOK
<1>5. BlocksOK'
  <2>1. ASSUME NEW r \in Rows, NEW c \in Cols PROVE InBlock(r, c)' <=> InBlock(r, c)
    BY <1>2, <1>3 DEF InBlock
  <2> QED
    BY <1>3, <2>1, PassBlocks DEF BlocksOK
<1> QED
  BY <1>1, <1>2, <1>4, <1>5 DEF IInv, DoneOK

\* The second loop over a block begins where the first has left it.
LEMMA NextLoopInv == ASSUME IInv, NextLoop PROVE IInv'
<1>1. /\ M' = M /\ N' = N /\ i' = i /\ j' = j /\ B' = B /\ k' = 0 /\ k = Passes
      /\ \/ pc = "copy" /\ pc' = "swap"
         \/ pc = "top" /\ pc' = "bottom"
  BY DEF NextLoop
<1>2. PlaceOK
  BY DEF IInv
<1>3. PlaceOK'
  <2>1. Passes' \in Nat
    BY <1>1 DEF Passes
  <2>2. i < N /\ j < M
    BY <1>1, <1>2 DEF PlaceOK
  <2>3. CASE pc = "copy"
    BY <1>1, <1>2, <2>1, <2>2, <2>3 DEF PlaceOK
  <2>4. CASE pc = "top"
    BY <1>1, <1>2, <2>1, <2>2, <2>4 DEF PlaceOK
  <2> QED
    BY <1>1, <2>3, <2>4
<1>4. Rows' = Rows /\ Cols' = Cols /\ Height' = Height /\ Width' = Width
  BY <1>1, <1>2 DEF Rows, Cols, Height, Width, PlaceOK
<1>5. LeftOK'
  BY <1>1, <1>4 DEF LeftOK, Left, IInv
<1>6. ASSUME NEW r \in Rows, NEW c \in Cols, InBlock(r, c)
      PROVE  BlockOK(r, c)'
  <2>1. BlockOK(r, c)
    BY <1>1, <1>6 DEF IInv, BlocksOK
  <2>2. /\ r \in Nat /\ c \in Nat /\ i \in Nat /\ j \in Nat /\ k \in Nat
        /\ r >= j /\ c >= i /\ r < j + Width /\ c < i + Height
    BY <1>1, <1>2, <1>6, Located
  <2>3. CASE pc = "copy"
    <3>1. k = 8 /\ r < j + 8 /\ c < i + 8 /\ AfterCopy(r, c)
      BY <1>1, <1>2, <2>1, <2>2, <2>3, Limits DEF BlockOK
    <3>2. AfterSwap(r, c)'
      BY <1>1, <2>2, <3>1 DEF AfterCopy, AfterSwap
    <3> QED
      BY <1>1, <2>3, <3>2 DEF BlockOK
  <2>4. CASE pc = "top"
    <3>1. k = 4 /\ r < j + 8 /\ c < i + 8 /\ AfterTop(r, c)
      BY <1>1, <1>2, <2>1, <2>2, <2>4, Limits DEF BlockOK
    <3>2. AfterBottom(r, c)'
      BY <1>1, <2>2, <3>1 DEF AfterTop, AfterBottom
    <3> QED
      BY <1>1, <2>4, <3>2 DEF BlockOK
  <2> QED
    BY <1>1, <2>3, <2>4
<1>7. BlocksOK'
  <2>1. ASSUME NEW r \in Rows, NEW c \in Cols PROVE InBlock(r, c)' <=> InBlock(r, c)
    BY <1>1, <1>4 DEF InBlock
  <2> QED
    BY <1>4, <1>6, <2>1 DEF BlocksOK
<1> QED
  BY <1>1, <1>3, <1>5, <1>7 DEF IInv, DoneOK

\* After the last loop over a block, its places have their final values.
LEMMA BlockIsDone ==
  ASSUME IInv, k = Passes, pc \in {"swap", "bottom", "strip", "edge", "row"},
         NEW r \in Rows, NEW c \in Cols, InBlock(r, c)
  PROVE  B[<<r, c>>] = <<c, r>>
<1>1. PlaceOK /\ BlockOK(r, c)
  BY DEF IInv, BlocksOK
<1>2. /\ r \in Nat /\ c \in Nat /\ i \in Nat /\ j \in Nat /\ k \in Nat
      /\ N \in Nat /\ c < N
      /\ r >= j /\ c >= i /\ r < j + Width /\ c < i + Height
  BY <1>1, Located
<1>3. CASE pc = "swap"
  BY <1>1, <1>2, <1>3, Limits DEF BlockOK, AfterSwap
<1>4. CASE pc = "bottom"
  BY <1>1, <1>2, <1>4, Limits DEF BlockOK, AfterBottom
<1>5. CASE pc = "strip"
  BY <1>1, <1>2, <1>5, Limits DEF BlockOK, AfterStrip
<1>6. CASE pc = "edge"
  BY <1>1, <1>2, <1>6, Limits DEF BlockOK, AfterEdge
<1>7. CASE pc = "row"
  BY <1>1, <1>2, <1>7, Limits DEF BlockOK, AfterEdge
<1> QED
  BY <1>3, <1>4, <1>5, <1>6, <1>7

LEMMA NextBlockInv == ASSUME IInv, NextBlock PROVE IInv'
<1>1. /\ M' = M /\ N' = N /\ B' = B /\ k' = 0 /\ k = Passes
      /\ pc \in {"swap", "bottom", "strip", "edge", "row"}
  BY DEF NextBlock
<1>2. PlaceOK /\ LeftOK
  BY <1>1 DEF IInv
<1>3. \/ j + Width < Columns /\ j' = j + Width /\ i' = i
      \/ ~(j + Width < Columns) /\ j' = 0 /\ i' = i + Height
  BY DEF NextBlock, More
<1>4. pc' = CASE i' >= N               -> "done"
              [] i' < N /\ pc = "row"  -> "row"
              [] OTHER                 -> Start("transpose_submit")'
  BY DEF NextBlock
<1>5. /\ Width \in Nat /\ Height \in Nat /\ Columns = M
      /\ i \in Nat /\ j \in Nat /\ M \in Nat /\ N \in Nat /\ i < N /\ j < M
  <2>1. i \in Nat /\ j \in Nat /\ M \in Nat /\ N \in Nat /\ i < N /\ j < M
    BY <1>1, <1>2 DEF PlaceOK
  <2>2. M = 32 => N = 32
    BY <1>2, SizesAssumption DEF PlaceOK
  <2>3. Width \in Nat /\ Height \in Nat
    BY <2>1 DEF Width, Height
  <2> QED
    BY <2>1, <2>2, <2>3 DEF Columns
<1>6. i' \in Nat /\ j' \in Nat /\ j' < M
  BY <1>3, <1>5
\* The same function goes on.
<1>7. \/ i' >= N /\ pc' = "done"
      \/ i' < N /\ pc = "row" /\ pc' = "row"
      \/ i' < N /\ pc # "row" /\ M = 32 /\ pc' = "copy"
      \/ i' < N /\ pc # "row" /\ M = 64 /\ pc' = "top"
      \/ /\ i' < N /\ pc # "row" /\ M \notin {32, 64}
         /\ pc' \in {"strip", "edge"} /\ (pc' = "strip" <=> Whole')
  <2>1. CASE i' >= N
    BY <1>4, <2>1
  <2>2. CASE i' < N /\ pc = "row"
    BY <1>4, <1>5, <1>6, <2>2
  <2>3. CASE i' < N /\ pc # "row"
    <3>1. pc' = Start("transpose_submit")'
      BY <1>4, <1>5, <1>6, <2>3
    <3> QED
      BY <1>1, <2>3, <3>1 DEF Start
  <2> QED
    BY <1>5, <1>6, <2>1, <2>2, <2>3
<1>8. PlaceOK'
  <2>1. pc' # "done" => Passes' >= 0
    BY <1>1, <1>5, <1>6, <1>7 DEF Passes
  <2>2. M = 32 /\ pc # "row" => N = 32 /\ i % 8 = 0 /\ j % 8 = 0 /\ Width = 8 /\ Height = 8
    BY <1>1, <1>2, Limits DEF PlaceOK
  <2>3. M = 64 /\ pc # "row" => N % 8 = 0 /\ i % 8 = 0 /\ j % 8 = 0 /\ Width = 8 /\ Height = 8
    BY <1>1, <1>2, Limits DEF PlaceOK
  <2>4. M \in {32, 64} /\ pc # "row" => i' % 8 = 0 /\ j' % 8 = 0
    BY <1>3, <1>5, <2>2, <2>3
  <2>5. pc = "row" => j' = 0
    BY <1>2, <1>3, <1>5, Limits DEF PlaceOK
  <2> QED
    BY <1>1, <1>2, <1>6, <1>7, <2>1, <2>2, <2>3, <2>4, <2>5 DEF PlaceOK
<1>9. Rows' = Rows /\ Cols' = Cols
  BY <1>1 DEF Rows, Cols
<1>10. pc' # "done" => Height' = Height
  BY <1>7 DEF Height
\* A place left now was left before, or is of the block just finished.
<1>11. ASSUME NEW r \in Rows, NEW c \in Cols,
              pc' # "done" => Left(<<r, c>>)'
       PROVE  B[<<r, c>>] = <<c, r>>
  <2>1. r \in Nat /\ c \in Nat /\ r < M /\ c < N
    BY <1>5 DEF Rows, Cols
  <2>2. CASE Left(<<r, c>>)
    BY <1>1, <1>2, <2>2 DEF LeftOK
  <2>3. CASE ~Left(<<r, c>>)
    <3>1. c >= i /\ (c < i + Height => r >= j)
      BY <1>5, <2>1, <2>3 DEF Left
    <3>2. c < i + Height /\ r < j + Width
      <4>1. CASE pc' = "done"
        BY <1>3, <1>5, <1>7, <2>1, <4>1
      <4>2. CASE pc' # "done"
        <5>1. c < i' \/ (c < i' + Height /\ r < j')
          BY <1>10, <1>11, <4>2 DEF Left
        <5> QED
          BY <1>3, <1>5, <2>1, <3>1, <5>1
      <4> QED
        BY <4>1, <4>2
    <3>3. InBlock(r, c)
      BY <1>5, <2>1, <3>1, <3>2 DEF InBlock
    <3> QED
      BY <1>1, <3>3, BlockIsDone
  <2> QED
    BY <2>2, <2>3
<1>12. ASSUME NEW r \in Rows, NEW c \in Cols, InBlock(r, c)', pc' # "done"
       PROVE  BlockOK(r, c)'
  <2>1. r \in Nat /\ c \in Nat
    BY <1>5 DEF Rows, Cols
  <2>2. Width' \in Nat /\ Height' \in Nat
    BY <1>1, <1>5 DEF Width, Height
  <2>3. r >= j' /\ c >= i' /\ k' = 0
    BY <1>1, <1>6, <1>12, <2>1, <2>2 DEF InBlock
  <2> QED
    BY <1>6, <1>7, <1>12, <2>1, <2>3
    DEF BlockOK, AfterCopy, AfterTop, AfterStrip, AfterEdge
<1> QED
  BY <1>1, <1>8, <1>9, <1>11, <1>12 DEF IInv, LeftOK, BlocksOK, DoneOK

-------------------------------------------------------------------------------

\* Where nothing moves.
LEMMA Unmoved ==
  ASSUME IInv, UNCHANGED vars
  PROVE  IInv'
<1> USE DEF vars
<1>1. PlaceOK'
  BY DEF IInv, PlaceOK, Passes, Whole
<1>2. Rows' = Rows /\ Cols' = Cols
  BY DEF Rows, Cols
<1>3. LeftOK' /\ DoneOK'
  BY <1>2 DEF IInv, LeftOK, DoneOK, Left, Height
<1>4. \A r, c : (InBlock(r, c)' <=> InBlock(r, c)) /\ (BlockOK(r, c)' <=> BlockOK(r, c))
  BY DEF InBlock, Width, Height, BlockOK, AfterCopy, AfterSwap, AfterTop, AfterBottom,
         AfterStrip, AfterEdge
<1>5. BlocksOK'
  BY <1>2, <1>4 DEF IInv, BlocksOK
<1> QED
  BY <1>1, <1>3, <1>5 DEF IInv

\* The invariant holds of every run of either function, for every size.
THEOREM Invariance == Spec => []IInv
<1>1. Init => IInv
  BY InitInv
<1>2. IInv /\ [Next]_vars => IInv'
  <2> SUFFICES ASSUME IInv, [Next]_vars PROVE IInv'
    OBVIOUS
  <2>1. CASE Copy \/ Swap \/ Top \/ Bottom \/ Strip \/ Edge \/ trans
    BY <2>1, PassInv DEF Copy, Swap, Top, Bottom, Strip, Edge, trans
  <2>2. CASE NextLoop
    BY <2>2, NextLoopInv
  <2>3. CASE NextBlock
    BY <2>3, NextBlockInv
  <2>4. CASE UNCHANGED vars
    BY <2>4, Unmoved
  <2>5. CASE Done
    BY <2>4, <2>5 DEF Done
  <2> QED
    BY <2>1, <2>2, <2>3, <2>4, <2>5 DEF Next
<1> QED
  BY <1>1, <1>2, PTL DEF Spec

\* For every size B is right wherever a function is done with it, and whole in
\* the end: is_transpose holds when either function returns.
THEOREM MatricesAreTransposed == Spec => []FinishedBlocksAreRight
<1>1. IInv => FinishedBlocksAreRight
  <2> SUFFICES ASSUME IInv PROVE FinishedBlocksAreRight
    OBVIOUS
  <2>1. ASSUME NEW c \in CellsB PROVE c = <<c[1], c[2]>> /\ c[1] \in Rows /\ c[2] \in Cols
    BY DEF CellsB, Rows, Cols
  <2>2. ASSUME NEW c \in CellsB, pc = "done" PROVE Transposed(c)
    <3>1. B[<<c[1], c[2]>>] = <<c[2], c[1]>>
      BY <2>1, <2>2 DEF IInv, DoneOK
    <3> QED
      BY <2>1, <3>1 DEF Transposed
  <2>3. ASSUME NEW c \in CellsB, pc # "done", Left(c) PROVE Transposed(c)
    <3>1. Left(<<c[1], c[2]>>)
      BY <2>1, <2>3
    <3>2. B[<<c[1], c[2]>>] = <<c[2], c[1]>>
      BY <2>1, <2>3, <3>1 DEF IInv, LeftOK
    <3> QED
      BY <2>1, <3>2 DEF Transposed
  <2> QED
    BY <2>2, <2>3 DEF FinishedBlocksAreRight, is_transpose
<1> QED
  BY <1>1, Invariance, PTL

-------------------------------------------------------------------------------
(* The accesses of a pass.                                                     *)

\* A nonempty set of naturals has a least element.
LEMMA LeastNat ==
  ASSUME NEW S \in SUBSET Nat, S # {}
  PROVE  \E m \in S : \A n \in S : m <= n
<1>1. \E m \in S : \A n \in S : <<n, m>> \notin OpToRel(<, Nat)
  BY NatLessThanWellFounded, WFMin
<1>2. \A n, m \in S : <<n, m>> \notin OpToRel(<, Nat) => m <= n
  BY DEF OpToRel
<1> QED
  BY <1>1, <1>2

\* Induction on a set of the numbers up to n.
LEMMA UpTo ==
  ASSUME NEW n \in Nat, NEW S \in SUBSET (0 .. n), 0 \in S,
         \A m \in 1 .. n : m - 1 \in S => m \in S
  PROVE  \A m \in 0 .. n : m \in S
<1> DEFINE Rest == {m \in 0 .. n : m \notin S}
<1> SUFFICES ASSUME Rest # {} PROVE FALSE
  OBVIOUS
<1>1. Rest \in SUBSET Nat
  OBVIOUS
<1> HIDE DEF Rest
<1>2. PICK m \in Rest : \A l \in Rest : m <= l
  BY <1>1, LeastNat
<1>3. m \in 0 .. n /\ m \notin S
  BY <1>2 DEF Rest
<1>4. m \in 1 .. n /\ m - 1 \in 0 .. n
  BY <1>3
<1>5. m - 1 \notin Rest
  BY <1>2, <1>4
<1> QED
  BY <1>3, <1>4, <1>5 DEF Rest

\* Flattening sequences over a set gives a sequence over it.
LEMMA FlattenIn ==
  ASSUME NEW S, NEW seqs \in Seq(Seq(S))
  PROVE  FlattenSeq(seqs) \in Seq(S)
<1> DEFINE n == Len(seqs)
           Obeys(g, m) == g = [x \in 1 .. m |-> IF x = 1 THEN seqs[x] ELSE g[x - 1] \o seqs[x]]
           P(f) == f = [x \in 1 .. Len(seqs) |-> IF x = 1 THEN seqs[x] ELSE f[x - 1] \o seqs[x]]
           Fine(g, m) == \A x \in 1 .. m : g[x] \in Seq(S)
           Bad == {m \in 0 .. n : ~\E g : Obeys(g, m)}
<1>1. n \in Nat /\ \A x \in 1 .. n : seqs[x] \in Seq(S)
  OBVIOUS
<1>2. CASE n = 0
  BY <1>2 DEF FlattenSeq
<1>3. ASSUME n # 0 PROVE FlattenSeq(seqs) \in Seq(S)
  <2>1. Obeys([x \in 1 .. 0 |-> <<>>], 0)
    OBVIOUS
  <2>2. ASSUME NEW m \in 1 .. n, NEW g, Obeys(g, m - 1)
        PROVE  \E h : Obeys(h, m)
    <3> DEFINE h == [x \in 1 .. m |-> IF x < m THEN g[x]
                                      ELSE IF x = 1 THEN seqs[x] ELSE g[x - 1] \o seqs[x]]
    <3>1. \A x \in 1 .. m - 1 : g[x] = IF x = 1 THEN seqs[x] ELSE g[x - 1] \o seqs[x]
      BY <2>2
    <3>2. ASSUME NEW x \in 1 .. m
          PROVE  h[x] = IF x = 1 THEN seqs[x] ELSE h[x - 1] \o seqs[x]
      <4>1. x # 1 => h[x - 1] = g[x - 1]
        BY <1>1
      <4>2. CASE x < m
        <5>1. h[x] = g[x] /\ x \in 1 .. m - 1
          BY <1>1, <4>2
        <5> QED
          BY <3>1, <4>1, <5>1
      <4>3. CASE x = m
        BY <4>1, <4>3
      <4> QED
        BY <1>1, <4>2, <4>3
    <3>3. h = [x \in 1 .. m |-> h[x]]
      OBVIOUS
    <3> HIDE DEF h
    <3>4. Obeys(h, m)
      BY <3>2, <3>3
    <3> QED
      BY <3>4
  <2> HIDE DEF Obeys
  <2>3. Bad = {}
    <3>1. SUFFICES ASSUME Bad # {} PROVE FALSE
      OBVIOUS
    <3>2. Bad \in SUBSET Nat
      BY <1>1
    <3>3. PICK m \in Bad : \A l \in Bad : m <= l
      BY <3>1, <3>2, LeastNat
    <3>4. m # 0
      BY <2>1, <3>3
    <3>5. m \in 1 .. n /\ m - 1 \in 0 .. n /\ m - 1 \notin Bad
      <4>1. m \in 0 .. n
        BY <3>3
      <4>2. m \in 1 .. n /\ m - 1 \in 0 .. n
        BY <1>1, <3>4, <4>1
      <4> HIDE DEF Bad
      <4>3. m - 1 \in Bad => m <= m - 1
        BY <3>3
      <4> QED
        BY <4>2, <4>3
    <3> QED
      BY <2>2, <3>3, <3>5
  <2>4. n \in 0 .. n /\ n \notin Bad
    BY <1>1, <2>3
  <2>5. \E f : P(f)
    BY <2>4 DEF Obeys
  <2> DEFINE F == CHOOSE f : P(f)
  <2>6. P(F)
    BY <2>5, Zenon
  <2>7. FlattenSeq(seqs) = F[n]
    BY <1>3 DEF FlattenSeq
  <2> HIDE DEF F
  <2>8. \A x \in 1 .. n : F[x] = IF x = 1 THEN seqs[x] ELSE F[x - 1] \o seqs[x]
    BY <2>6
  <2> DEFINE Out == {m \in 1 .. n : F[m] \notin Seq(S)}
  <2>9. Out = {}
    <3>1. SUFFICES ASSUME Out # {} PROVE FALSE
      OBVIOUS
    <3>2. Out \in SUBSET Nat
      BY <1>1
    <3>3. PICK m \in Out : \A l \in Out : m <= l
      BY <3>1, <3>2, LeastNat
    <3>4. m # 1
      BY <1>1, <2>8, <3>3
    <3>5. m - 1 \in 1 .. n /\ m - 1 \notin Out
      BY <1>1, <3>3, <3>4
    <3>6. F[m] = F[m - 1] \o seqs[m] /\ F[m - 1] \in Seq(S) /\ seqs[m] \in Seq(S)
      BY <1>1, <2>8, <3>3, <3>4, <3>5
    <3>7. \A s, u \in Seq(S) : s \o u \in Seq(S)
      OBVIOUS
    <3>8. F[m] \in Seq(S)
      BY <3>6, <3>7
    <3> QED
      BY <3>3, <3>8
  <2>10. n \in 1 .. n
    BY <1>1, <1>3
  <2> QED
    BY <2>7, <2>9, <2>10
<1> QED
  BY <1>2, <1>3

\* The larger of the numbers in a set.
LEMMA MaxIs ==
  ASSUME NEW m \in Nat, NEW s \in SUBSET (1 .. m), s # {}
  PROVE  /\ Max(s) \in s
         /\ m \in s => Max(s) = m
<1> DEFINE Down == {m - x : x \in s}
<1>1. Down \in SUBSET Nat /\ Down # {}
  <2>1. PICK y \in s : TRUE
    OBVIOUS
  <2>2. \A x \in s : m - x \in Nat
    OBVIOUS
  <2> QED
    BY <2>1, <2>2
<1>2. PICK d \in Down : \A l \in Down : d <= l
  BY <1>1, LeastNat
<1>3. PICK x \in s : d = m - x
  BY <1>2
<1>4. \A y \in s : m - x <= m - y
  BY <1>2, <1>3
<1>5. \A y \in s : x >= y
  BY <1>4
<1>6. Max(s) \in s /\ \A y \in s : Max(s) >= y
  BY <1>3, <1>5 DEF Max
<1>7. m \in s => Max(s) = m
  <2>1. Max(s) \in 1 .. m
    BY <1>6
  <2> HIDE DEF Down
  <2>2. m \in s => Max(s) >= m
    BY <1>6
  <2> QED
    BY <2>1, <2>2
<1> QED
  BY <1>6, <1>7

\* What a fold of accesses keeps: a place for each set and a count.
Counted(s) == DOMAIN s.cache = Sets /\ s.misses \in Nat

LEMMA AccessKeeps ==
  ASSUME NEW s, NEW e, Counted(s)
  PROVE  Counted(Access(s, e))
<1> DEFINE block == (e[2] * (IF e[1] = "A" THEN M ELSE N) + e[3]) \div 8
           line  == <<e[1], block>>
           other == [cache |-> [s.cache EXCEPT ![block % 32] = line], misses |-> s.misses + 1]
<1>1. Access(s, e) = s \/ Access(s, e) = other
  BY DEF Access
<1> HIDE DEF block, line
<1>2. other.cache = [s.cache EXCEPT ![block % 32] = line] /\ other.misses = s.misses + 1
  OBVIOUS
<1>3. Counted(other)
  BY <1>2 DEF Counted
<1> QED
  BY <1>1, <1>3

LEMMA FoldIn ==
  ASSUME NEW base, Counted(base), NEW T, NEW seq \in Seq(T)
  PROVE  Counted(FoldLeft(Access, base, seq))
<1> DEFINE n == Len(seq)
           Step(g, s) == IF s = {} THEN base ELSE Access(g[s \ {Max(s)}], seq[Max(s)])
           Obeys(g, m) == g = [s \in SUBSET (1 .. m) |-> Step(g, s)]
           P(f) == f = [s \in SUBSET DOMAIN seq |-> Step(f, s)]
           F == CHOOSE f : P(f)
<1>1. n \in Nat /\ DOMAIN seq = 1 .. n
  OBVIOUS
<1>2. FoldLeft(Access, base, seq) = F[DOMAIN seq]
  BY DEF FoldLeft, MapThenFoldSet
<1>3. ASSUME NEW m \in 1 .. n, NEW s \in SUBSET (1 .. m)
      PROVE  \/ m \in s /\ Max(s) = m /\ s \ {m} \in SUBSET (1 .. m - 1)
             \/ m \notin s /\ s \in SUBSET (1 .. m - 1)
                /\ (s # {} => Max(s) \in s /\ s \ {Max(s)} \in SUBSET (1 .. m - 1))
  <2>1. \A x \in s : x # m => x \in 1 .. m - 1
    BY <1>1
  <2>2. s # {} => Max(s) \in s /\ (m \in s => Max(s) = m)
    BY <1>1, MaxIs
  <2> QED
    BY <2>1, <2>2
<1>4. ASSUME NEW m \in 1 .. n, NEW g, Obeys(g, m - 1)
      PROVE  \E h : Obeys(h, m)
  <2> DEFINE h == [s \in SUBSET (1 .. m) |-> IF m \in s THEN Access(g[s \ {m}], seq[m]) ELSE g[s]]
  <2>1. \A s \in SUBSET (1 .. m - 1) : g[s] = Step(g, s)
    BY <1>4
  <2>2. \A s \in SUBSET (1 .. m - 1) : s \in SUBSET (1 .. m) /\ m \notin s
    BY <1>1
  <2>3. \A s \in SUBSET (1 .. m - 1) : h[s] = g[s]
    BY <2>2
  <2>4. ASSUME NEW s \in SUBSET (1 .. m)
        PROVE  h[s] = Step(h, s)
    <3>1. CASE m \in s
      <4>1. h[s] = Access(g[s \ {m}], seq[m])
        BY <3>1
      <4>2. Max(s) = m /\ h[s \ {m}] = g[s \ {m}]
        BY <1>3, <2>3, <3>1
      <4> HIDE DEF h
      <4> QED
        BY <3>1, <4>1, <4>2
    <3>2. CASE m \notin s
      <4>1. h[s] = g[s] /\ g[s] = Step(g, s)
        BY <1>3, <2>1, <3>2
      <4>2. s # {} => h[s \ {Max(s)}] = g[s \ {Max(s)}]
        BY <1>3, <2>3, <3>2
      <4> HIDE DEF h
      <4> QED
        BY <4>1, <4>2
    <3> QED
      BY <3>1, <3>2
  <2>5. h = [s \in SUBSET (1 .. m) |-> h[s]]
    OBVIOUS
  <2> HIDE DEF h, Step
  <2>6. Obeys(h, m)
    BY <2>4, <2>5
  <2> QED
    BY <2>6
<1> DEFINE Good == {m \in 0 .. n : \E g : Obeys(g, m)}
           Kept(m) == \A s \in SUBSET (1 .. m) : Counted(F[s])
           Fine == {m \in 0 .. n : Kept(m)}
<1>5. 0 \in Good
  <2>1. Obeys([s \in SUBSET (1 .. 0) |-> base], 0)
    OBVIOUS
  <2> HIDE DEF Obeys
  <2> QED
    BY <1>1, <2>1
<1>6. \E g : Obeys(g, n)
  <2> HIDE DEF Obeys
  <2>1. \A m \in 1 .. n : m - 1 \in Good => m \in Good
    BY <1>1, <1>4
  <2>2. Good \in SUBSET (0 .. n)
    OBVIOUS
  <2> HIDE DEF Good, n
  <2>3. \A m \in 0 .. n : m \in Good
    BY <1>1, <1>5, <2>1, <2>2, UpTo
  <2>4. n \in Good
    BY <1>1, <2>3
  <2> QED
    BY <2>4 DEF Good
<1>7. P(F)
  <2>1. \A f : Obeys(f, n) => P(f)
    <3> HIDE DEF Step, n
    <3> QED
      BY <1>1
  <2> HIDE DEF P, Obeys
  <2>2. \E f : P(f)
    BY <1>6, <2>1
  <2> QED
    BY <2>2, Zenon
<1> HIDE DEF F
<1>8. \A s \in SUBSET (1 .. n) : F[s] = Step(F, s)
  BY <1>1, <1>7
<1>9. 0 \in Fine
  <2>1. {} \in SUBSET (1 .. n) /\ F[{}] = Step(F, {})
    BY <1>8
  <2>2. \A s \in SUBSET (1 .. 0) : s = {}
    OBVIOUS
  <2>3. Step(F, {}) = base
    OBVIOUS
  <2>4. \A s \in SUBSET (1 .. 0) : Counted(F[s])
    BY <2>1, <2>2, <2>3
  <2>5. Kept(0)
    BY <2>4
  <2> HIDE DEF Kept
  <2> QED
    BY <1>1, <2>5
<1>10. ASSUME NEW m \in 1 .. n, Kept(m - 1)
       PROVE  Kept(m)
  <2> SUFFICES ASSUME NEW s \in SUBSET (1 .. m) PROVE Counted(F[s])
    OBVIOUS
  <2>1. s \in SUBSET (1 .. n)
    BY <1>1
  <2>2. s = {} \/ F[s] = Access(F[s \ {Max(s)}], seq[Max(s)])
    BY <1>8, <2>1
  <2>3. s # {} => Counted(F[s \ {Max(s)}])
    BY <1>3, <1>10
  <2>4. s # {} => Counted(Access(F[s \ {Max(s)}], seq[Max(s)]))
    BY <2>3, AccessKeeps
  <2> QED
    BY <1>8, <2>1, <2>2, <2>4
<1>11. \A m \in 1 .. n : m - 1 \in Fine => m \in Fine
  <2> HIDE DEF Kept
  <2> QED
    BY <1>1, <1>10
<1>12. Kept(n)
  <2> HIDE DEF Kept
  <2>1. Fine \in SUBSET (0 .. n)
    OBVIOUS
  <2> HIDE DEF Fine, n
  <2>2. \A m \in 0 .. n : m \in Fine
    BY <1>1, <1>9, <1>11, <2>1, UpTo
  <2>3. n \in Fine
    BY <1>1, <2>2
  <2> QED
    BY <2>3 DEF Fine
<1> QED
  BY <1>1, <1>2, <1>12

-------------------------------------------------------------------------------
(* The places a pass touches.                                                  *)

Elems == {Elem("A", r, c) : r \in Cols, c \in Rows} \union {Elem("B", r, c) : r \in Rows, c \in Cols}

LEMMA ElemIn ==
  ASSUME NEW r \in Cols, NEW c \in Rows
  PROVE  Elem("A", r, c) \in Elems /\ Elem("B", c, r) \in Elems
BY DEF Elems

\* Where the blocks of each loop end.
LEMMA Corners ==
  ASSUME PlaceOK, k < Passes
  PROVE  /\ pc \in {"copy", "swap", "top", "bottom"} => i + 8 <= N /\ j + 8 <= M
         /\ pc \in {"copy", "swap"} => k < 8
         /\ pc \in {"top", "bottom"} => k < 4
         /\ pc = "strip" => i + 8 <= N /\ j + 23 <= M /\ k < 23
         /\ pc = "edge"  => i + k < N /\ EdgeEnd \in j + 1 .. M
         /\ pc = "row"   => i < N /\ k = 0
         /\ pc # "done"
<1>1. pc \in {"copy", "swap", "top", "bottom"} => i + 8 <= N /\ j + 8 <= M
  BY DEF PlaceOK
<1>2. pc # "done"
  BY Limits DEF PlaceOK
<1>3. pc = "strip" => i + 8 <= N /\ j + 23 <= M
  BY DEF PlaceOK, Whole
<1>4. pc = "edge" => i + k < N
  BY Limits DEF PlaceOK, Passes
<1>5. pc = "edge" => EdgeEnd \in j + 1 .. M
  BY DEF PlaceOK, EdgeEnd
<1> QED
  BY <1>1, <1>2, <1>3, <1>4, <1>5, Limits DEF PlaceOK

LEMMA RowIn ==
  ASSUME NEW m, NEW r, NEW c, NEW n \in Nat,
         \A x \in 1 .. n : Elem(m, r, c + x - 1) \in Elems
  PROVE  Row(m, r, c, n) \in Seq(Elems)
BY DEF Row

LEMMA ColIn ==
  ASSUME NEW m, NEW r, NEW c, NEW n \in Nat,
         \A x \in 1 .. n : Elem(m, r + x - 1, c) \in Elems
  PROVE  Col(m, r, c, n) \in Seq(Elems)
BY DEF Col

LEMMA JoinIn ==
  ASSUME NEW s \in Seq(Elems), NEW u \in Seq(Elems)
  PROVE  s \o u \in Seq(Elems)
OBVIOUS

LEMMA SwappedIn ==
  ASSUME PlaceOK, k < Passes, pc = "swap"
  PROVE  Swapped \in Seq(Elems)
<1>1. M = 32 /\ N = 32 /\ i + 8 <= N /\ j + 8 <= M /\ k \in 0 .. 7 /\ i \in Nat /\ j \in Nat
  BY Corners DEF PlaceOK
<1> DEFINE b(x) == Elem("B", k + j, k + x + i)
           c(x) == Elem("B", k + x + j, k + i)
           seqs == [x \in 1 .. 7 - k |-> <<b(x), c(x), b(x), c(x)>>]
<1>2. ASSUME NEW x \in 1 .. 7 - k PROVE b(x) \in Elems /\ c(x) \in Elems
  <2>1. k + j \in Rows /\ k + x + i \in Cols /\ k + x + j \in Rows /\ k + i \in Cols
    BY <1>1 DEF Rows, Cols
  <2> QED
    BY <2>1, ElemIn
<1>3. seqs \in Seq(Seq(Elems))
  <2> HIDE DEF b, c
  <2>1. \A x \in 1 .. 7 - k : <<b(x), c(x), b(x), c(x)>> \in Seq(Elems)
    BY <1>2
  <2> QED
    BY <1>1, <2>1
<1>4. Swapped = FlattenSeq(seqs)
  BY DEF Swapped
<1> HIDE DEF seqs
<1> QED
  BY <1>3, <1>4, FlattenIn

LEMMA CopiedIn ==
  ASSUME PlaceOK, k < Passes, pc = "copy"
  PROVE  Copied \in Seq(Elems)
<1>1. i + 8 <= N /\ j + 8 <= M /\ k \in 0 .. 7 /\ i \in Nat /\ j \in Nat /\ M \in Nat /\ N \in Nat
  BY Corners DEF PlaceOK
<1>2. ASSUME NEW x \in 1 .. 8
      PROVE  Elem("A", i + k, j + x - 1) \in Elems /\ Elem("B", j + k, i + x - 1) \in Elems
  BY <1>1, ElemIn DEF Rows, Cols
<1> QED
  BY <1>2, RowIn, JoinIn DEF Copied

LEMMA TopIn ==
  ASSUME PlaceOK, k < Passes, pc = "top"
  PROVE  TopPass \in Seq(Elems)
<1>1. i + 8 <= N /\ j + 8 <= M /\ k \in 0 .. 3 /\ i \in Nat /\ j \in Nat /\ M \in Nat /\ N \in Nat
  BY Corners DEF PlaceOK
<1>2. ASSUME NEW x \in 1 .. 8 PROVE Elem("A", k + i, j + x - 1) \in Elems
  BY <1>1, ElemIn DEF Rows, Cols
<1>3. ASSUME NEW x \in 1 .. 4
      PROVE  Elem("B", j + x - 1, k + i) \in Elems /\ Elem("B", j + x - 1, k + 4 + i) \in Elems
  BY <1>1, ElemIn DEF Rows, Cols
<1>4. Row("A", k + i, j, 8) \in Seq(Elems)
  BY <1>2, RowIn
<1>5. Col("B", j, k + i, 4) \in Seq(Elems) /\ Col("B", j, k + 4 + i, 4) \in Seq(Elems)
  BY <1>3, ColIn
<1> QED
  BY <1>4, <1>5, JoinIn DEF TopPass

LEMMA BottomIn ==
  ASSUME PlaceOK, k < Passes, pc = "bottom"
  PROVE  BottomPass \in Seq(Elems)
<1>1. i + 8 <= N /\ j + 8 <= M /\ k \in 0 .. 3 /\ i \in Nat /\ j \in Nat /\ M \in Nat /\ N \in Nat
  BY Corners DEF PlaceOK
<1> DEFINE a(x) == Elem("A", i + 3 + x, j + k)
           b(x) == Elem("A", i + 3 + x, j + k + 4)
           c(x) == Elem("B", j + k + 4, i + x - 1)
           d(x) == Elem("B", j + k + 4, i + 3 + x)
           first == [x \in 1 .. 4 |-> <<a(x), b(x)>>]
           last  == [x \in 1 .. 4 |-> <<c(x), d(x)>>]
<1>2. ASSUME NEW x \in 1 .. 4
      PROVE  a(x) \in Elems /\ b(x) \in Elems /\ c(x) \in Elems /\ d(x) \in Elems
  <2>1. i + 3 + x \in Cols /\ j + k \in Rows /\ j + k + 4 \in Rows /\ i + x - 1 \in Cols
    BY <1>1 DEF Rows, Cols
  <2> QED
    BY <2>1, ElemIn
<1>3. \A x \in 1 .. 4 : Elem("B", j + k, i + 4 + x - 1) \in Elems
  <2>1. \A x \in 1 .. 4 : i + 4 + x - 1 \in Cols /\ j + k \in Rows
    BY <1>1 DEF Rows, Cols
  <2> QED
    BY <2>1, ElemIn
<1>4. first \in Seq(Seq(Elems)) /\ last \in Seq(Seq(Elems))
  <2> HIDE DEF a, b, c, d
  <2>1. \A x \in 1 .. 4 : <<a(x), b(x)>> \in Seq(Elems) /\ <<c(x), d(x)>> \in Seq(Elems)
    BY <1>2
  <2> QED
    BY <2>1
<1>5. Row("B", j + k, i + 4, 4) \in Seq(Elems)
  BY <1>3, RowIn
<1>6. BottomPass = FlattenSeq(first) \o Row("B", j + k, i + 4, 4) \o FlattenSeq(last)
  BY DEF BottomPass
<1> HIDE DEF first, last
<1>7. FlattenSeq(first) \in Seq(Elems) /\ FlattenSeq(last) \in Seq(Elems)
  BY <1>4, FlattenIn
<1> QED
  BY <1>5, <1>6, <1>7, JoinIn

LEMMA StripIn ==
  ASSUME PlaceOK, k < Passes, pc = "strip"
  PROVE  StripPass \in Seq(Elems)
<1>1. i + 8 <= N /\ j + 23 <= M /\ k \in 0 .. 22 /\ i \in Nat /\ j \in Nat /\ M \in Nat /\ N \in Nat
  BY Corners DEF PlaceOK
<1>2. ASSUME NEW x \in 1 .. 8
      PROVE  Elem("A", i + x - 1, j + k) \in Elems /\ Elem("B", j + k, i + x - 1) \in Elems
  BY <1>1, ElemIn DEF Rows, Cols
<1> QED
  BY <1>2, RowIn, ColIn, JoinIn DEF StripPass

LEMMA EdgeIn ==
  ASSUME PlaceOK, k < Passes, pc = "edge"
  PROVE  EdgePass \in Seq(Elems)
<1>1. i + k < N /\ EdgeEnd \in j + 1 .. M /\ k \in Nat /\ i \in Nat /\ j \in Nat /\ M \in Nat /\ N \in Nat
  BY Corners DEF PlaceOK
<1> DEFINE n == EdgeEnd - j
           a(x) == Elem("A", i + k, j + x - 1)
           b(x) == Elem("B", j + x - 1, i + k)
           seqs == [x \in 1 .. n |-> <<a(x), b(x)>>]
<1>2. n \in Nat
  BY <1>1
<1>3. ASSUME NEW x \in 1 .. n PROVE a(x) \in Elems /\ b(x) \in Elems
  <2>1. i + k \in Cols /\ j + x - 1 \in Rows
    BY <1>1 DEF Rows, Cols
  <2> QED
    BY <2>1, ElemIn
<1>4. seqs \in Seq(Seq(Elems))
  <2> HIDE DEF a, b, n
  <2>1. \A x \in 1 .. n : <<a(x), b(x)>> \in Seq(Elems)
    BY <1>3
  <2> QED
    BY <1>2, <2>1
<1>5. EdgePass = FlattenSeq(seqs)
  BY DEF EdgePass
<1> HIDE DEF seqs
<1> QED
  BY <1>4, <1>5, FlattenIn

LEMMA RowPassIn ==
  ASSUME PlaceOK, k < Passes, pc = "row"
  PROVE  RowPass \in Seq(Elems)
<1>1. i < N /\ i \in Nat /\ M \in Nat /\ N \in Nat
  BY Corners DEF PlaceOK
<1> DEFINE a(x) == Elem("A", i, x - 1)
           b(x) == Elem("B", x - 1, i)
           seqs == [x \in 1 .. M |-> <<a(x), b(x)>>]
<1>2. ASSUME NEW x \in 1 .. M PROVE a(x) \in Elems /\ b(x) \in Elems
  <2>1. i \in Cols /\ x - 1 \in Rows
    BY <1>1 DEF Rows, Cols
  <2> QED
    BY <2>1, ElemIn
<1>3. seqs \in Seq(Seq(Elems))
  <2> HIDE DEF a, b
  <2>1. \A x \in 1 .. M : <<a(x), b(x)>> \in Seq(Elems)
    BY <1>2
  <2> QED
    BY <1>1, <2>1
<1>4. RowPass = FlattenSeq(seqs)
  BY DEF RowPass
<1> HIDE DEF seqs
<1> QED
  BY <1>3, <1>4, FlattenIn

\* A pass touches only places of the two matrices.
LEMMA PassIn ==
  ASSUME PlaceOK, k < Passes
  PROVE  Pass \in Seq(Elems) /\ Rated \in Seq(Elems)
<1>1. pc \in {"copy", "swap", "top", "bottom", "strip", "edge", "row"}
  BY Corners DEF PlaceOK
<1>2. Pass \in Seq(Elems)
  BY <1>1, CopiedIn, SwappedIn, TopIn, BottomIn, StripIn, EdgeIn, RowPassIn DEF Pass
<1>3. <<>> \in Seq(Elems)
  OBVIOUS
<1> QED
  BY <1>2, <1>3 DEF Rated

-------------------------------------------------------------------------------
(* Types.                                                                      *)

Filled == DOMAIN B = CellsB /\ \A r \in Rows, c \in Cols : B[<<r, c>>] \in CellsA \union {Unset}
TInv == /\ IInv
        /\ Filled
        /\ DOMAIN cache = Sets /\ misses \in Nat
        /\ pc = "done" => j = 0 /\ k = 0

\* Every loop puts elements of A into B, or moves what is there.
LEMMA ValueIn ==
  ASSUME PlaceOK, Filled, k < Passes, NEW r \in Rows, NEW c \in Cols
  PROVE  Value(r, c) \in CellsA \union {Unset}
<1>1. /\ i \in Nat /\ j \in Nat /\ k \in Nat /\ M \in Nat /\ N \in Nat
      /\ r \in Nat /\ c \in Nat /\ r < M /\ c < N
      /\ pc \in {"copy", "swap", "top", "bottom", "strip", "edge", "row"}
  BY Corners DEF PlaceOK, Rows, Cols
<1>2. \A x \in Cols, y \in Rows : <<x, y>> \in CellsA
  BY DEF CellsA, Rows, Cols
<1>3. \A x \in Rows, y \in Cols : B[<<x, y>>] \in CellsA \union {Unset}
  BY DEF Filled
<1>4. <<c, r>> \in CellsA
  BY <1>2
<1>5. CASE pc = "copy"
  <2>1. CopyValue(r, c) = <<i + k, j + c - i>> \/ CopyValue(r, c) = B[<<r, c>>]
    BY DEF CopyValue
  <2>2. c \in i .. i + 7 => i + k \in Cols /\ j + c - i \in Rows
    BY <1>1, <1>5, Corners DEF Cols, Rows
  <2> QED
    BY <1>2, <1>3, <1>5, <2>1, <2>2, Values DEF CopyValue
<1>6. CASE pc = "swap"
  <2>1. c \in i + k + 1 .. i + 7 => c - i + j \in Rows /\ k + i \in Cols
    BY <1>1, <1>6, Corners DEF Cols, Rows
  <2>2. r \in j + k + 1 .. j + 7 => k + j \in Rows /\ r - j + i \in Cols
    BY <1>1, <1>6, Corners DEF Cols, Rows
  <2>3. \/ c \in i + k + 1 .. i + 7 /\ SwapValue(r, c) = B[<<c - i + j, k + i>>]
        \/ r \in j + k + 1 .. j + 7 /\ SwapValue(r, c) = B[<<k + j, r - j + i>>]
        \/ SwapValue(r, c) = B[<<r, c>>]
    BY DEF SwapValue
  <2>4. SwapValue(r, c) \in CellsA \union {Unset}
    BY <1>3, <2>1, <2>2, <2>3
  <2> QED
    BY <1>6, <2>4, Values
<1>7. CASE pc = "top"
  <2>1. r \in j .. j + 3 /\ c = k + 4 + i => c - 4 \in Cols /\ r + 4 \in Rows
    BY <1>1, <1>7, Corners DEF Cols, Rows
  <2>2. \/ TopValue(r, c) = <<c, r>> \/ TopValue(r, c) = B[<<r, c>>]
        \/ r \in j .. j + 3 /\ c = k + 4 + i /\ TopValue(r, c) = <<c - 4, r + 4>>
    BY DEF TopValue
  <2>3. TopValue(r, c) \in CellsA \union {Unset}
    BY <1>2, <1>3, <1>4, <2>1, <2>2
  <2> QED
    BY <1>7, <2>3, Values
<1>8. CASE pc = "bottom"
  <2>1. r = j + k + 4 /\ c \in i .. i + 3 => r - 4 \in Rows /\ c + 4 \in Cols
    BY <1>1, <1>8, Corners DEF Cols, Rows
  <2>2. \/ BottomValue(r, c) = <<c, r>> \/ BottomValue(r, c) = B[<<r, c>>]
        \/ r = j + k + 4 /\ c \in i .. i + 3 /\ BottomValue(r, c) = B[<<r - 4, c + 4>>]
    BY DEF BottomValue
  <2>3. BottomValue(r, c) \in CellsA \union {Unset}
    BY <1>3, <1>4, <2>1, <2>2
  <2> QED
    BY <1>8, <2>3, Values
<1>9. CASE pc = "strip"
  BY <1>3, <1>4, <1>9, Values DEF StripValue
<1>10. CASE pc = "edge"
  BY <1>3, <1>4, <1>10, Values DEF EdgeValue
<1>11. CASE pc = "row"
  BY <1>3, <1>4, <1>11, Values DEF RowValue
<1> QED
  BY <1>1, <1>5, <1>6, <1>7, <1>8, <1>9, <1>10, <1>11

LEMMA InitTypes == Init => TInv
<1> SUFFICES ASSUME Init PROVE TInv
  OBVIOUS
<1>1. IInv
  BY InitInv
<1>2. PICK s \in Sizes, f \in Registered : pc = Start(f)
  BY DEF Init
<1>3. pc # "done"
  BY <1>2 DEF Start
<1>4. B = [c \in CellsB |-> Unset]
  BY DEF Init
<1>5. Filled
  <2>1. \A r \in Rows, c \in Cols : <<r, c>> \in CellsB
    BY DEF Rows, Cols, CellsB
  <2> QED
    BY <1>4, <2>1 DEF Filled
<1> QED
  BY <1>1, <1>3, <1>5 DEF TInv, Init

LEMMA PassTypes ==
  ASSUME TInv, OnePass
  PROVE  TInv'
<1>1. IInv'
  BY PassInv DEF TInv
<1>2. pc # "done" /\ k < Passes /\ M' = M /\ N' = N /\ pc' = pc
  BY PassFacts DEF TInv
<1>3. CellsA' = CellsA /\ CellsB' = CellsB /\ Rows' = Rows /\ Cols' = Cols
  BY <1>2 DEF CellsA, CellsB, Rows, Cols
<1>4. Filled'
  <2>1. DOMAIN B' = CellsB
    BY DEF OnePass
  <2>2. \A r \in Rows, c \in Cols : B'[<<r, c>>] = Value(r, c)
    BY PassFacts DEF TInv
  <2>3. \A r \in Rows, c \in Cols : Value(r, c) \in CellsA \union {Unset}
    BY <1>2, ValueIn DEF TInv, IInv
  <2>4. Unset' = Unset
    BY DEF Unset
  <2> QED
    BY <1>3, <2>1, <2>2, <2>3, <2>4 DEF Filled
<1>5. DOMAIN cache' = Sets /\ misses' \in Nat
  <2> DEFINE base == [cache |-> cache, misses |-> misses]
  <2>1. Counted(base)
    BY DEF Counted, TInv
  <2>2. Rated \in Seq(Elems)
    BY <1>2, PassIn DEF TInv, IInv
  <2> HIDE DEF base
  <2>3. Counted(FoldLeft(Access, base, Rated))
    BY <2>1, <2>2, FoldIn
  <2> QED
    BY <2>3 DEF OnePass, Counted, base
<1>6. Sets' = Sets
  BY DEF Sets
<1> QED
  BY <1>1, <1>2, <1>4, <1>5, <1>6 DEF TInv

LEMMA NextLoopTypes ==
  ASSUME TInv, NextLoop
  PROVE  TInv'
<1>1. IInv'
  BY NextLoopInv DEF TInv
<1>2. pc' # "done" /\ M' = M /\ N' = N /\ B' = B /\ cache' = cache /\ misses' = misses
  BY DEF NextLoop
<1>3. Filled'
  BY <1>2 DEF TInv, Filled, CellsA, CellsB, Rows, Cols, Unset
<1> QED
  BY <1>1, <1>2, <1>3 DEF TInv, Sets

LEMMA NextBlockTypes ==
  ASSUME TInv, NextBlock
  PROVE  TInv'
<1>1. IInv'
  BY NextBlockInv DEF TInv
<1>2. M' = M /\ N' = N /\ B' = B /\ cache' = cache /\ misses' = 0 /\ k' = 0
  BY DEF NextBlock
<1>3. Filled'
  BY <1>2 DEF TInv, Filled, CellsA, CellsB, Rows, Cols, Unset
<1>4. i < N
  BY DEF TInv, IInv, PlaceOK, NextBlock
<1>5. pc' = "done" => j' = 0
  <2>1. i' >= N /\ ~More => j' = 0
    BY DEF NextBlock
  <2>2. More => i' = i
    BY DEF NextBlock
  <2>3. pc' = "done" => i' >= N
    BY <1>2 DEF NextBlock, Start
  <2>4. i \in Nat /\ N \in Nat
    BY DEF TInv, IInv, PlaceOK
  <2> QED
    BY <1>4, <2>1, <2>2, <2>3, <2>4
<1> QED
  BY <1>1, <1>2, <1>3, <1>5 DEF TInv, Sets

\* A pass stays within the two matrices, whatever their size: it reads and writes
\* no place outside them, what it leaves in B came from A, and the indices of
\* the loops keep their ranges (trans.c:24-142 and 153-163).
THEOREM PlacesExist == Spec => []TypeOK
<1>1. Init => TInv
  BY InitTypes
<1>2. TInv /\ [Next]_vars => TInv'
  <2> SUFFICES ASSUME TInv, [Next]_vars PROVE TInv'
    OBVIOUS
  <2>1. CASE Copy \/ Swap \/ Top \/ Bottom \/ Strip \/ Edge \/ trans
    BY <2>1, PassTypes DEF Copy, Swap, Top, Bottom, Strip, Edge, trans
  <2>2. CASE NextLoop
    BY <2>2, NextLoopTypes
  <2>3. CASE NextBlock
    BY <2>3, NextBlockTypes
  <2>4. CASE UNCHANGED vars
    <3>1. IInv'
      BY <2>4, Unmoved DEF TInv
    <3> QED
      BY <2>4, <3>1 DEF vars, TInv, Filled, CellsA, CellsB, Rows, Cols, Unset, Sets
  <2>5. CASE Done
    BY <2>4, <2>5 DEF Done
  <2> QED
    BY <2>1, <2>2, <2>3, <2>4, <2>5 DEF Next
<1>3. TInv => TypeOK
  <2> SUFFICES ASSUME TInv PROVE TypeOK
    OBVIOUS
  <2>1. PlaceOK
    BY DEF TInv, IInv
  <2>2. pc = "done" => Passes = 0
    BY <2>1, Limits
  <2>3. Passes \in Nat
    BY <2>1, Limits DEF PlaceOK
  <2>4. /\ <<M, N>> \in Sizes /\ i \in Nat /\ j \in 0 .. M - 1
        /\ k \in 0 .. Passes
    BY <2>1, <2>2, <2>3 DEF TInv, PlaceOK
  <2>5. \A c \in CellsB : B[c] \in CellsA \union {Unset}
    <3>1. \A c \in CellsB : c = <<c[1], c[2]>> /\ c[1] \in Rows /\ c[2] \in Cols
      BY DEF CellsB, Rows, Cols
    <3> QED
      BY <3>1 DEF TInv, Filled
  <2>6. ASSUME k < Passes, NEW x \in DOMAIN Pass
        PROVE  <<Pass[x][2], Pass[x][3]>> \in IF Pass[x][1] = "A" THEN CellsA ELSE CellsB
    <3>1. Pass[x] \in Elems
      BY <2>1, <2>6, PassIn
    <3>2. \A e \in Elems : <<e[2], e[3]>> \in IF e[1] = "A" THEN CellsA ELSE CellsB
      BY DEF Elems, Elem, CellsA, CellsB, Rows, Cols
    <3> QED
      BY <3>1, <3>2
  <2> QED
    BY <2>4, <2>5, <2>6 DEF TypeOK, TInv, Filled
<1> QED
  BY <1>1, <1>2, <1>3, PTL DEF Spec
===============================================================================
