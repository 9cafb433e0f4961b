---------------------------------- MODULE Trans ----------------------------------
(***************************************************************************)
(* The two registered functions: transpose_submit, by which B becomes the  *)
(* transpose of A block by block, and trans, which does it row by row.     *)
(* Every element of A is its own place, <<row, column>>.  A step is one    *)
(* pass of the loop nearest to the straight-line code, or one row of       *)
(* trans, which is a block of its own.  The elements a step of             *)
(* transpose_submit touches, in their order, go through the cache it is    *)
(* rated on: 1 KB, direct mapped, blocks of 32 bytes (trans.c:7-8).        *)
(***************************************************************************)
EXTENDS Integers, SequencesExt

CONSTANT Sizes                          \* the values of <<M, N>>

\* The blocks of the M = 32 and M = 64 branches are whole, the first for square matrices.
ASSUME SizesAssumption ==
  \A s \in Sizes : /\ s \in (Nat \ {0}) \X (Nat \ {0})
                   /\ s[1] = 32 => s[2] = 32
                   /\ s[1] = 64 => s[2] % 8 = 0

VARIABLES M, N, pc, i, j, k, B,
          cache,      \* the block of A or B in each set
          misses      \* since the current block was begun
vars == <<M, N, pc, i, j, k, B, cache, misses>>

CellsA == (0 .. N - 1) \X (0 .. M - 1)
CellsB == (0 .. M - 1) \X (0 .. N - 1)
Unset  == <<>>                          \* what B holds before
Transposed(c) == B[c] = <<c[2], c[1]>>
is_transpose  == \A c \in CellsB : Transposed(c)
Sets   == 0 .. 31
NoBlock == <<"none", 0>>

\* Of a block, in rows and columns of A.
Height    == IF pc = "row" THEN 1 ELSE 8
Width     == CASE pc = "row" -> M [] pc # "row" /\ M \in {32, 64} -> 8 [] OTHER -> 23
Columns   == IF M = 32 THEN N ELSE M               \* the limit of j
Whole_BugRowsOnly == i + 8 <= N
Whole     == i + 8 <= N /\ j + 23 <= M

\* Elements <<matrix, row, column>>; a row of n of them from a column on.
Elem(m, r, c)   == <<m, r, c>>
Row(m, r, c, n) == [x \in 1 .. n |-> Elem(m, r, c + x - 1)]
Col(m, r, c, n) == [x \in 1 .. n |-> Elem(m, r + x - 1, c)]

\* One access: a hit, or a miss that loads the block.
Access(s, e) ==
  LET block == (e[2] * (IF e[1] = "A" THEN M ELSE N) + e[3]) \div 8
      line  == <<e[1], block>>
  IN  IF s.cache[block % 32] = line THEN s
      ELSE [cache |-> [s.cache EXCEPT ![block % 32] = line], misses |-> s.misses + 1]

\* The functions the driver evaluates, each on a B of its own, and where they begin.
Registered == {"transpose_submit", "trans"}
Start(f) == CASE f = "trans" -> "row"
              [] OTHER       -> CASE M = 32 -> "copy" [] M = 64 -> "top"
                                  [] OTHER -> IF Whole THEN "strip" ELSE "edge"

Init ==
  /\ \E s \in Sizes : M = s[1] /\ N = s[2]
  /\ i = 0 /\ j = 0 /\ k = 0
  /\ \E f \in Registered : pc = Start(f)
  /\ B = [c \in CellsB |-> Unset]
  /\ cache = [s \in Sets |-> NoBlock] /\ misses = 0

-------------------------------------------------------------------------------
(* What a pass touches, and what it leaves in B. *)

Copied_BugNoTemporaries ==
  FlattenSeq([x \in 1 .. 8 |-> <<Elem("A", i + k, j + x - 1), Elem("B", j + k, i + x - 1)>>])
Copied      == Row("A", i + k, j, 8) \o Row("B", j + k, i, 8)
Swapped     == FlattenSeq([x \in 1 .. 7 - k |->
                 LET b == Elem("B", k + j, k + x + i)
                     c == Elem("B", k + x + j, k + i) IN <<b, c, b, c>>])
TopPass     == Row("A", k + i, j, 8) \o Col("B", j, k + i, 4) \o Col("B", j, k + 4 + i, 4)
BottomPass  ==
  FlattenSeq([x \in 1 .. 4 |-> <<Elem("A", i + 3 + x, j + k), Elem("A", i + 3 + x, j + k + 4)>>])
  \o Row("B", j + k, i + 4, 4)
  \o FlattenSeq([x \in 1 .. 4 |-> <<Elem("B", j + k + 4, i + x - 1), Elem("B", j + k + 4, i + 3 + x)>>])
StripPass   == Col("A", i, j + k, 8) \o Row("B", j + k, i, 8)
EdgeEnd     == IF j + 23 < M THEN j + 23 ELSE M
EdgePass    == FlattenSeq([x \in 1 .. EdgeEnd - j |->
                 <<Elem("A", i + k, j + x - 1), Elem("B", j + x - 1, i + k)>>])
RowPass     == FlattenSeq([x \in 1 .. M |-> <<Elem("A", i, x - 1), Elem("B", x - 1, i)>>])

Pass == CASE pc = "copy" -> Copied     [] pc = "swap"   -> Swapped
          [] pc = "top"  -> TopPass    [] pc = "bottom" -> BottomPass
          [] pc = "strip" -> StripPass [] pc = "edge"   -> EdgePass
          [] pc = "row"  -> RowPass    [] pc = "done"   -> <<>>

\* Only transpose_submit is graded on its misses (trans.c:15-20).
Rated == IF pc = "row" THEN <<>> ELSE Pass

\* The rows j .. j + 7 get the rows of A; the swaps transpose them.
CopyValue(r, c)  == IF r = j + k /\ c \in i .. i + 7 THEN <<i + k, j + c - i>> ELSE B[<<r, c>>]
SwapValue(r, c)  == CASE r = k + j /\ c \in i + k + 1 .. i + 7 -> B[<<c - i + j, k + i>>]
                      [] c = k + i /\ r \in j + k + 1 .. j + 7 -> B[<<k + j, r - j + i>>]
                      [] OTHER -> B[<<r, c>>]
\* The top right of A is kept in the top right of B until its place is free.
TopValue(r, c)    == CASE r \in j .. j + 3 /\ c = k + i     -> <<c, r>>
                       [] r \in j .. j + 3 /\ c = k + 4 + i -> <<c - 4, r + 4>>
                       [] OTHER -> B[<<r, c>>]
\* The top right of B is overwritten before it is saved.
BottomValue_BugOrder(r, c) ==
  CASE r = j + k /\ c \in i + 4 .. i + 7     -> <<c, r>>
    [] r = j + k + 4 /\ c \in i .. i + 3     -> <<c + 4, r - 4>>
    [] r = j + k + 4 /\ c \in i + 4 .. i + 7 -> <<c, r>>
    [] OTHER -> B[<<r, c>>]
BottomValue(r, c) == CASE r = j + k /\ c \in i + 4 .. i + 7     -> <<c, r>>
                       [] r = j + k + 4 /\ c \in i .. i + 3     -> B[<<r - 4, c + 4>>]
                       [] r = j + k + 4 /\ c \in i + 4 .. i + 7 -> <<c, r>>
                       [] OTHER -> B[<<r, c>>]
StripValue(r, c)  == IF r = j + k /\ c \in i .. i + 7 THEN <<c, r>> ELSE B[<<r, c>>]
EdgeValue(r, c)   == IF c = i + k /\ r \in j .. EdgeEnd - 1 THEN <<c, r>> ELSE B[<<r, c>>]
RowValue(r, c)    == IF c = i THEN <<c, r>> ELSE B[<<r, c>>]

-------------------------------------------------------------------------------
\* The passes of the loop that is running.
Passes == CASE pc \in {"copy", "swap"}  -> 8
            [] pc \in {"top", "bottom"} -> 4
            [] pc = "strip"             -> 23
            [] pc = "edge"              -> IF i + 8 <= N THEN 8 ELSE N - i
            [] pc = "row"               -> 1
            [] pc = "done"              -> 0

Value(r, c) ==
  CASE pc = "copy" -> CopyValue(r, c)   [] pc = "swap"   -> SwapValue(r, c)
    [] pc = "top"  -> TopValue(r, c)    [] pc = "bottom" -> BottomValue(r, c)
    [] pc = "strip" -> StripValue(r, c) [] pc = "edge"   -> EdgeValue(r, c)
    [] pc = "row"   -> RowValue(r, c)

OnePass ==
  /\ k < Passes /\ k' = k + 1
  /\ B' = [c \in CellsB |-> Value(c[1], c[2])]
  /\ LET s == FoldLeft(Access, [cache |-> cache, misses |-> misses], Rated)
     IN  cache' = s.cache /\ misses' = s.misses
  /\ UNCHANGED <<M, N, pc, i, j>>

Copy   == pc = "copy"   /\ OnePass
Swap   == pc = "swap"   /\ OnePass
Top    == pc = "top"    /\ OnePass
Bottom == pc = "bottom" /\ OnePass
Strip  == pc = "strip"  /\ OnePass
Edge   == pc = "edge"   /\ OnePass
trans  == pc = "row"    /\ OnePass

\* The second loop over the same block.
NextLoop ==
  /\ k = Passes /\ pc \in {"copy", "top"}
  /\ pc' = (IF pc = "copy" THEN "swap" ELSE "bottom") /\ k' = 0
  /\ UNCHANGED <<M, N, i, j, B, cache, misses>>

\* The loops over j and i.
More == j + Width < Columns
NextBlock ==
  /\ k = Passes /\ pc \in {"swap", "bottom", "strip", "edge", "row"}
  /\ UNCHANGED <<M, N, B, cache>>
  /\ IF More THEN j' = j + Width /\ i' = i ELSE j' = 0 /\ i' = i + Height
  /\ pc' = CASE i' >= N               -> "done"
             [] i' < N /\ pc = "row"   -> "row"
             [] OTHER                  -> Start("transpose_submit")'
  /\ k' = 0 /\ misses' = 0

\* The function has returned.
Done == pc = "done" /\ UNCHANGED vars

Next == Copy \/ Swap \/ Top \/ Bottom \/ Strip \/ Edge \/ trans \/ NextLoop \/ NextBlock \/ Done
Spec == Init /\ [][Next]_vars

-------------------------------------------------------------------------------
(* What should hold. *)

\* Types; and the pass that comes next touches only elements of A and B.
TypeOK ==
  /\ <<M, N>> \in Sizes /\ i \in Nat /\ j \in 0 .. M - 1 /\ k \in 0 .. Passes
  /\ DOMAIN B = CellsB /\ \A c \in CellsB : B[c] \in CellsA \union {Unset}
  /\ DOMAIN cache = Sets /\ misses \in Nat
  /\ k < Passes =>
       \A x \in DOMAIN Pass : LET e == Pass[x] IN <<e[2], e[3]>> \in IF e[1] = "A" THEN CellsA ELSE CellsB

\* A block that has been left is the transpose of its block of A and stays so,
\* whatever is copied to places outside the block that is being worked on; when
\* the loops end, that is all of B (trans.c:24-142 and 153-163, is_transpose).
Left(c) == c[2] < i \/ (c[2] < i + Height /\ c[1] < j)
FinishedBlocksAreRight == /\ \A c \in CellsB : pc # "done" /\ Left(c) => Transposed(c)
                          /\ pc = "done" => is_transpose

\* In transpose_submit, with a square matrix of 32 or 64 columns a block of A and one of B are loaded
\* once, sixteen misses: the temporaries keep their rows, which share sets of the
\* cache, from evicting one another.  With 64 columns only off the diagonal
\* (README.md of CacheLab, Part B; trans.c:7-8).
EachBlockLoadsOnce ==
  (pc # "row" /\ M = N /\ (M = 32 \/ (M = 64 /\ i # j))) => misses <= 16
===============================================================================
