--------------------------- MODULE CommandLineProofs ---------------------------
(***************************************************************************)
(* tsh carries out what the characters it reads spell, for every text and  *)
(* every size of the line buffer.  parseline searches each line from word  *)
(* to word; the reader of Meant takes one character after the other.  The  *)
(* two are related at every position of a line, and fgets with its buffer  *)
(* to the places where the reader sees a line end.                         *)
(***************************************************************************)
EXTENDS CommandLine, WellFoundedInduction, TLAPS

Text == Seq(Characters)

-------------------------------------------------------------------------------
(* The searches of parseline. *)

\* A nonempty set of naturals has a least element.
LEMMA Least ==
  ASSUME NEW S \in SUBSET Nat, S # {}
  PROVE  \E m \in S : \A k \in S : m <= k
<1>1. \E m \in S : \A k \in S : <<k, m>> \notin OpToRel(<, Nat)
  BY NatLessThanWellFounded, WFMin
<1>2. \A k, m \in S : <<k, m>> \notin OpToRel(<, Nat) => m <= k
  BY DEF OpToRel
<1>3. QED  BY <1>1, <1>2

LEMMA CharsDiffer ==
  /\ Blank # Newline /\ Blank # Quote /\ Newline # Quote
  /\ Blank \in Characters /\ Newline \in Characters
  BY TextsAssumption DEF Blank, Newline, Quote

\* strchr finds the first occurrence, if there is one.
LEMMA StrchrFinds ==
  ASSUME NEW buf \in Text, NEW i \in Nat \ {0}, NEW c
  PROVE  \/ /\ strchr(buf, i, c) = NoPosition
            /\ \A k \in i .. Len(buf) : buf[k] # c
         \/ /\ strchr(buf, i, c) \in i .. Len(buf) /\ buf[strchr(buf, i, c)] = c
            /\ \A k \in i .. strchr(buf, i, c) - 1 : buf[k] # c
<1> DEFINE S == {k \in i .. Len(buf) : buf[k] = c}
<1>1. CASE S = {}
  BY <1>1 DEF strchr
<1>2. CASE S # {}
  <2>1. S \subseteq Nat /\ Len(buf) \in Nat
    BY DEF Text
  <2>2. \E k \in S : \A m \in S : k <= m
    BY <1>2, <2>1, Least
  <2> DEFINE d == CHOOSE k \in S : \A m \in S : k <= m
  <2>3. strchr(buf, i, c) = d
    BY <1>2 DEF strchr
  <2>4. d \in S /\ \A m \in S : d <= m
    BY <2>2
  <2> HIDE DEF d
  <2>5. d \in i .. Len(buf) /\ buf[d] = c /\ \A k \in i .. d - 1 : buf[k] # c
    BY <2>1, <2>4
  <2>6. QED  BY <2>3, <2>5
<1>3. QED  BY <1>1, <1>2

\* It is the place where the character first occurs.
LEMMA StrchrIs ==
  ASSUME NEW buf \in Text, NEW i \in Nat \ {0}, NEW c, NEW d \in i .. Len(buf), buf[d] = c,
         \A k \in i .. d - 1 : buf[k] # c
  PROVE  strchr(buf, i, c) = d
<1>1. Len(buf) \in Nat
  BY DEF Text
<1> DEFINE f == strchr(buf, i, c)
<1>2. f \in i .. Len(buf) /\ buf[f] = c /\ \A k \in i .. f - 1 : buf[k] # c
  BY StrchrFinds
<1> HIDE DEF f
<1>3. ~(f < d) /\ ~(d < f)
  BY <1>1, <1>2
<1>4. f = d
  BY <1>1, <1>2, <1>3
<1>5. QED  BY <1>4 DEF f

\* The blanks from i on end at a character that is none, or at the end of the line.
LEMMA SkipBlanksStops ==
  ASSUME NEW buf \in Text, NEW i \in 1 .. Len(buf) + 1
  PROVE  /\ SkipBlanks(buf, i) \in i .. Len(buf) + 1
         /\ SkipBlanks(buf, i) <= Len(buf) => buf[SkipBlanks(buf, i)] # Blank
         /\ \A m \in i .. SkipBlanks(buf, i) - 1 : buf[m] = Blank
<1> DEFINE S == {k \in i .. Len(buf) + 1 : k <= Len(buf) => buf[k] # Blank}
           Stop(k) == /\ k <= Len(buf) => buf[k] # Blank
                      /\ \A m \in i .. k - 1 : buf[m] = Blank
<1>1. Len(buf) \in Nat /\ S \subseteq Nat /\ Len(buf) + 1 \in S
  BY DEF Text
<1>2. PICK k \in S : \A m \in S : k <= m
  BY <1>1, Least
<1>3. k \in i .. Len(buf) + 1 /\ Stop(k)
  BY <1>1, <1>2
<1>4. SkipBlanks(buf, i) = CHOOSE l \in i .. Len(buf) + 1 : Stop(l)
  BY DEF SkipBlanks
<1> HIDE DEF Stop
<1>5. SkipBlanks(buf, i) \in i .. Len(buf) + 1 /\ Stop(SkipBlanks(buf, i))
  BY <1>3, <1>4
<1>6. QED  BY <1>5 DEF Stop

LEMMA SkipBlanksIs ==
  ASSUME NEW buf \in Text, NEW i \in 1 .. Len(buf) + 1
  PROVE  /\ i <= Len(buf) /\ buf[i] # Blank => SkipBlanks(buf, i) = i
         /\ i = Len(buf) + 1 => SkipBlanks(buf, i) = i
         /\ i <= Len(buf) /\ buf[i] = Blank => SkipBlanks(buf, i) = SkipBlanks(buf, i + 1)
<1> DEFINE s == SkipBlanks(buf, i)
           t == SkipBlanks(buf, i + 1)
<1>1. Len(buf) \in Nat
  BY DEF Text
<1>2. /\ s \in i .. Len(buf) + 1 /\ (s <= Len(buf) => buf[s] # Blank)
      /\ \A m \in i .. s - 1 : buf[m] = Blank
  BY SkipBlanksStops
<1>3. i <= Len(buf) => /\ t \in i + 1 .. Len(buf) + 1 /\ (t <= Len(buf) => buf[t] # Blank)
                       /\ \A m \in i + 1 .. t - 1 : buf[m] = Blank
  BY <1>1, SkipBlanksStops
<1> HIDE DEF s, t
<1>4. i <= Len(buf) /\ buf[i] # Blank => s = i
  BY <1>1, <1>2
<1>5. i = Len(buf) + 1 => s = i
  BY <1>1, <1>2
<1>6. ASSUME i <= Len(buf), buf[i] = Blank PROVE s = t
  <2>1. s # i
    BY <1>2, <1>6
  <2>2. ~(s < t)
    BY <1>1, <1>2, <1>3, <1>6, <2>1
  <2>3. ~(t < s)
    BY <1>1, <1>2, <1>3, <1>6, <2>1
  <2>4. QED  BY <1>1, <1>2, <1>3, <1>6, <2>2, <2>3
<1>7. QED  BY <1>4, <1>5, <1>6 DEF s, t

\* An argument ends further on in the line.
LEMMA ArgumentEnds ==
  ASSUME NEW buf \in Text, NEW s \in 1 .. Len(buf) + 1, Argument(buf, s).found
  PROVE  /\ Argument(buf, s).next \in s + 1 .. Len(buf) + 1
         /\ Argument(buf, s).text \in Text
         /\ s <= Len(buf)
<1> DEFINE from == IF At(buf, s, Quote) THEN s + 1 ELSE s
           c == IF At(buf, s, Quote) THEN Quote ELSE Blank
           d == strchr(buf, from, c)
<1>1. Len(buf) \in Nat /\ from \in Nat \ {0} /\ s <= from
  BY DEF Text
<1>2. /\ Argument(buf, s).found = (d # NoPosition) /\ Argument(buf, s).next = d + 1
      /\ Argument(buf, s).text = SubSeq(buf, from, d - 1)
  BY DEF Argument
<1>3. d = NoPosition \/ d \in from .. Len(buf)
  BY <1>1, StrchrFinds
<1> HIDE DEF from, c, d
<1>4. d \in from .. Len(buf)
  BY <1>2, <1>3
<1>5. SubSeq(buf, from, d - 1) \in Text
  <2>1. \A k \in from .. d - 1 : k \in 1 .. Len(buf)
    BY <1>1, <1>4
  <2>2. from \in Int /\ d - 1 \in Int
    BY <1>1, <1>4
  <2>3. QED  BY <2>1, <2>2 DEF Text
<1>6. QED  BY <1>1, <1>2, <1>4, <1>5

Words == Seq(Text)

\* What ArgumentsFrom computes at i from what it has at later positions.
FromHere(buf, g, i) ==
  LET arg == Argument(buf, SkipBlanks(buf, i))
  IN  IF arg.found THEN <<arg.text>> \o g[arg.next] ELSE <<>>

LEMMA NextIsLater ==
  ASSUME NEW buf \in Text, NEW i \in 1 .. Len(buf) + 1,
         Argument(buf, SkipBlanks(buf, i)).found
  PROVE  /\ Argument(buf, SkipBlanks(buf, i)).next \in i + 1 .. Len(buf) + 1
         /\ Argument(buf, SkipBlanks(buf, i)).text \in Text
<1>1. Len(buf) \in Nat /\ SkipBlanks(buf, i) \in i .. Len(buf) + 1
  BY SkipBlanksStops DEF Text
<1>2. QED  BY <1>1, ArgumentEnds

\* The recursion goes to later positions, so that there is a function that obeys it.
LEMMA FromExists ==
  ASSUME NEW buf \in Text
  PROVE  \E g : /\ g = [i \in 1 .. Len(buf) + 1 |-> FromHere(buf, g, i)]
                /\ \A i \in 1 .. Len(buf) + 1 : g[i] \in Words
<1> DEFINE L == Len(buf) + 1
           Obeys(g, j) == /\ g = [i \in j .. L |-> FromHere(buf, g, i)]
                          /\ \A i \in j .. L : g[i] \in Words
           Bad == {n \in 0 .. L : ~\E g : Obeys(g, L + 1 - n)}
<1>1. L \in Nat /\ L >= 1
  BY DEF Text
<1>2. Obeys([i \in L + 1 .. L |-> <<>>], L + 1)
  BY <1>1
<1>3. ASSUME NEW n \in 1 .. L, NEW g, Obeys(g, L + 1 - (n - 1))
      PROVE  \E h : Obeys(h, L + 1 - n)
  <2> DEFINE j == L + 1 - n
             h == [i \in j .. L |-> IF i = j THEN FromHere(buf, g, i) ELSE g[i]]
  <2>1. j \in 1 .. L /\ L + 1 - (n - 1) = j + 1
    BY <1>1
  <2>2. g = [i \in j + 1 .. L |-> FromHere(buf, g, i)] /\ \A i \in j + 1 .. L : g[i] \in Words
    BY <1>3, <2>1
  <2> HIDE DEF j
  <2>3. ASSUME NEW i \in j .. L
        PROVE  h[i] = FromHere(buf, h, i) /\ h[i] \in Words
    <3>1. i \in 1 .. Len(buf) + 1
      BY <1>1, <2>1
    <3> DEFINE arg == Argument(buf, SkipBlanks(buf, i))
    <3>2. arg.found => arg.next \in i + 1 .. L /\ arg.text \in Text
      BY <3>1, NextIsLater
    <3> HIDE DEF arg
    <3>3. arg.found => arg.next \in j + 1 .. L /\ h[arg.next] = g[arg.next]
      BY <1>1, <2>1, <3>2
    <3>4. FromHere(buf, h, i) = FromHere(buf, g, i)
      BY <3>3 DEF FromHere, arg
    <3>5. FromHere(buf, g, i) \in Words
      <4>1. CASE arg.found
        <5>1. g[arg.next] \in Words /\ <<arg.text>> \in Words
          BY <2>2, <3>2, <3>3, <4>1 DEF Words
        <5>2. QED  BY <4>1, <5>1 DEF FromHere, Words, arg
      <4>2. CASE ~arg.found
        BY <4>2 DEF FromHere, Words, arg
      <4>3. QED  BY <4>1, <4>2
    <3>6. h[i] = FromHere(buf, g, i)
      BY <2>1, <2>2
    <3>7. QED  BY <3>4, <3>5, <3>6
  <2> HIDE DEF h
  <2>4. h = [i \in j .. L |-> FromHere(buf, h, i)]
    BY <2>3 DEF h
  <2>5. QED  BY <2>3, <2>4 DEF j
<1> HIDE DEF Obeys
<1>4. Bad = {}
  <2>1. SUFFICES ASSUME Bad # {} PROVE FALSE
    OBVIOUS
  <2>0. Bad \in SUBSET Nat
    BY <1>1
  <2>2. PICK n \in Bad : \A m \in Bad : n <= m
    BY <2>0, <2>1, Least
  <2>3. n # 0
    <3>1. L + 1 - 0 = L + 1
      BY <1>1
    <3>2. \E g : Obeys(g, L + 1 - 0)
      BY <1>2, <3>1
    <3>3. QED  BY <3>2
  <2>4. n \in 1 .. L /\ n - 1 \in 0 .. L /\ n - 1 \notin Bad
    BY <1>1, <2>2, <2>3
  <2>5. PICK g : Obeys(g, L + 1 - (n - 1))
    BY <2>4
  <2>6. \E h : Obeys(h, L + 1 - n)
    BY <1>3, <2>4, <2>5
  <2>7. QED  BY <2>2, <2>6
<1> HIDE DEF L
<1>5. \E g : Obeys(g, L + 1 - L)
  <2>1. L \in 0 .. L
    BY <1>1
  <2>2. L \notin Bad
    BY <1>4
  <2>3. QED  BY <2>1, <2>2
<1>6. L + 1 - L = 1
  BY <1>1
<1>7. PICK g : Obeys(g, 1)
  BY <1>5, <1>6
<1>8. QED  BY <1>7 DEF Obeys, L

\* The arguments from a position on: none, or one and those after its delimiter.
LEMMA ArgumentsFromIs ==
  ASSUME NEW buf \in Text
  PROVE  \A i \in 1 .. Len(buf) + 1 :
           /\ ArgumentsFrom(buf)[i] = FromHere(buf, ArgumentsFrom(buf), i)
           /\ ArgumentsFrom(buf)[i] \in Words
<1> DEFINE L == Len(buf) + 1
           F == ArgumentsFrom(buf)
           P(f) == f = [i \in 1 .. Len(buf) + 1 |->
                          LET arg == Argument(buf, SkipBlanks(buf, i))
                          IN  IF arg.found THEN <<arg.text>> \o f[arg.next] ELSE <<>>]
<1>1. F = CHOOSE f : P(f)
  BY DEF ArgumentsFrom
<1>2. \E f : P(f)
  BY FromExists DEF FromHere
<1>3. P(CHOOSE f : P(f))
  BY <1>2, Zenon
<1>4. P(F)
  BY <1>1, <1>3
<1>5. \A i \in 1 .. L : F[i] = FromHere(buf, F, i)
  BY <1>4 DEF FromHere
<1>6. L \in Nat /\ L >= 1
  BY DEF Text
<1> HIDE DEF P, F
<1> DEFINE Bad == {n \in 0 .. L : n < L /\ F[L - n] \notin Words}
<1>7. Bad = {}
  <2>1. SUFFICES ASSUME Bad # {} PROVE FALSE
    OBVIOUS
  <2>2. Bad \in SUBSET Nat
    BY <1>6
  <2>3. PICK n \in Bad : \A m \in Bad : n <= m
    BY <2>1, <2>2, Least
  <2>4. n \in 0 .. L /\ n < L /\ F[L - n] \notin Words
    BY <2>3
  <2>5. ASSUME NEW j \in L - n + 1 .. L PROVE F[j] \in Words
    <3>1. L - j \in 0 .. L /\ L - j < L /\ L - j < n /\ L - (L - j) = j
      BY <1>6, <2>4, <2>5
    <3>2. L - j \notin Bad
      BY <2>3, <2>4, <3>1
    <3>3. QED  BY <3>1, <3>2
  <2> DEFINE i == L - n
             arg == Argument(buf, SkipBlanks(buf, i))
  <2>6. i \in 1 .. Len(buf) + 1
    BY <1>6, <2>4
  <2>7. arg.found => arg.next \in i + 1 .. L /\ arg.text \in Text
    BY <2>6, NextIsLater
  <2>8. F[i] = IF arg.found THEN <<arg.text>> \o F[arg.next] ELSE <<>>
    BY <1>5, <2>6 DEF FromHere
  <2> HIDE DEF arg, i, L
  <2>9. F[i] \in Words
    <3>1. CASE arg.found
      <4>1. F[arg.next] \in Words /\ <<arg.text>> \in Words
        BY <2>5, <2>7, <3>1 DEF Words, i
      <4>2. QED  BY <2>8, <3>1, <4>1 DEF Words
    <3>2. CASE ~arg.found
      BY <2>8, <3>2 DEF Words
    <3>3. QED  BY <3>1, <3>2
  <2>10. QED  BY <2>4, <2>9 DEF i
<1>8. ASSUME NEW i \in 1 .. L PROVE F[i] \in Words
  <2>1. L - i \in 0 .. L /\ L - i < L /\ L - (L - i) = i
    BY <1>6, <1>8
  <2>2. L - i \notin Bad
    BY <1>7
  <2>3. QED  BY <2>1, <2>2
<1>9. QED  BY <1>5, <1>8 DEF F, L

-------------------------------------------------------------------------------
(* The reader of characters. *)

\* It is at every position what it was at the one before, and the character seen.
LEMMA ReaderIs ==
  ASSUME Len(typed) \in Nat
  PROVE  /\ Reader[0] = Start
         /\ \A k \in 1 .. Len(typed) : Reader[k] = Take(Reader[k - 1], Seen[k])
<1> DEFINE N == Len(typed)
           Obeys(g, n) == g = [k \in 0 .. n |-> IF k = 0 THEN Start ELSE Take(g[k - 1], Seen[k])]
           P(f) == f = [k \in 0 .. Len(typed) |->
                          IF k = 0 THEN Start ELSE Take(f[k - 1], Seen[k])]
           Bad == {n \in Nat : ~\E g : Obeys(g, n)}
<1>1. Obeys([k \in 0 .. 0 |-> Start], 0)
  OBVIOUS
<1>2. ASSUME NEW n \in Nat \ {0}, NEW g, Obeys(g, n - 1)
      PROVE  \E h : Obeys(h, n)
  <2> DEFINE h == [k \in 0 .. n |-> IF k = n THEN Take(g[k - 1], Seen[k]) ELSE g[k]]
  <2>1. \A k \in 0 .. n - 1 : g[k] = IF k = 0 THEN Start ELSE Take(g[k - 1], Seen[k])
    BY <1>2
  <2>2. ASSUME NEW k \in 0 .. n
        PROVE  h[k] = IF k = 0 THEN Start ELSE Take(h[k - 1], Seen[k])
    <3>1. k # 0 => h[k - 1] = g[k - 1]
      OBVIOUS
    <3>2. CASE k = n
      BY <3>1, <3>2
    <3>3. CASE k # n
      <4>1. h[k] = g[k] /\ k \in 0 .. n - 1
        BY <3>3
      <4>2. QED  BY <2>1, <3>1, <4>1
    <3>4. QED  BY <3>2, <3>3
  <2> HIDE DEF h
  <2>3. Obeys(h, n)
    <3>1. h = [k \in 0 .. n |-> h[k]]
      BY DEF h
    <3>2. QED  BY <2>2, <3>1
  <2>4. QED  BY <2>3
<1> HIDE DEF Obeys
<1>3. Bad = {}
  <2>1. SUFFICES ASSUME Bad # {} PROVE FALSE
    OBVIOUS
  <2>2. Bad \in SUBSET Nat
    OBVIOUS
  <2>3. PICK n \in Bad : \A m \in Bad : n <= m
    BY <2>1, <2>2, Least
  <2>4. n \in Nat \ {0}
    BY <1>1, <2>3
  <2>5. n - 1 \notin Bad /\ n - 1 \in Nat
    BY <2>3, <2>4
  <2>6. PICK g : Obeys(g, n - 1)
    BY <2>5
  <2>7. \E h : Obeys(h, n)
    BY <1>2, <2>4, <2>6
  <2>8. QED  BY <2>3, <2>7
<1>4. N \notin Bad /\ N \in Nat
  BY <1>3
<1>5. \E f : P(f)
  BY <1>4 DEF Obeys
<1>6. P(CHOOSE f : P(f))
  BY <1>5, Zenon
<1>7. Reader = CHOOSE f : P(f)
  BY DEF Reader
<1>8. P(Reader)
  BY <1>6, <1>7
<1> HIDE DEF Seen, Start, Take
<1>9. QED  BY <1>8

Commands == [kind : Builtins \union {"run"}, argv : Words, bg : BOOLEAN]

Readers == [mode : {"between", "word", "quoted"}, word : Text, words : Words,
            done : Seq(Commands), over : BOOLEAN]

\* What one character within a line does to a reader that has not left.
LEMMA TakeIs ==
  ASSUME NEW r \in Readers, NEW c \in Characters, c # Newline, ~r.over
  PROVE  /\ c = Blank /\ r.mode = "between" => Take(r, c) = r
         /\ c = Quote /\ r.mode = "between" => Take(r, c) = [r EXCEPT !.mode = "quoted"]
         /\ c \notin {Blank, Quote} /\ r.mode = "between" =>
              Take(r, c) = [r EXCEPT !.mode = "word", !.word = Append(@, c)]
         /\ c = Blank /\ r.mode = "word" => Take(r, c) = EndWord(r)
         /\ c # Blank /\ r.mode = "word" => Take(r, c) = [r EXCEPT !.word = Append(@, c)]
         /\ c = Quote /\ r.mode = "quoted" => Take(r, c) = EndWord(r)
         /\ c # Quote /\ r.mode = "quoted" => Take(r, c) = [r EXCEPT !.word = Append(@, c)]
<1>1. Blank # Newline /\ Blank # Quote /\ Newline # Quote
  BY CharsDiffer
<1>2. r = [mode |-> r.mode, word |-> r.word, words |-> r.words, done |-> r.done, over |-> r.over]
  BY DEF Readers
<1>3. CASE r.mode = "between"
  <2>1. CASE c = Blank
    BY <1>1, <1>3, <2>1 DEF Take
  <2>2. CASE c = Quote
    BY <1>1, <1>3, <2>2 DEF Take
  <2>3. CASE c \notin {Blank, Quote}
    BY <1>2, <1>3, <2>3 DEF Take
  <2>4. QED  BY <1>3, <2>1, <2>2, <2>3
<1>4. CASE r.mode = "word"
  <2>1. CASE c = Blank
    BY <1>1, <1>4, <2>1 DEF Take
  <2>2. CASE c # Blank
    BY <1>2, <1>4, <2>2 DEF Take
  <2>3. QED  BY <1>4, <2>1, <2>2
<1>5. CASE r.mode = "quoted"
  <2>1. CASE c = Quote
    BY <1>1, <1>5, <2>1 DEF Take
  <2>2. CASE c # Quote
    BY <1>2, <1>5, <2>2 DEF Take
  <2>3. QED  BY <1>5, <2>1, <2>2
<1>6. QED  BY <1>3, <1>4, <1>5 DEF Readers

-------------------------------------------------------------------------------
(* The search and the reader at the same place of a line.                  *)

\* A blank is passed over, and after the end there is nothing.
LEMMA BlankIsSkipped ==
  ASSUME NEW buf \in Text, NEW i \in 1 .. Len(buf) + 1
  PROVE  /\ i <= Len(buf) /\ buf[i] = Blank => ArgumentsFrom(buf)[i] = ArgumentsFrom(buf)[i + 1]
         /\ i = Len(buf) + 1 => ArgumentsFrom(buf)[i] = <<>>
<1>1. Len(buf) \in Nat
  BY DEF Text
<1>2. ASSUME i <= Len(buf), buf[i] = Blank
      PROVE  ArgumentsFrom(buf)[i] = ArgumentsFrom(buf)[i + 1]
  <2>1. i + 1 \in 1 .. Len(buf) + 1 /\ SkipBlanks(buf, i) = SkipBlanks(buf, i + 1)
    BY <1>1, <1>2, SkipBlanksIs
  <2>2. FromHere(buf, ArgumentsFrom(buf), i) = FromHere(buf, ArgumentsFrom(buf), i + 1)
    BY <2>1 DEF FromHere
  <2>3. QED  BY <2>1, <2>2, ArgumentsFromIs
<1>3. ASSUME i = Len(buf) + 1 PROVE ArgumentsFrom(buf)[i] = <<>>
  <2>1. SkipBlanks(buf, i) = i /\ ~(i <= Len(buf))
    BY <1>1, <1>3, SkipBlanksIs
  <2>2. ~Argument(buf, i).found
    BY <2>1, ArgumentEnds
  <2>3. QED  BY <2>1, <2>2, ArgumentsFromIs DEF FromHere
<1>4. QED  BY <1>2, <1>3

\* The text of a word goes up to the next blank, that of a quote to the next quote.
LEMMA ArgumentHere ==
  ASSUME NEW buf \in Text, NEW s \in 1 .. Len(buf), buf[s] # Blank
  PROVE  /\ buf[s] # Quote =>
              \A k \in s .. Len(buf) :
                buf[k] = Blank /\ (\A m \in s .. k - 1 : buf[m] # Blank) =>
                  ArgumentsFrom(buf)[s] = <<SubSeq(buf, s, k - 1)>> \o ArgumentsFrom(buf)[k + 1]
         /\ buf[s] = Quote =>
              \A k \in s + 1 .. Len(buf) :
                buf[k] = Quote /\ (\A m \in s + 1 .. k - 1 : buf[m] # Quote) =>
                  ArgumentsFrom(buf)[s] =
                    <<SubSeq(buf, s + 1, k - 1)>> \o ArgumentsFrom(buf)[k + 1]
         /\ buf[s] = Quote /\ (\A k \in s + 1 .. Len(buf) : buf[k] # Quote) =>
              ArgumentsFrom(buf)[s] = <<>>
<1> DEFINE from == IF buf[s] = Quote THEN s + 1 ELSE s
           c == IF buf[s] = Quote THEN Quote ELSE Blank
           d == strchr(buf, from, c)
<1>1. Len(buf) \in Nat /\ s \in 1 .. Len(buf) + 1 /\ s <= Len(buf) /\ from \in Nat \ {0}
  BY DEF Text
<1>2. SkipBlanks(buf, s) = s
  BY <1>1, SkipBlanksIs
<1>3. Argument(buf, s) = [found |-> d # NoPosition, text |-> SubSeq(buf, from, d - 1),
                          next |-> d + 1]
  BY <1>1 DEF Argument, At
<1>4. ArgumentsFrom(buf)[s] = IF d # NoPosition
                              THEN <<SubSeq(buf, from, d - 1)>> \o ArgumentsFrom(buf)[d + 1]
                              ELSE <<>>
  <2>1. ArgumentsFrom(buf)[s] = FromHere(buf, ArgumentsFrom(buf), s)
    BY <1>1, ArgumentsFromIs
  <2> DEFINE arg == Argument(buf, s)
  <2>2. ArgumentsFrom(buf)[s] = IF arg.found THEN <<arg.text>> \o ArgumentsFrom(buf)[arg.next]
                                ELSE <<>>
    BY <1>2, <2>1 DEF FromHere
  <2>3. arg = [found |-> d # NoPosition, text |-> SubSeq(buf, from, d - 1), next |-> d + 1]
    BY <1>3
  <2> HIDE DEF arg, d
  <2>4. (arg.found <=> d # NoPosition) /\ arg.text = SubSeq(buf, from, d - 1) /\ arg.next = d + 1
    BY <2>3
  <2>5. QED  BY <2>2, <2>4
<1>5. ASSUME NEW k \in from .. Len(buf), buf[k] = c, \A m \in from .. k - 1 : buf[m] # c
      PROVE  d = k /\ k # NoPosition
  BY <1>1, <1>5, StrchrIs DEF NoPosition
<1>6. ASSUME \A k \in from .. Len(buf) : buf[k] # c PROVE d = NoPosition
  BY <1>1, <1>6, StrchrFinds
<1> HIDE DEF d
<1>7. CASE buf[s] # Quote
  <2>1. from = s /\ c = Blank
    BY <1>7
  <2> HIDE DEF from, c
  <2>2. QED  BY <1>4, <1>5, <1>7, <2>1
<1>8. CASE buf[s] = Quote
  <2>1. from = s + 1 /\ c = Quote
    BY <1>8
  <2> HIDE DEF from, c
  <2>2. QED  BY <1>4, <1>5, <1>6, <1>8, <2>1
<1>9. QED  BY <1>7, <1>8

\* After k characters of a line the words of the reader, and what the search
\* finds from where the reader's open word began, are the arguments of the line.
Scan(buf, r, k) ==
  /\ ~r.over
  /\ \/ /\ r.mode = "between" /\ r.word = <<>>
        /\ Arguments(buf) = r.words \o ArgumentsFrom(buf)[k + 1]
     \/ /\ r.mode = "word"
        /\ \E s \in 1 .. k :
             /\ buf[s] # Quote /\ \A m \in s .. k : buf[m] # Blank
             /\ r.word = SubSeq(buf, s, k)
             /\ Arguments(buf) = r.words \o ArgumentsFrom(buf)[s]
     \/ /\ r.mode = "quoted"
        /\ \E s \in 1 .. k :
             /\ buf[s] = Quote /\ \A m \in s + 1 .. k : buf[m] # Quote
             /\ r.word = SubSeq(buf, s + 1, k)
             /\ Arguments(buf) = r.words \o ArgumentsFrom(buf)[s]

\* Ending the word makes up for the argument the search finds.
LEMMA WordMoves ==
  ASSUME NEW ws \in Words, NEW w \in Text, NEW rest \in Words
  PROVE  ws \o (<<w>> \o rest) = Append(ws, w) \o rest
<1> DEFINE a == ws \o (<<w>> \o rest)
           b == Append(ws, w) \o rest
<1>1. <<w>> \o rest \in Words /\ Append(ws, w) \in Words /\ Len(ws) \in Nat /\ Len(rest) \in Nat
  BY DEF Words
<1>2. Len(<<w>> \o rest) = Len(rest) + 1 /\ Len(Append(ws, w)) = Len(ws) + 1
  BY DEF Words
<1>3. a \in Words /\ b \in Words /\ Len(a) = Len(ws) + Len(rest) + 1 /\ Len(b) = Len(a)
  BY <1>1, <1>2 DEF Words
<1>4. ASSUME NEW i \in 1 .. Len(a) PROVE a[i] = b[i]
  <2>1. CASE i <= Len(ws)
    BY <1>1, <1>2, <1>3, <2>1 DEF Words
  <2>2. CASE i = Len(ws) + 1
    BY <1>1, <1>2, <1>3, <2>2 DEF Words
  <2>3. CASE i > Len(ws) + 1
    BY <1>1, <1>2, <1>3, <2>3 DEF Words
  <2>4. QED  BY <1>1, <1>3, <2>1, <2>2, <2>3
<1> HIDE DEF a, b
<1>5. a = b
  BY <1>3, <1>4 DEF Words
<1>6. QED  BY <1>5 DEF a, b

\* The reader and the search stay together over one character of the line.
LEMMA ScanStep ==
  ASSUME NEW buf \in Text, NEW k \in 0 .. Len(buf) - 1, buf[k + 1] # Newline,
         NEW r \in Readers, Scan(buf, r, k)
  PROVE  /\ Take(r, buf[k + 1]) \in Readers /\ Take(r, buf[k + 1]).done = r.done
         /\ Scan(buf, Take(r, buf[k + 1]), k + 1)
<1> DEFINE c == buf[k + 1]
           F == ArgumentsFrom(buf)
           t == Take(r, c)
<1>1. /\ Len(buf) \in Nat /\ k \in Nat /\ k + 1 \in 1 .. Len(buf) /\ c \in Characters
      /\ c # Newline /\ ~r.over
  BY DEF Text, Scan
<1>2. /\ \A i \in 1 .. Len(buf) + 1 : F[i] \in Words
      /\ c = Blank => F[k + 1] = F[k + 2]
  BY <1>1, ArgumentsFromIs, BlankIsSkipped
<1>3. /\ r.word \in Text /\ r.words \in Words /\ r.done \in Seq(Commands)
      /\ r = [mode |-> r.mode, word |-> r.word, words |-> r.words, done |-> r.done, over |-> r.over]
      /\ r.mode \in {"between", "word", "quoted"} /\ r.over \in BOOLEAN
  BY DEF Readers
<1>4. Append(r.word, c) \in Text /\ Append(r.words, r.word) \in Words /\ <<>> \in Text
  BY <1>1, <1>3 DEF Text, Words
<1>5. Blank # Quote
  BY CharsDiffer
<1> HIDE DEF F, c, t
<1>6. ASSUME NEW w \in Text, NEW from \in 1 .. k + 1, w = SubSeq(buf, from, k)
      PROVE  Append(w, c) = SubSeq(buf, from, k + 1)
  <2> DEFINE a == Append(w, c)
             b == SubSeq(buf, from, k + 1)
  <2>1. Len(b) = k + 2 - from /\ b \in Text /\ \A i \in 1 .. k + 2 - from : b[i] = buf[from + i - 1]
    BY <1>1 DEF Text
  <2>2. Len(w) = k + 1 - from /\ \A i \in 1 .. k + 1 - from : w[i] = buf[from + i - 1]
    BY <1>1, <1>6 DEF Text
  <2>3. /\ Len(a) = k + 2 - from /\ a \in Text /\ a[k + 2 - from] = c
        /\ \A i \in 1 .. k + 1 - from : a[i] = buf[from + i - 1]
    BY <1>1, <1>6, <2>2 DEF Text
  <2> HIDE DEF a, b
  <2>4. \A i \in 1 .. k + 2 - from : a[i] = b[i]
    BY <1>1, <2>1, <2>3 DEF c
  <2>5. a = b
    BY <1>1, <2>1, <2>3, <2>4 DEF Text
  <2>6. QED  BY <2>5 DEF a, b
<1>7. ASSUME ~t.over, t.mode = "between", t.word = <<>>, Arguments(buf) = t.words \o F[k + 2]
      PROVE  Scan(buf, t, k + 1)
  <2>1. k + 1 + 1 = k + 2
    BY <1>1
  <2>2. QED  BY <1>7, <2>1 DEF Scan, F
<1>8. ASSUME ~t.over, NEW s \in 1 .. k + 1, Arguments(buf) = t.words \o F[s],
             \/ /\ t.mode = "word" /\ buf[s] # Quote /\ \A m \in s .. k + 1 : buf[m] # Blank
                /\ t.word = SubSeq(buf, s, k + 1)
             \/ /\ t.mode = "quoted" /\ buf[s] = Quote
                /\ \A m \in s + 1 .. k + 1 : buf[m] # Quote
                /\ t.word = SubSeq(buf, s + 1, k + 1)
      PROVE  Scan(buf, t, k + 1)
  BY <1>8 DEF Scan, F
<1>9. ASSUME r.mode = "between" PROVE t \in Readers /\ t.done = r.done /\ Scan(buf, t, k + 1)
  <2>1. r.word = <<>> /\ Arguments(buf) = r.words \o F[k + 1]
    BY <1>9 DEF Scan, F
  <2>2. CASE c = Blank
    <3>1. t = r
      BY <1>1, <1>9, <2>2, TakeIs DEF t
    <3>2. QED  BY <1>1, <1>2, <1>7, <1>9, <2>1, <2>2, <3>1
  <2>3. CASE c = Quote
    <3>1. t = [r EXCEPT !.mode = "quoted"]
      BY <1>1, <1>9, <2>3, TakeIs DEF t
    <3>2. /\ t \in Readers /\ t.mode = "quoted" /\ t.word = <<>> /\ t.words = r.words
          /\ t.done = r.done /\ ~t.over
      BY <1>1, <1>3, <2>1, <3>1 DEF Readers
    <3>3. SubSeq(buf, k + 1 + 1, k + 1) = <<>>
      BY <1>1
    <3>4. \A m \in k + 1 + 1 .. k + 1 : buf[m] # Quote
      BY <1>1
    <3>5. k + 1 \in 1 .. k + 1 /\ buf[k + 1] = Quote
      BY <1>1, <2>3 DEF c
    <3>6. Scan(buf, t, k + 1)
      BY <1>8, <2>1, <3>2, <3>3, <3>4, <3>5
    <3>7. QED  BY <3>2, <3>6
  <2>4. CASE c \notin {Blank, Quote}
    <3>1. t = [r EXCEPT !.mode = "word", !.word = Append(@, c)]
      BY <1>1, <1>9, <2>4, TakeIs DEF t
    <3>2. /\ t \in Readers /\ t.mode = "word" /\ t.word = Append(<<>>, c) /\ t.words = r.words
          /\ t.done = r.done /\ ~t.over
      BY <1>1, <1>3, <1>4, <2>1, <3>1 DEF Readers
    <3>3. SubSeq(buf, k + 1, k + 1) = Append(<<>>, c)
      <4>1. SubSeq(buf, k + 1, k) = <<>> /\ k + 1 \in 1 .. k + 1
        BY <1>1
      <4>2. QED  BY <1>4, <1>6, <4>1
    <3>4. \A m \in k + 1 .. k + 1 : buf[m] # Blank
      BY <1>1, <2>4 DEF c
    <3>5. k + 1 \in 1 .. k + 1 /\ buf[k + 1] # Quote
      BY <1>1, <2>4 DEF c
    <3>6. Scan(buf, t, k + 1)
      BY <1>8, <2>1, <3>2, <3>3, <3>4, <3>5
    <3>7. QED  BY <3>2, <3>6
  <2>5. QED  BY <2>2, <2>3, <2>4
<1>10. ASSUME NEW s \in 1 .. k, NEW from \in 1 .. k + 1,
             r.word = SubSeq(buf, from, k), Arguments(buf) = r.words \o F[s],
             F[s] = <<SubSeq(buf, from, k)>> \o F[k + 2], t = EndWord(r)
      PROVE  t \in Readers /\ t.done = r.done /\ Scan(buf, t, k + 1)
  <2>1. /\ t.mode = "between" /\ t.word = <<>> /\ t.words = Append(r.words, r.word)
        /\ t.done = r.done /\ ~t.over /\ t \in Readers
    BY <1>1, <1>3, <1>4, <1>10 DEF Readers, EndWord
  <2>2. Arguments(buf) = Append(r.words, r.word) \o F[k + 2]
    <3>1. F[k + 2] \in Words
      BY <1>1, <1>2
    <3>2. Arguments(buf) = r.words \o (<<r.word>> \o F[k + 2])
      BY <1>10
    <3>3. QED  BY <1>3, <3>1, <3>2, WordMoves
  <2>3. QED  BY <1>7, <2>1, <2>2
<1>11. ASSUME r.mode = "word" PROVE t \in Readers /\ t.done = r.done /\ Scan(buf, t, k + 1)
  <2>1. PICK s \in 1 .. k : /\ buf[s] # Quote /\ \A m \in s .. k : buf[m] # Blank
                            /\ r.word = SubSeq(buf, s, k)
                            /\ Arguments(buf) = r.words \o F[s]
    BY <1>11 DEF Scan, F
  <2>2. CASE c = Blank
    <3>1. t = EndWord(r)
      BY <1>1, <1>11, <2>2, TakeIs DEF t
    <3>2. F[s] = <<SubSeq(buf, s, k)>> \o F[k + 2]
      <4>1. s \in 1 .. Len(buf) /\ s \in Nat /\ k + 1 \in s .. Len(buf) /\ buf[k + 1] = Blank
        BY <1>1, <2>2 DEF c
      <4>2. buf[s] # Blank /\ (\A m \in s .. k + 1 - 1 : buf[m] # Blank)
        BY <1>1, <2>1
      <4>3. \A l \in s .. Len(buf) :
              buf[l] = Blank /\ (\A m \in s .. l - 1 : buf[m] # Blank) =>
                F[s] = <<SubSeq(buf, s, l - 1)>> \o F[l + 1]
        BY <2>1, <4>1, <4>2, ArgumentHere DEF F
      <4>4. PICK l \in s .. Len(buf) : l = k + 1
        BY <4>1
      <4>5. l - 1 = k /\ l + 1 = k + 2
        BY <1>1, <4>4
      <4>6. buf[l] = Blank /\ \A m \in s .. l - 1 : buf[m] # Blank
        BY <4>1, <4>4, <4>5, <2>1
      <4>7. F[s] = <<SubSeq(buf, s, l - 1)>> \o F[l + 1]
        BY <4>3, <4>6
      <4>8. QED  BY <4>5, <4>7
    <3>3. s \in 1 .. k + 1
      BY <1>1
    <3>4. QED  BY <1>10, <2>1, <3>1, <3>2, <3>3
  <2>3. CASE c # Blank
    <3>1. t = [r EXCEPT !.word = Append(@, c)]
      BY <1>1, <1>11, <2>3, TakeIs DEF t
    <3>2. /\ t \in Readers /\ t.mode = "word" /\ t.word = Append(r.word, c) /\ t.words = r.words
          /\ t.done = r.done /\ ~t.over
      BY <1>1, <1>3, <1>4, <1>11, <3>1 DEF Readers
    <3>3. t.word = SubSeq(buf, s, k + 1) /\ s \in 1 .. k + 1
      <4>1. s \in 1 .. k + 1
        BY <1>1
      <4>2. QED  BY <1>3, <1>6, <2>1, <3>2, <4>1
    <3>4. \A m \in s .. k + 1 : buf[m] # Blank
      BY <1>1, <2>1, <2>3 DEF c
    <3>5. QED  BY <1>8, <2>1, <3>2, <3>3, <3>4
  <2>4. QED  BY <2>2, <2>3
<1>12. ASSUME r.mode = "quoted" PROVE t \in Readers /\ t.done = r.done /\ Scan(buf, t, k + 1)
  <2>1. PICK s \in 1 .. k : /\ buf[s] = Quote /\ \A m \in s + 1 .. k : buf[m] # Quote
                            /\ r.word = SubSeq(buf, s + 1, k)
                            /\ Arguments(buf) = r.words \o F[s]
    BY <1>12 DEF Scan, F
  <2>2. CASE c = Quote
    <3>1. t = EndWord(r)
      BY <1>1, <1>12, <2>2, TakeIs DEF t
    <3>2. F[s] = <<SubSeq(buf, s + 1, k)>> \o F[k + 2]
      <4>1. /\ s \in 1 .. Len(buf) /\ s + 1 \in Nat /\ k + 1 \in s + 1 .. Len(buf)
            /\ buf[k + 1] = Quote
        BY <1>1, <2>2 DEF c
      <4>2. buf[s] # Blank /\ (\A m \in s + 1 .. k + 1 - 1 : buf[m] # Quote)
        BY <1>1, <1>5, <2>1
      <4>3. \A l \in s + 1 .. Len(buf) :
              buf[l] = Quote /\ (\A m \in s + 1 .. l - 1 : buf[m] # Quote) =>
                F[s] = <<SubSeq(buf, s + 1, l - 1)>> \o F[l + 1]
        BY <2>1, <4>1, <4>2, ArgumentHere DEF F
      <4>4. F[s] = <<SubSeq(buf, s + 1, k + 1 - 1)>> \o F[k + 1 + 1]
        BY <4>1, <4>2, <4>3
      <4>5. k + 1 - 1 = k /\ k + 1 + 1 = k + 2
        BY <1>1
      <4>6. QED  BY <4>4, <4>5
    <3>3. s + 1 \in 1 .. k + 1
      BY <1>1
    <3>4. QED  BY <1>10, <2>1, <3>1, <3>2, <3>3
  <2>3. CASE c # Quote
    <3>1. t = [r EXCEPT !.word = Append(@, c)]
      BY <1>1, <1>12, <2>3, TakeIs DEF t
    <3>2. /\ t \in Readers /\ t.mode = "quoted" /\ t.word = Append(r.word, c) /\ t.words = r.words
          /\ t.done = r.done /\ ~t.over
      BY <1>1, <1>3, <1>4, <1>12, <3>1 DEF Readers
    <3>3. t.word = SubSeq(buf, s + 1, k + 1) /\ s \in 1 .. k + 1
      <4>1. s + 1 \in 1 .. k + 1 /\ s \in 1 .. k + 1
        BY <1>1
      <4>2. QED  BY <1>3, <1>6, <2>1, <3>2, <4>1
    <3>4. \A m \in s + 1 .. k + 1 : buf[m] # Quote
      BY <1>1, <2>1, <2>3 DEF c
    <3>5. QED  BY <1>8, <2>1, <3>2, <3>3, <3>4
  <2>4. QED  BY <2>2, <2>3
<1>13. QED  BY <1>3, <1>9, <1>11, <1>12 DEF t, c

\* The words of a reader at the end of a line, an open word among them.
WordsOf(r) == IF r.mode = "word" THEN Append(r.words, r.word) ELSE r.words

\* They are the arguments of the line.
LEMMA ScanEnd ==
  ASSUME NEW buf \in Text, Len(buf) >= 1, buf[Len(buf)] = Blank,
         NEW r \in Readers, Scan(buf, r, Len(buf) - 1)
  PROVE  WordsOf(r) = Arguments(buf) /\ Arguments(buf) \in Words
<1> DEFINE F == ArgumentsFrom(buf)
           n == Len(buf)
<1>1. n \in Nat /\ n >= 1 /\ n - 1 + 1 = n /\ Blank # Quote
  BY CharsDiffer DEF Text
<1>2. F[n] = <<>> /\ F[n + 1] = <<>>
  <2>1. F[n] = F[n + 1]
    BY <1>1, BlankIsSkipped
  <2>2. F[n + 1] = <<>>
    BY <1>1, BlankIsSkipped
  <2>3. QED  BY <2>1, <2>2
<1>3. Arguments(buf) \in Words
  BY <1>1, ArgumentsFromIs DEF Arguments
<1>4. r.word \in Text /\ r.words \in Words /\ r.mode \in {"between", "word", "quoted"}
  BY DEF Readers
<1>5. \A ws \in Words : ws \o <<>> = ws
  BY DEF Words
<1> HIDE DEF F
<1>6. CASE r.mode = "between"
  <2>1. Arguments(buf) = r.words \o F[n]
    BY <1>1, <1>6 DEF Scan, F
  <2>2. QED  BY <1>2, <1>3, <1>4, <1>5, <1>6, <2>1 DEF WordsOf
<1>7. CASE r.mode = "word"
  <2>1. PICK s \in 1 .. n - 1 : /\ buf[s] # Quote /\ \A m \in s .. n - 1 : buf[m] # Blank
                                /\ r.word = SubSeq(buf, s, n - 1)
                                /\ Arguments(buf) = r.words \o F[s]
    BY <1>7 DEF Scan, F
  <2>2. s \in 1 .. n /\ s \in Nat /\ n \in s .. n /\ buf[s] # Blank
    BY <1>1, <2>1
  <2>3. F[s] = <<SubSeq(buf, s, n - 1)>> \o F[n + 1]
    BY <2>1, <2>2, ArgumentHere DEF F
  <2>4. Arguments(buf) = r.words \o (<<r.word>> \o <<>>)
    BY <1>2, <2>1, <2>3
  <2>5. <<>> \in Words
    BY DEF Words
  <2>6. Arguments(buf) = Append(r.words, r.word) \o <<>>
    BY <1>4, <2>4, <2>5, WordMoves
  <2>7. Append(r.words, r.word) \in Words
    BY <1>4 DEF Words
  <2>8. QED  BY <1>3, <1>5, <1>7, <2>6, <2>7 DEF WordsOf
<1>8. CASE r.mode = "quoted"
  <2>1. PICK s \in 1 .. n - 1 : /\ buf[s] = Quote /\ \A m \in s + 1 .. n - 1 : buf[m] # Quote
                                /\ Arguments(buf) = r.words \o F[s]
    BY <1>8 DEF Scan, F
  <2>2. s \in 1 .. n /\ buf[s] # Blank /\ \A m \in s + 1 .. n : buf[m] # Quote
    BY <1>1, <2>1
  <2>3. F[s] = <<>>
    BY <2>1, <2>2, ArgumentHere DEF F
  <2>4. QED  BY <1>3, <1>4, <1>5, <1>8, <2>1, <2>3 DEF WordsOf
<1>9. QED  BY <1>3, <1>4, <1>6, <1>7, <1>8

\* A line and its words make the same command.
LEMMA EvalMeans ==
  ASSUME NEW line \in Text, Len(line) >= 1, NEW r \in Readers,
         WordsOf(r) = Arguments([line EXCEPT ![Len(line)] = Blank]),
         Arguments([line EXCEPT ![Len(line)] = Blank]) \in Words
  PROVE  /\ eval(line) \in Seq(Commands)
         /\ EndLine(r) = [Start EXCEPT !.done = r.done \o eval(line),
                            !.over = eval(line) # <<>> /\ eval(line)[1].kind = "quit"]
<1> DEFINE ws   == WordsOf(r)
           bg   == ws # <<>> /\ ws[Len(ws)] # <<>> /\ ws[Len(ws)][1] = Ampersand
           argv == IF bg THEN SubSeq(ws, 1, Len(ws) - 1) ELSE ws
           name == IF argv # <<>> /\ argv[1] \in {<<b>> : b \in Builtins} THEN argv[1][1] ELSE "run"
           cmd  == [kind |-> name, argv |-> argv, bg |-> bg /\ name = "run"]
           parsed == parseline(line)
<1>1. ws \in Words /\ Len(ws) \in Nat /\ r.done \in Seq(Commands)
  BY DEF Words, Readers
<1>2. argv \in Words
  <2>1. bg => ws # <<>>
    OBVIOUS
  <2> HIDE DEF ws
  <2>2. bg => SubSeq(ws, 1, Len(ws) - 1) \in Words
    <3> HIDE DEF bg
    <3>1. bg => Len(ws) >= 1 /\ \A k \in 1 .. Len(ws) - 1 : ws[k] \in Text
      BY <1>1, <2>1 DEF Words
    <3>2. QED  BY <1>1, <3>1 DEF Words
  <2> HIDE DEF bg
  <2>3. QED  BY <1>1, <2>2
<1>3. EndLine(r) = [Start EXCEPT !.done = IF argv = <<>> THEN r.done ELSE Append(r.done, cmd),
                                 !.over = argv # <<>> /\ name = "quit"]
  BY DEF EndLine, WordsOf
<1>4. At(ws[Len(ws)], 1, Ampersand) <=> bg \/ (ws = <<>> /\ At(ws[Len(ws)], 1, Ampersand))
  <2>1. CASE ws = <<>>
    BY <2>1
  <2>2. CASE ws # <<>>
    <3>1. ws[Len(ws)] \in Text
      BY <1>1, <2>2 DEF Words
    <3>2. Len(ws[Len(ws)]) \in Nat /\ (ws[Len(ws)] # <<>> <=> 1 <= Len(ws[Len(ws)]))
      BY <3>1 DEF Text
    <3>3. QED  BY <2>2, <3>2 DEF At
  <2>3. QED  BY <2>1, <2>2
<1>5. parsed.argv = argv /\ (argv # <<>> => (parsed.bg <=> bg))
  <2>1. CASE ws = <<>>
    <3>1. Len(ws) = 0
      BY <2>1
    <3>2. parsed = [argv |-> <<>>, bg |-> TRUE]
      BY <3>1 DEF parseline
    <3>3. QED  BY <2>1, <3>2
  <2>2. CASE ws # <<>>
    <3>1. Len(ws) # 0
      BY <1>1, <2>2 DEF Words
    <3>2. CASE bg
      <4>1. parsed = [argv |-> SubSeq(ws, 1, Len(ws) - 1), bg |-> TRUE]
        BY <1>4, <3>1, <3>2 DEF parseline
      <4>2. QED  BY <3>2, <4>1
    <3>3. CASE ~bg
      <4>1. parsed = [argv |-> ws, bg |-> FALSE]
        BY <1>4, <2>2, <3>1, <3>3 DEF parseline
      <4>2. QED  BY <3>3, <4>1
    <3>4. QED  BY <3>2, <3>3
  <2>3. QED  BY <2>1, <2>2
<1>6. ASSUME argv # <<>> PROVE Kind(argv) = name /\ name \in Builtins \union {"run"}
  <2>1. argv[1] \in Text
    <3> HIDE DEF argv
    <3>1. QED  BY <1>2, <1>6 DEF Words
  <2>2. argv[1] \in {<<b>> : b \in Builtins} <=> Len(argv[1]) = 1 /\ argv[1][1] \in Builtins
    <3> DEFINE w == argv[1]
    <3>1. w \in Text
      BY <2>1
    <3> HIDE DEF w
    <3>2. ASSUME Len(w) = 1 PROVE w = <<w[1]>>
      BY <3>1, <3>2 DEF Text
    <3>3. w \in {<<b>> : b \in Builtins} <=> Len(w) = 1 /\ w[1] \in Builtins
      BY <3>2
    <3>4. QED  BY <3>3 DEF w
  <2> HIDE DEF argv
  <2>3. QED  BY <1>6, <2>2 DEF Kind
<1> HIDE DEF bg, argv, name, ws
<1>7. CASE argv = <<>>
  <2>1. eval(line) = <<>>
    BY <1>5, <1>7 DEF eval
  <2>2. r.done \o <<>> = r.done
    BY <1>1
  <2>3. QED  BY <1>3, <1>7, <2>1, <2>2
<1>8. CASE argv # <<>>
  <2>1. eval(line) = <<[kind |-> Kind(argv), argv |-> argv, bg |-> Kind(argv) = "run" /\ parsed.bg]>>
    BY <1>5, <1>8 DEF eval
  <2>2. [kind |-> Kind(argv), argv |-> argv, bg |-> Kind(argv) = "run" /\ parsed.bg] = cmd
    <3>1. (Kind(argv) = "run" /\ parsed.bg) = (bg /\ name = "run")
      BY <1>5, <1>6, <1>8
    <3>2. QED  BY <1>6, <1>8, <3>1
  <2>3. cmd \in Commands /\ cmd.kind = name
    BY <1>2, <1>6, <1>8 DEF Commands
  <2> HIDE DEF cmd
  <2>4. eval(line) = <<cmd>>
    BY <2>1, <2>2
  <2>5. eval(line) \in Seq(Commands) /\ eval(line) # <<>> /\ eval(line)[1] = cmd
        /\ r.done \o eval(line) = Append(r.done, cmd)
    BY <1>1, <2>3, <2>4
  <2>6. QED  BY <1>3, <1>8, <2>3, <2>5
<1>9. QED  BY <1>7, <1>8

-------------------------------------------------------------------------------
(* Where lines end. *)

\* So many characters fit in the buffer of main.
Room == MAXLINE - 1

\* m is the newline a line starts after, and fgets has read q full buffers of it.
StartsAfter(m, q, P) ==
  /\ m = 0 \/ typed[m] = Newline
  /\ \A j \in m + 1 .. P : typed[j] # Newline
  /\ P = m + q * Room

\* fgets starts at P, as it does again after every line it returns.
Boundary(P) == \E m \in 0 .. P, q \in Nat : StartsAfter(m, q, P)

\* The reader sees the line of e characters after P: its end, and none before.
LineSeen(P, e) ==
  /\ \A k \in 1 .. e - 1 : Seen[P + k] = typed[P + k] /\ typed[P + k] # Newline
  /\ Seen[P + e] = Newline

\* Division with remainder is unique.
LEMMA DivUnique ==
  ASSUME NEW a \in Nat, NEW k \in Nat, k > 0, NEW u \in Nat, NEW w \in Nat,
         w < k, a = u * k + w
  PROVE  a \div k = u /\ a % k = w
OBVIOUS

\* Counting on from q full buffers, the next is full after Room characters.
LEMMA NextFull ==
  ASSUME NEW L \in Nat \ {0}, NEW q \in Nat, NEW k \in 1 .. L
  PROVE  (q * L + k) % L = 0 <=> k = L
<1>1. q * L \in Nat /\ q * L + k \in Nat
  OBVIOUS
<1> DEFINE a == q * L + k
<1>2. CASE k < L
  <2>1. k \in Nat /\ a = q * L + k
    OBVIOUS
  <2>2. a % L = k
    BY <1>1, <1>2, <2>1, DivUnique
  <2>3. QED  BY <1>2, <2>2
<1>3. CASE k = L
  <2>1. q + 1 \in Nat /\ a = (q + 1) * L + 0
    BY <1>1, <1>3
  <2>2. a % L = 0
    BY <1>1, <2>1, DivUnique
  <2>3. QED  BY <1>3, <2>2
<1>4. QED  BY <1>2, <1>3

\* Columns are counted from the newline before.
LEMMA ColumnIs ==
  ASSUME typed \in Text, NEW m \in Nat, NEW k \in 1 .. Len(typed), m < k,
         m = 0 \/ typed[m] = Newline, \A j \in m + 1 .. k - 1 : typed[j] # Newline
  PROVE  Column(k) = k - m
<1> DEFINE before == {0} \union {n \in 1 .. k - 1 : typed[n] = Newline}
<1>1. Len(typed) \in Nat /\ k \in Nat
  BY DEF Text
<1>2. m \in before /\ (\A n \in before : n <= m) /\ before \subseteq Nat
  BY <1>1
<1>3. Column(k) = k - (CHOOSE n \in before : \A l \in before : l <= n)
  BY DEF Column
<1> HIDE DEF before
<1> DEFINE c == CHOOSE n \in before : \A l \in before : l <= n
<1>4. c \in before /\ \A l \in before : l <= c
  BY <1>2
<1> HIDE DEF c
<1>5. c <= m /\ m <= c /\ c \in Nat
  BY <1>2, <1>4
<1>6. c = m
  BY <1>5
<1>7. QED  BY <1>3, <1>6 DEF c

\* A part of a text, and a text with another last character.
LEMMA PartOf ==
  ASSUME NEW t \in Text, NEW p \in Nat, NEW n \in Nat, p + n <= Len(t)
  PROVE  /\ SubSeq(t, p + 1, p + n) \in Text /\ Len(SubSeq(t, p + 1, p + n)) = n
         /\ \A k \in 1 .. n : SubSeq(t, p + 1, p + n)[k] = t[p + k]
<1>1. Len(t) \in Nat /\ t \in Seq(Characters)
  BY DEF Text
<1>2. \A k \in p + 1 .. p + n : k \in 1 .. Len(t)
  BY <1>1
<1>3. SubSeq(t, p + 1, p + n) \in Seq(Characters)
  BY <1>1, <1>2
<1>4. Len(SubSeq(t, p + 1, p + n)) = n
  BY <1>1
<1>5. ASSUME NEW k \in 1 .. n
      PROVE  SubSeq(t, p + 1, p + n)[k] = t[p + 1 + k - 1] /\ p + 1 + k - 1 = p + k
  BY <1>1
<1>6. QED  BY <1>3, <1>4, <1>5 DEF Text

Ended(t) == [t EXCEPT ![Len(t)] = Blank]

LEMMA EndReplaced ==
  ASSUME NEW t \in Text, Len(t) >= 1
  PROVE  /\ Ended(t) \in Text /\ Len(Ended(t)) = Len(t) /\ Ended(t)[Len(t)] = Blank
         /\ \A k \in 1 .. Len(t) - 1 : Ended(t)[k] = t[k]
<1> DEFINE e == Len(t)
           b == Ended(t)
<1>0. e \in Nat /\ e >= 1 /\ b = [t EXCEPT ![e] = Blank]
  BY DEF Text, Ended
<1>1. Blank \in Characters
  BY CharsDiffer
<1>2. t \in [1 .. e -> Characters]
  BY DEF Text
<1> HIDE DEF b, e
<1>3. b \in [1 .. e -> Characters] /\ b[e] = Blank /\ \A k \in 1 .. e - 1 : b[k] = t[k]
  BY <1>0, <1>1, <1>2
<1>4. b \in Text /\ Len(b) = e
  BY <1>0, <1>3 DEF Text
<1>5. QED  BY <1>3, <1>4 DEF b, e

\* Where the lines end that fgets may return from P on.
LEMMA LineEndsAre ==
  ASSUME NEW t \in Text, NEW P \in 0 .. Len(t)
  PROVE  LineEnds(SubSeq(t, P + 1, Len(t))) =
           {k \in 1 .. Len(t) - P : t[P + k] = Newline \/ k = Room}
<1> DEFINE text == SubSeq(t, P + 1, Len(t))
           n == Len(t) - P
<1>1. P \in Nat /\ n \in Nat /\ P + n = Len(t)
  BY DEF Text
<1>2. Len(text) = n /\ \A k \in 1 .. n : text[k] = t[P + k]
  <2>1. text = SubSeq(t, P + 1, P + n)
    BY <1>1
  <2> HIDE DEF text, n
  <2>2. QED  BY <1>1, <2>1, PartOf
<1> HIDE DEF text, n
<1>3. LineEnds(text) = {k \in 1 .. n : text[k] = Newline \/ k = Room}
  BY <1>2 DEF LineEnds, Room
<1>4. LineEnds(text) = {k \in 1 .. n : t[P + k] = Newline \/ k = Room}
  BY <1>2, <1>3
<1>5. QED  BY <1>4 DEF text, n

\* Within a line of fgets the reader sees what was typed; where fgets stops it sees
\* the end of a line, and fgets goes on at a boundary.
LEMMA FgetsStops ==
  ASSUME typed \in Text, NEW P \in 0 .. Len(typed), Boundary(P), NEW e \in Nat \ {0},
         \A k \in 1 .. e - 1 : P + k <= Len(typed) /\ typed[P + k] # Newline /\ k # Room
  PROVE  /\ \A k \in 1 .. e - 1 : Seen[P + k] = typed[P + k] /\ typed[P + k] # Newline
         /\ P + e <= Len(typed) /\ (typed[P + e] = Newline \/ e = Room) =>
              Seen[P + e] = Newline /\ Boundary(P + e)
<1> DEFINE N == Len(typed)
           M == N - P
<1>1. N \in Nat /\ M \in Nat /\ P \in Nat
  BY DEF Text
<1>2. Room \in Nat \ {0}
  BY MaxLineAssumption DEF Room
<1>3. PICK m \in 0 .. P, q \in Nat : StartsAfter(m, q, P)
  BY DEF Boundary
<1>4. q * Room \in Nat
  BY <1>2
<1>5. /\ m \in Nat /\ m <= P /\ (m = 0 \/ typed[m] = Newline)
      /\ \A j \in m + 1 .. P : typed[j] # Newline
      /\ P = m + q * Room
  BY <1>1, <1>3 DEF StartsAfter
<1>6. \A k \in 1 .. e - 1 : k \in 1 .. M /\ typed[P + k] # Newline /\ k # Room
  BY <1>1
<1> HIDE DEF N, M
<1>7. e - 1 < Room
  BY <1>2, <1>6
<1>8. ASSUME NEW k \in 1 .. e, k <= M
      PROVE  /\ \A j \in m + 1 .. P + k - 1 : typed[j] # Newline
             /\ Seen[P + k] = IF k = Room THEN Newline ELSE typed[P + k]
  <2>1. ASSUME NEW j \in m + 1 .. P + k - 1 PROVE typed[j] # Newline
    <3>1. CASE j <= P
      BY <1>1, <1>5, <3>1
    <3>2. CASE j > P
      <4>1. j - P \in 1 .. e - 1 /\ P + (j - P) = j
        BY <1>1, <1>5, <3>2
      <4>2. QED  BY <1>6, <4>1
    <3>3. QED  BY <1>1, <1>5, <3>1, <3>2
  <2>2. P + k \in 1 .. Len(typed) /\ m < P + k
    BY <1>1, <1>5, <1>8 DEF N, M
  <2>3. Column(P + k) = P + k - m
    <3> DEFINE K == P + k
    <3>1. \A j \in m + 1 .. K - 1 : typed[j] # Newline
      BY <2>1
    <3>2. K \in 1 .. Len(typed) /\ m < K
      BY <2>2
    <3> HIDE DEF K
    <3>3. Column(K) = K - m
      BY <1>5, <3>1, <3>2, ColumnIs
    <3>4. QED  BY <3>3 DEF K
  <2>4. Column(P + k) = q * Room + k
    BY <1>1, <1>4, <1>5, <2>3
  <2>5. k \in 1 .. Room
    BY <1>1, <1>2, <1>7
  <2>6. (q * Room + k) % Room = 0 <=> k = Room
    BY <1>2, <2>5, NextFull
  <2>7. Seen[P + k] = IF Column(P + k) % Room = 0 THEN Newline ELSE typed[P + k]
    BY <2>2 DEF Seen, Room
  <2>8. QED  BY <2>1, <2>4, <2>6, <2>7
<1>9. \A k \in 1 .. e - 1 : Seen[P + k] = typed[P + k] /\ typed[P + k] # Newline
  <2> SUFFICES ASSUME NEW k \in 1 .. e - 1
               PROVE  Seen[P + k] = typed[P + k] /\ typed[P + k] # Newline
    OBVIOUS
  <2>1. k \in 1 .. e /\ k <= M /\ k # Room /\ typed[P + k] # Newline
    BY <1>1, <1>6
  <2>2. QED  BY <1>8, <2>1
<1>10. ASSUME P + e <= N, typed[P + e] = Newline \/ e = Room
       PROVE  Seen[P + e] = Newline /\ Boundary(P + e)
  <2>1. e \in 1 .. M /\ e \in 1 .. e /\ e <= M
    BY <1>1, <1>10 DEF M
  <2>2. /\ \A j \in m + 1 .. P + e - 1 : typed[j] # Newline
        /\ Seen[P + e] = IF e = Room THEN Newline ELSE typed[P + e]
    BY <1>8, <2>1
  <2>3. CASE typed[P + e] = Newline
    <3>1. P + e \in 0 .. P + e /\ 0 \in Nat /\ P + e = P + e + 0 * Room
      BY <1>1, <1>2
    <3>2. \A j \in P + e + 1 .. P + e : typed[j] # Newline
      BY <1>1
    <3>3. StartsAfter(P + e, 0, P + e)
      BY <2>3, <3>1, <3>2 DEF StartsAfter
    <3>4. QED  BY <2>2, <2>3, <3>1, <3>3 DEF Boundary
  <2>4. CASE typed[P + e] # Newline
    <3>1. e = Room
      BY <1>10, <2>4
    <3>2. q + 1 \in Nat /\ m \in 0 .. P + e /\ P + e = m + (q + 1) * Room
      BY <1>1, <1>2, <1>4, <1>5, <3>1
    <3>3. \A j \in m + 1 .. P + e : typed[j] # Newline
      <4>1. \A j \in m + 1 .. P + e : j \in m + 1 .. P + e - 1 \/ j = P + e
        <5> SUFFICES ASSUME NEW j \in m + 1 .. P + e, j # P + e PROVE j \in m + 1 .. P + e - 1
          OBVIOUS
        <5>1. m \in Int /\ P \in Int /\ e \in Int /\ j \in Int
          BY <1>1, <1>5
        <5>2. QED  BY <5>1
      <4>2. QED  BY <2>2, <2>4, <4>1
    <3>4. StartsAfter(m, q + 1, P + e)
      BY <1>5, <3>2, <3>3 DEF StartsAfter
    <3>5. QED  BY <2>2, <3>1, <3>2, <3>4 DEF Boundary
  <2>5. QED  BY <2>3, <2>4
<1>11. QED  BY <1>9, <1>10 DEF N

-------------------------------------------------------------------------------
(* The reader over a line. *)

\* It takes no command before the end of the line.
LEMMA TakeKeeps ==
  ASSUME NEW r \in Readers, NEW c \in Characters, c # Newline
  PROVE  Take(r, c) \in Readers /\ Take(r, c).done = r.done
<1>1. CASE r.over
  BY <1>1 DEF Take
<1>2. CASE ~r.over
  <2>1. /\ r.word \in Text /\ r.words \in Words /\ r.done \in Seq(Commands)
        /\ r = [mode |-> r.mode, word |-> r.word, words |-> r.words, done |-> r.done, over |-> r.over]
        /\ r.mode \in {"between", "word", "quoted"} /\ r.over \in BOOLEAN
    BY DEF Readers
  <2>2. Append(r.word, c) \in Text /\ Append(r.words, r.word) \in Words /\ <<>> \in Text
    BY <2>1 DEF Text, Words
  <2>3. \/ Take(r, c) = r
        \/ Take(r, c) = [r EXCEPT !.mode = "quoted"]
        \/ Take(r, c) = [r EXCEPT !.mode = "word", !.word = Append(@, c)]
        \/ Take(r, c) = EndWord(r)
        \/ Take(r, c) = [r EXCEPT !.word = Append(@, c)]
    BY <1>2, <2>1, TakeIs
  <2>4. QED  BY <2>1, <2>2, <2>3 DEF Readers, EndWord
<1>3. QED  BY <1>1, <1>2

\* A reader at the start of a line, who has d done.
AtStart(r, d) == /\ r \in Readers /\ r.done = d /\ ~r.over
                 /\ r.mode = "between" /\ r.word = <<>> /\ r.words = <<>>

LEMMA StartIs ==
  ASSUME NEW d \in Seq(Commands), NEW b \in BOOLEAN
  PROVE  LET r == [Start EXCEPT !.done = d, !.over = b]
         IN  r.done = d /\ (~b => AtStart(r, d))
<1> DEFINE r == [Start EXCEPT !.done = d, !.over = b]
<1>1. <<>> \in Text /\ <<>> \in Words
  BY DEF Text, Words
<1>2. /\ r \in Readers /\ r.done = d /\ r.over = b
      /\ r.mode = "between" /\ r.word = <<>> /\ r.words = <<>>
  BY <1>1 DEF Readers, Start
<1>3. QED  BY <1>2 DEF AtStart

\* Over a whole line it does what eval does with the line.
LEMMA LineMeans ==
  ASSUME typed \in Text, NEW P \in 0 .. Len(typed), NEW e \in 1 .. Len(typed),
         P + e <= Len(typed), LineSeen(P, e), NEW d \in Seq(Commands),
         AtStart(Reader[P], d),
         NEW line \in Text, Len(line) = e, \A k \in 1 .. e : line[k] = typed[P + k]
  PROVE  /\ eval(line) \in Seq(Commands)
         /\ Reader[P + e].done = d \o eval(line)
         /\ ~(eval(line) # <<>> /\ eval(line)[1].kind = "quit") =>
              AtStart(Reader[P + e], d \o eval(line))
<1> DEFINE N == Len(typed)
           buf == Ended(line)
           Good(k) == /\ Reader[P + k] \in Readers /\ Reader[P + k].done = d
                      /\ Scan(buf, Reader[P + k], k)
           Bad == {k \in 0 .. e - 1 : ~Good(k)}
<1>1. N \in Nat /\ P \in Nat /\ e \in Nat /\ e >= 1 /\ e - 1 \in Nat
  BY DEF Text
<1>2. line \in Text /\ Len(line) = e /\ \A k \in 1 .. e : line[k] = typed[P + k]
  OBVIOUS
<1>3. /\ buf \in Text /\ Len(buf) = e /\ buf[e] = Blank
      /\ \A k \in 1 .. e - 1 : buf[k] = Seen[P + k] /\ buf[k] # Newline
  <2>1. Len(line) >= 1
    BY <1>1, <1>2
  <2>2. /\ buf \in Text /\ Len(buf) = e /\ buf[e] = Blank
        /\ \A k \in 1 .. e - 1 : buf[k] = line[k]
    BY <1>2, <2>1, EndReplaced
  <2>3. ASSUME NEW k \in 1 .. e - 1 PROVE line[k] = Seen[P + k] /\ line[k] # Newline
    <3>1. k \in 1 .. e
      BY <1>1
    <3>2. Seen[P + k] = typed[P + k] /\ typed[P + k] # Newline
      BY DEF LineSeen
    <3>3. QED  BY <1>2, <3>1, <3>2
  <2>4. QED  BY <2>2, <2>3
<1>4. \A k \in 1 .. e : Reader[P + k] = Take(Reader[P + k - 1], Seen[P + k])
  <2>1. \A k \in 1 .. e : P + k \in 1 .. Len(typed)
    BY <1>1
  <2>2. QED  BY <1>1, <2>1, ReaderIs
<1> HIDE DEF buf
<1>5. Good(0)
  <2>1. P + 0 = P /\ <<>> \in Text /\ <<>> \in Words
    BY <1>1 DEF Text, Words
  <2>2. /\ Reader[P] \in Readers /\ Reader[P].done = d /\ ~Reader[P].over
        /\ Reader[P].mode = "between" /\ Reader[P].word = <<>> /\ Reader[P].words = <<>>
    BY <2>1 DEF AtStart
  <2>3. ArgumentsFrom(buf)[1] \in Words
    BY <1>1, <1>3, ArgumentsFromIs
  <2>4. Arguments(buf) = <<>> \o ArgumentsFrom(buf)[0 + 1]
    BY <2>3 DEF Arguments, Words
  <2>5. Scan(buf, Reader[P], 0)
    BY <2>2, <2>4 DEF Scan
  <2>6. QED  BY <2>1, <2>2, <2>5
<1>6. ASSUME NEW k \in 1 .. e - 1, Good(k - 1) PROVE Good(k)
  <2> DEFINE j == k - 1
             r == Reader[P + j]
  <2>1. j \in 0 .. Len(buf) - 1 /\ j + 1 = k /\ P + j = P + k - 1 /\ k \in 1 .. e
    BY <1>1, <1>3
  <2>2. buf[j + 1] = Seen[P + k] /\ buf[j + 1] # Newline
    BY <1>3, <2>1
  <2>3. r \in Readers /\ r.done = d /\ Scan(buf, r, j)
    BY <1>6
  <2>4. Reader[P + k] = Take(r, buf[j + 1])
    BY <1>4, <2>1, <2>2
  <2> HIDE DEF j, r
  <2>5. /\ Take(r, buf[j + 1]) \in Readers /\ Take(r, buf[j + 1]).done = r.done
        /\ Scan(buf, Take(r, buf[j + 1]), j + 1)
    BY <1>3, <2>1, <2>2, <2>3, ScanStep
  <2>6. QED  BY <2>1, <2>3, <2>4, <2>5
<1> HIDE DEF Good
<1>7. Bad = {}
  <2>1. SUFFICES ASSUME Bad # {} PROVE FALSE
    OBVIOUS
  <2>2. Bad \in SUBSET Nat
    BY <1>1
  <2>3. PICK k \in Bad : \A l \in Bad : k <= l
    BY <2>1, <2>2, Least
  <2>4. k \in 1 .. e - 1
    BY <1>1, <1>5, <2>3
  <2>5. k - 1 \in 0 .. e - 1 /\ k - 1 \notin Bad
    BY <1>1, <2>3, <2>4
  <2>6. QED  BY <1>6, <2>3, <2>4, <2>5
<1> DEFINE r == Reader[P + e - 1]
<1>8. r \in Readers /\ r.done = d /\ Scan(buf, r, e - 1)
  <2>1. e - 1 \in 0 .. e - 1 /\ P + (e - 1) = P + e - 1
    BY <1>1
  <2>2. Good(e - 1)
    BY <1>7, <2>1
  <2>3. QED  BY <2>1, <2>2 DEF Good
<1>9. Reader[P + e] = Take(r, Newline)
  <2>1. Seen[P + e] = Newline
    BY DEF LineSeen
  <2>2. e \in 1 .. e
    BY <1>1
  <2>3. QED  BY <1>4, <2>1, <2>2
<1> HIDE DEF r
<1>10. Take(r, Newline) = EndLine(r)
  <2>1. ~r.over
    BY <1>8 DEF Scan
  <2>2. QED  BY <2>1, CharsDiffer DEF Take
<1>11. WordsOf(r) = Arguments(buf) /\ Arguments(buf) \in Words
  BY <1>1, <1>3, <1>8, ScanEnd
<1>12. /\ eval(line) \in Seq(Commands)
       /\ EndLine(r) = [Start EXCEPT !.done = r.done \o eval(line),
                          !.over = eval(line) # <<>> /\ eval(line)[1].kind = "quit"]
  BY <1>1, <1>2, <1>8, <1>11, EvalMeans DEF buf, Ended
<1>13. d \o eval(line) \in Seq(Commands)
  BY <1>12
<1> DEFINE quits == eval(line) # <<>> /\ eval(line)[1].kind = "quit"
           all == d \o eval(line)
<1>14. Reader[P + e] = [Start EXCEPT !.done = all, !.over = quits]
  BY <1>8, <1>9, <1>10, <1>12
<1>15. quits \in BOOLEAN
  OBVIOUS
<1> HIDE DEF quits, all
<1>16. Reader[P + e].done = all /\ (~quits => AtStart(Reader[P + e], all))
  BY <1>13, <1>14, <1>15, StartIs DEF all
<1>17. QED  BY <1>12, <1>16 DEF quits, all

-------------------------------------------------------------------------------
(* What holds of main's loop. *)

\* What is left of a text.
LEMMA RestOf ==
  ASSUME NEW u \in Text, NEW p \in Nat, p <= Len(u)
  PROVE  /\ SubSeq(u, p + 1, Len(u)) \in Text /\ Len(SubSeq(u, p + 1, Len(u))) = Len(u) - p
         /\ \A k \in 1 .. Len(u) - p : SubSeq(u, p + 1, Len(u))[k] = u[p + k]
<1> DEFINE n == Len(u) - p
           rest == SubSeq(u, p + 1, Len(u))
<1>1. n \in Nat /\ p + n = Len(u)
  BY DEF Text
<1>2. rest = SubSeq(u, p + 1, p + n)
  BY <1>1
<1> HIDE DEF n, rest
<1>3. /\ SubSeq(u, p + 1, p + n) \in Text /\ Len(SubSeq(u, p + 1, p + n)) = n
      /\ \A k \in 1 .. n : SubSeq(u, p + 1, p + n)[k] = u[p + k]
  <2>1. p + n <= Len(u)
    BY <1>1
  <2>2. QED  BY <1>1, <2>1, PartOf
<1>4. QED  BY <1>2, <1>3 DEF n, rest

\* What is left of a rest after some of it, and a part of a rest.
LEMMA RestOfRest ==
  ASSUME NEW t \in Text, NEW P \in Nat, NEW e \in Nat, P + e <= Len(t)
  PROVE  LET rest == SubSeq(t, P + 1, Len(t))
         IN  /\ Len(rest) = Len(t) - P
             /\ SubSeq(rest, 1, e) = SubSeq(t, P + 1, P + e)
             /\ SubSeq(rest, e + 1, Len(rest)) = SubSeq(t, P + e + 1, Len(t))
<1> DEFINE n == Len(t) - P
           rest == SubSeq(t, P + 1, Len(t))
           a == SubSeq(rest, 1, e)
           b == SubSeq(t, P + 1, P + e)
           c == SubSeq(rest, e + 1, Len(rest))
           d == SubSeq(t, P + e + 1, Len(t))
<1>1. Len(t) \in Nat /\ n \in Nat /\ P + n = Len(t) /\ e <= n /\ P <= Len(t)
  BY DEF Text
<1>3. rest \in Text /\ Len(rest) = n /\ \A k \in 1 .. n : rest[k] = t[P + k]
  BY <1>1, RestOf
<1> HIDE DEF n, rest
<1>4. b \in Text /\ Len(b) = e /\ \A k \in 1 .. e : b[k] = t[P + k]
  BY <1>1, PartOf
<1>5. a \in Text /\ Len(a) = e /\ \A k \in 1 .. e : a[k] = rest[k]
  <2>1. 0 \in Nat /\ 0 + e <= Len(rest) /\ SubSeq(rest, 0 + 1, 0 + e) = a
    BY <1>1, <1>3
  <2> HIDE DEF a
  <2>2. /\ SubSeq(rest, 0 + 1, 0 + e) \in Text /\ Len(SubSeq(rest, 0 + 1, 0 + e)) = e
        /\ \A k \in 1 .. e : SubSeq(rest, 0 + 1, 0 + e)[k] = rest[0 + k]
    BY <1>3, <2>1, PartOf
  <2>3. \A k \in 1 .. e : 0 + k = k
    OBVIOUS
  <2>4. QED  BY <2>1, <2>2, <2>3
<1>7. c \in Text /\ Len(c) = n - e /\ \A k \in 1 .. n - e : c[k] = rest[e + k]
  BY <1>1, <1>3, RestOf
<1>8. d \in Text /\ Len(d) = n - e /\ \A k \in 1 .. n - e : d[k] = t[P + e + k]
  <2> DEFINE p == P + e
             m == n - e
  <2>1. p \in Nat /\ p <= Len(t) /\ Len(t) - p = m
    BY <1>1
  <2>2. d = SubSeq(t, p + 1, Len(t))
    OBVIOUS
  <2> HIDE DEF d, p, m
  <2>3. d \in Text /\ Len(d) = m /\ \A k \in 1 .. m : d[k] = t[p + k]
    BY <2>1, <2>2, RestOf
  <2>4. QED  BY <2>3 DEF p, m
<1> HIDE DEF a, b, c, d
<1>9. a = b
  <2>1. \A k \in 1 .. e : a[k] = b[k]
    BY <1>1, <1>3, <1>4, <1>5
  <2>2. QED  BY <1>4, <1>5, <2>1 DEF Text
<1>10. c = d
  <2>1. ASSUME NEW k \in 1 .. n - e PROVE c[k] = d[k]
    <3>1. e + k \in 1 .. n /\ P + (e + k) = P + e + k
      BY <1>1
    <3>2. QED  BY <1>3, <1>7, <1>8, <3>1
  <2>2. QED  BY <1>7, <1>8, <2>1 DEF Text
<1>11. QED  BY <1>3, <1>9, <1>10 DEF n, rest, a, b, c, d

\* An unfinished line is no command.
LEMMA RestIsLost ==
  ASSUME typed \in Text, NEW P \in 0 .. Len(typed), NEW d, Reader[P] \in Readers,
         Reader[P].done = d,
         \A k \in 1 .. Len(typed) - P : Seen[P + k] = typed[P + k] /\ typed[P + k] # Newline
  PROVE  Reader[Len(typed)].done = d
<1> DEFINE n == Len(typed) - P
           Good(k) == Reader[P + k] \in Readers /\ Reader[P + k].done = d
           Bad == {k \in 0 .. n : ~Good(k)}
<1>1. P \in Nat /\ n \in Nat /\ P + n = Len(typed)
  BY DEF Text
<1>2. Good(0)
  BY <1>1
<1>3. ASSUME NEW k \in 1 .. n, Good(k - 1) PROVE Good(k)
  <2>1. P + k \in 1 .. Len(typed) /\ P + k - 1 = P + (k - 1)
    BY <1>1
  <2>2. Reader[P + k] = Take(Reader[P + (k - 1)], Seen[P + k])
    BY <1>1, <2>1, ReaderIs
  <2>3. Seen[P + k] \in Characters /\ Seen[P + k] # Newline
    <3>1. typed[P + k] \in Characters
      BY <2>1 DEF Text
    <3>2. QED  BY <3>1
  <2> HIDE DEF n
  <2>4. QED  BY <1>3, <2>2, <2>3, TakeKeeps
<1> HIDE DEF n, Good
<1>4. Bad = {}
  <2>1. SUFFICES ASSUME Bad # {} PROVE FALSE
    OBVIOUS
  <2>2. Bad \in SUBSET Nat
    BY <1>1
  <2>3. PICK k \in Bad : \A l \in Bad : k <= l
    BY <2>1, <2>2, Least
  <2>4. k \in 1 .. n
    BY <1>1, <1>2, <2>3
  <2>5. k - 1 \in 0 .. n /\ k - 1 \notin Bad
    BY <1>1, <2>3, <2>4
  <2>6. QED  BY <1>3, <2>3, <2>4, <2>5
<1>5. n \in 0 .. n
  BY <1>1
<1>6. Good(n)
  BY <1>4, <1>5
<1>7. QED  BY <1>1, <1>6 DEF Good

\* Between lines the reader has done what eval has carried out, and while eval
\* has a line the reader is still at its start.
CInv ==
  /\ typed \in Text /\ commands \in Seq(Commands) /\ at \in {"read", "eval", "exited"}
  /\ at = "read" =>
       \E P \in 0 .. Len(typed) :
         /\ input = SubSeq(typed, P + 1, Len(typed)) /\ Boundary(P)
         /\ AtStart(Reader[P], commands)
  /\ at = "eval" =>
       \E P \in 0 .. Len(typed), e \in 1 .. Len(typed) :
         /\ P + e <= Len(typed) /\ LineSeen(P, e) /\ Boundary(P + e)
         /\ cmdline = SubSeq(typed, P + 1, P + e)
         /\ input = SubSeq(typed, P + e + 1, Len(typed))
         /\ AtStart(Reader[P], commands)
  /\ at = "exited" => commands = Meant

LEMMA CInit == Init => CInv
<1> SUFFICES ASSUME Init PROVE CInv
  OBVIOUS
<1>1. typed \in Text /\ Len(typed) \in Nat /\ 0 \in 0 .. Len(typed)
  BY TextsAssumption DEF Init, Text
<1>2. <<>> \in Seq(Commands) /\ commands = <<>> /\ at = "read"
  BY DEF Init
<1>3. input = SubSeq(typed, 0 + 1, Len(typed))
  BY <1>1 DEF Init, Text
<1>4. Boundary(0)
  <2>1. 0 = 0 + 0 * Room
    BY MaxLineAssumption DEF Room
  <2>2. StartsAfter(0, 0, 0)
    BY <2>1 DEF StartsAfter
  <2>3. QED  BY <2>2 DEF Boundary
<1>5. AtStart(Reader[0], commands)
  <2>1. Reader[0] = Start
    BY <1>1, ReaderIs
  <2>2. <<>> \in Text /\ <<>> \in Words
    BY DEF Text, Words
  <2>3. QED  BY <1>2, <2>1, <2>2 DEF AtStart, Start, Readers
<1>6. QED  BY <1>1, <1>2, <1>3, <1>4, <1>5 DEF CInv

\* The text does not change, nor what it means up to a position.
LEMMA TextStays ==
  ASSUME typed' = typed
  PROVE  /\ Reader' = Reader
         /\ \A P : Boundary(P) <=> Boundary(P)'
         /\ \A P, e : LineSeen(P, e) <=> LineSeen(P, e)'
<1>1. Seen' = Seen
  BY DEF Seen, Column
<1>2. QED  BY <1>1 DEF Reader, Boundary, StartsAfter, LineSeen

LEMMA ReadLineKeeps == CInv /\ ReadLine => CInv'
<1> SUFFICES ASSUME CInv, ReadLine PROVE CInv'
  OBVIOUS
<1>1. /\ typed' = typed /\ commands' = commands /\ at' = "eval" /\ LineEnds(input) # {}
      /\ typed \in Text /\ commands \in Seq(Commands) /\ at = "read"
  BY DEF CInv, ReadLine
<1>2. PICK P \in 0 .. Len(typed) : /\ input = SubSeq(typed, P + 1, Len(typed)) /\ Boundary(P)
                                   /\ AtStart(Reader[P], commands)
  BY <1>1 DEF CInv
<1>3. LineEnds(input) = {k \in 1 .. Len(typed) - P : typed[P + k] = Newline \/ k = Room}
  BY <1>1, <1>2, LineEndsAre
<1>4. Len(typed) \in Nat /\ P \in Nat
  BY <1>1 DEF Text
<1>5. LineEnds(input) \in SUBSET Nat
  BY <1>3, <1>4
<1>6. PICK e \in LineEnds(input) : /\ \A m \in LineEnds(input) : e <= m
                                  /\ cmdline' = SubSeq(input, 1, e)
                                  /\ input' = SubSeq(input, e + 1, Len(input))
  <2> DEFINE end == CHOOSE k \in LineEnds(input) : \A m \in LineEnds(input) : k <= m
  <2>1. end \in LineEnds(input) /\ \A m \in LineEnds(input) : end <= m
    BY <1>1, <1>5, Least
  <2>2. cmdline' = SubSeq(input, 1, end) /\ input' = SubSeq(input, end + 1, Len(input))
    BY DEF ReadLine
  <2> HIDE DEF end
  <2>3. QED  BY <2>1, <2>2
<1>8. /\ e \in Nat \ {0} /\ e \in 1 .. Len(typed) /\ P + e <= Len(typed)
      /\ (typed[P + e] = Newline \/ e = Room)
  BY <1>3, <1>4, <1>6
<1>9. ASSUME NEW k \in 1 .. e - 1
      PROVE  P + k <= Len(typed) /\ typed[P + k] # Newline /\ k # Room
  <2>1. k \in 1 .. Len(typed) - P /\ ~(e <= k)
    BY <1>4, <1>8
  <2>2. k \notin LineEnds(input)
    BY <1>6, <2>1
  <2>3. QED  BY <1>3, <1>4, <2>1, <2>2
<1>10. LineSeen(P, e) /\ Boundary(P + e)
  BY <1>1, <1>2, <1>8, <1>9, FgetsStops DEF LineSeen
<1>11. cmdline' = SubSeq(typed, P + 1, P + e) /\ input' = SubSeq(typed, P + e + 1, Len(typed))
  <2>1. e \in Nat
    BY <1>8
  <2>2. QED  BY <1>1, <1>2, <1>4, <1>6, <1>8, <2>1, RestOfRest
<1>12. Reader' = Reader /\ LineSeen(P, e)' /\ Boundary(P + e)'
  BY <1>1, <1>10, TextStays
<1>13. QED  BY <1>1, <1>2, <1>8, <1>11, <1>12 DEF CInv

LEMMA ReadEndKeeps == CInv /\ ReadEnd => CInv'
<1> SUFFICES ASSUME CInv, ReadEnd PROVE CInv'
  OBVIOUS
<1>1. /\ typed' = typed /\ commands' = commands /\ at' = "exited" /\ LineEnds(input) = {}
      /\ input' = <<>> /\ typed \in Text /\ commands \in Seq(Commands) /\ at = "read"
  BY DEF CInv, ReadEnd
<1>2. PICK P \in 0 .. Len(typed) : /\ input = SubSeq(typed, P + 1, Len(typed)) /\ Boundary(P)
                                   /\ AtStart(Reader[P], commands)
  BY <1>1 DEF CInv
<1> DEFINE e == Len(typed) - P + 1
<1>3. {k \in 1 .. Len(typed) - P : typed[P + k] = Newline \/ k = Room} = {}
  BY <1>1, <1>2, LineEndsAre
<1>4. Len(typed) \in Nat /\ P \in Nat /\ e \in Nat \ {0} /\ e - 1 = Len(typed) - P
  BY <1>1 DEF Text
<1>5. \A k \in 1 .. Len(typed) - P : P + k <= Len(typed) /\ typed[P + k] # Newline /\ k # Room
  <2> SUFFICES ASSUME NEW k \in 1 .. Len(typed) - P
               PROVE  P + k <= Len(typed) /\ typed[P + k] # Newline /\ k # Room
    OBVIOUS
  <2>1. k \notin {l \in 1 .. Len(typed) - P : typed[P + l] = Newline \/ l = Room}
    BY <1>3
  <2>2. P + k <= Len(typed)
    BY <1>4
  <2>3. QED  BY <2>1, <2>2
<1> HIDE DEF e
<1>6. \A k \in 1 .. Len(typed) - P : Seen[P + k] = typed[P + k] /\ typed[P + k] # Newline
  <2>1. \A k \in 1 .. e - 1 : Seen[P + k] = typed[P + k] /\ typed[P + k] # Newline
    BY <1>1, <1>2, <1>4, <1>5, FgetsStops
  <2>2. QED  BY <1>4, <2>1
<1>7. Reader[Len(typed)].done = commands
  BY <1>1, <1>2, <1>6, RestIsLost DEF AtStart
<1>8. Reader' = Reader
  BY <1>1, TextStays
<1>9. Meant' = Reader[Len(typed)].done
  BY <1>1, <1>4, <1>8 DEF Meant
<1>10. QED  BY <1>1, <1>7, <1>9 DEF CInv

LEMMA EvaluateKeeps == CInv /\ Evaluate => CInv'
<1> SUFFICES ASSUME CInv, Evaluate PROVE CInv'
  OBVIOUS
<1> DEFINE done == eval(cmdline)
           quits == done # <<>> /\ done[1].kind = "quit"
<1>1. /\ typed' = typed /\ input' = input /\ commands' = commands \o done
      /\ at' = (IF quits THEN "exited" ELSE "read")
      /\ typed \in Text /\ commands \in Seq(Commands) /\ at = "eval"
  BY DEF CInv, Evaluate
<1>2. PICK P \in 0 .. Len(typed), e \in 1 .. Len(typed) :
         /\ P + e <= Len(typed) /\ LineSeen(P, e) /\ Boundary(P + e)
         /\ cmdline = SubSeq(typed, P + 1, P + e)
         /\ input = SubSeq(typed, P + e + 1, Len(typed))
         /\ AtStart(Reader[P], commands)
  BY <1>1 DEF CInv
<1>3. Len(typed) \in Nat /\ P \in Nat /\ e \in Nat
  BY <1>1 DEF Text
<1>4. cmdline \in Text /\ Len(cmdline) = e /\ \A k \in 1 .. e : cmdline[k] = typed[P + k]
  BY <1>1, <1>2, <1>3, PartOf
<1>5. /\ done \in Seq(Commands) /\ Reader[P + e].done = commands \o done
      /\ ~quits => AtStart(Reader[P + e], commands \o done)
  BY <1>1, <1>2, <1>4, LineMeans
<1> HIDE DEF done
<1>6. commands' \in Seq(Commands)
  BY <1>1, <1>5
<1>7. Reader' = Reader /\ Boundary(P + e)'
  BY <1>1, <1>2, TextStays
<1>8. P + e \in 0 .. Len(typed)
  BY <1>2, <1>3
<1>9. CASE ~quits
  BY <1>1, <1>2, <1>5, <1>6, <1>7, <1>8, <1>9 DEF CInv
<1>10. CASE quits
  <2>1. P + e \in Nat /\ P + e <= Len(typed)
    BY <1>3, <1>8
  <2>2. Len(input) = Len(typed) - (P + e)
    BY <1>1, <1>2, <2>1, RestOf
  <2>3. Meant' = Reader[P + e].done
    <3>1. Len(typed) - Len(input) = P + e
      BY <1>3, <2>1, <2>2
    <3>2. QED  BY <1>1, <1>7, <3>1 DEF Meant
  <2>4. QED  BY <1>1, <1>5, <1>6, <1>10, <2>3 DEF CInv
<1>11. QED  BY <1>9, <1>10

LEMMA CStep == CInv /\ [Next]_vars => CInv'
<1> SUFFICES ASSUME CInv, [Next]_vars PROVE CInv'
  OBVIOUS
<1>1. CASE UNCHANGED vars
  <2>1. /\ typed' = typed /\ input' = input /\ cmdline' = cmdline /\ commands' = commands
        /\ at' = at
    BY <1>1 DEF vars
  <2>2. Reader' = Reader /\ Meant' = Meant
    BY <2>1, TextStays DEF Meant
  <2>3. /\ \A P : Boundary(P) <=> Boundary(P)'
        /\ \A P, e : LineSeen(P, e) <=> LineSeen(P, e)'
    BY <2>1, TextStays
  <2>4. QED  BY <2>1, <2>2, <2>3 DEF CInv
<1>2. CASE ReadLine
  BY <1>2, ReadLineKeeps
<1>3. CASE ReadEnd
  BY <1>3, ReadEndKeeps
<1>4. CASE Evaluate
  BY <1>4, EvaluateKeeps
<1>5. QED  BY <1>1, <1>2, <1>3, <1>4 DEF Next

LEMMA CMeans == CInv => CommandsAreMeant
<1> SUFFICES ASSUME CInv, at # "eval" PROVE commands = Meant
  BY DEF CommandsAreMeant
<1>1. CASE at = "exited"
  BY <1>1 DEF CInv
<1>2. CASE at = "read"
  <2>1. typed \in Text
    BY DEF CInv
  <2>2. PICK P \in 0 .. Len(typed) : /\ input = SubSeq(typed, P + 1, Len(typed))
                                     /\ AtStart(Reader[P], commands)
    BY <1>2 DEF CInv
  <2>3. Len(typed) \in Nat /\ P \in Nat /\ P <= Len(typed)
    BY <2>1 DEF Text
  <2>4. Len(input) = Len(typed) - P
    BY <2>1, <2>2, <2>3, RestOf
  <2>5. Len(typed) - Len(input) = P
    BY <2>3, <2>4
  <2>6. QED  BY <2>2, <2>5 DEF Meant, AtStart
<1>3. QED  BY <1>1, <1>2 DEF CInv

\* Whatever is typed and whatever the size of the line buffer, the commands tsh
\* has carried out are those the characters read so far spell, in their order:
\* the read loop of main, parseline and eval lose none, repeat none, and go
\* over no quit.
THEOREM CommandsFollowTheText == Spec => []CommandsAreMeant
<1>1. Init => CInv
  BY CInit
<1>2. CInv /\ [Next]_vars => CInv'
  BY CStep
<1>3. CInv => CommandsAreMeant
  BY CMeans
<1>4. QED  BY <1>1, <1>2, <1>3, PTL DEF Spec
==============================================================================
