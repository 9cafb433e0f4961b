---------------------------------- MODULE Btest ----------------------------------
(***************************************************************************)
(* btest: main reads the options, then run_tests gives each puzzle of      *)
(* test_set that was asked for to test_function, which makes test values   *)
(* for its arguments, sets an alarm, compares the solution with the        *)
(* reference on every combination, and stops at the first error.  The      *)
(* alarm's handler jumps back into test_function.  It is not cancelled     *)
(* when the tests end.                                                     *)
(***************************************************************************)
EXTENDS Numbers

CONSTANTS CommandLines, \* sequences of options
          TEST_RANGE,
          Randoms,    \* what random_val may return, by the number of arguments
          Looping,    \* puzzles whose solution is replaced by one that never returns
          Slow        \* puzzles whose tests may take as long as the time limit

\* Name, number of arguments, rating, and whether the argument is a float.
Puzzle(name, args, rating, float) ==
  [name |-> name, args |-> args, rating |-> rating, float |-> float]
test_set == << Puzzle("bitXor", 2, 1, FALSE),        Puzzle("tmin", 0, 1, FALSE),
               Puzzle("isTmax", 1, 2, FALSE),        Puzzle("allOddBits", 1, 2, FALSE),
               Puzzle("negate", 1, 2, FALSE),        Puzzle("isAsciiDigit", 1, 3, FALSE),
               Puzzle("conditional", 3, 3, FALSE),   Puzzle("isLessOrEqual", 2, 3, FALSE),
               Puzzle("logicalNeg", 1, 4, FALSE),    Puzzle("howManyBits", 1, 4, FALSE),
               Puzzle("float_twice", 1, 4, TRUE),    Puzzle("float_i2f", 1, 4, TRUE),
               Puzzle("float_f2i", 1, 4, TRUE) >>

Names == {test_set[p].name : p \in 1 .. Len(test_set)}

\* What getopt and atoi make of an option: its letter and, if it has one, its argument.
ArgOptions == <<"1", "2", "3">>
IsOption(option) == \/ option[1] = "f" /\ option[2] \in STRING
                    \/ option[1] \in {"r", "T"} /\ option[2] \in Int
                    \/ option[1] \in Range(ArgOptions) /\ IsText(option[2])
                    \/ option[1] \in {"g", "h", "?"}

ASSUME BtestAssumption ==
  /\ CommandLines # {} /\ TEST_RANGE \in Nat \ {0} /\ Looping \subseteq Names /\ Slow \subseteq Names
  /\ \A l \in CommandLines : l \in Seq(Range(l)) /\ \A k \in DOMAIN l : IsOption(l[k])
  /\ \A args \in 1 .. 3 : Randoms[args] \subseteq Word

\* The results the build can give: more than one only where C leaves it open.
Solution(name, a) ==
  CASE name = "bitXor" -> {bitXor(a[1], a[2])}   [] name = "tmin" -> {tmin}
    [] name = "isTmax" -> isTmax(a[1])           [] name = "allOddBits" -> {allOddBits(a[1])}
    [] name = "negate" -> {negate(a[1])}         [] name = "isAsciiDigit" -> {isAsciiDigit(a[1])}
    [] name = "conditional" -> {conditional(a[1], a[2], a[3])}
    [] name = "isLessOrEqual" -> {isLessOrEqual(a[1], a[2])}
    [] name = "logicalNeg" -> {logicalNeg(a[1])} [] name = "howManyBits" -> {howManyBits(a[1])}
    [] name = "float_twice" -> {float_twice(a[1])}
    [] name = "float_i2f" -> {float_i2f(a[1])}   [] name = "float_f2i" -> {float_f2i(a[1])}
Reference(name, a) ==
  CASE name = "bitXor" -> test_bitXor(a[1], a[2]) [] name = "tmin" -> test_tmin
    [] name = "isTmax" -> test_isTmax(a[1])       [] name = "allOddBits" -> test_allOddBits(a[1])
    [] name = "negate" -> test_negate(a[1])       [] name = "isAsciiDigit" -> test_isAsciiDigit(a[1])
    [] name = "conditional" -> test_conditional(a[1], a[2], a[3])
    [] name = "isLessOrEqual" -> test_isLessOrEqual(a[1], a[2])
    [] name = "logicalNeg" -> test_logicalNeg(a[1]) [] name = "howManyBits" -> test_howManyBits(a[1])
    [] name = "float_twice" -> test_float_twice(a[1])
    [] name = "float_i2f" -> test_float_i2f(a[1]) [] name = "float_f2i" -> test_float_f2i(a[1])

VARIABLES line,     \* the command line
          optind,   \* how many of its options main has read
          flags,    \* the globals they set; argval[k] is empty while has_arg[k] is 0
          i,        \* run_tests's index
          pc,       \* "options", "next", "generate", "arm", "test", "score" or an end:
                    \* "done", "usage", "refused", "crashed"
          draws,    \* what random_val returned, for each argument
          alarm,    \* the puzzle that set the pending alarm, 0 if none is pending
          found,    \* what test_function has found: "right", "wrong", "timeout", "late"
          verdict,  \* the same for every puzzle scored
          points, max_points
main_vars  == <<line, optind, flags>>
score_vars == <<verdict, points, max_points>>
vars       == <<main_vars, i, pc, draws, alarm, found, score_vars>>

Init == /\ line \in CommandLines /\ optind = 0
        /\ flags = [test_fname |-> "", global_rating |-> 0, limited |-> TRUE,
                    argval |-> [o \in Range(ArgOptions) |-> <<>>]]
        /\ i = 1 /\ pc = "options" /\ draws = <<>> /\ alarm = 0 /\ found = "right"
        /\ verdict = [p \in 1 .. Len(test_set) |-> "none"] /\ points = 0 /\ max_points = 0

\* A fixed argument: has_arg becomes what get_num_val returns.
FixArgument(o, text) ==
  LET old == IF flags.argval[o] = <<>> THEN Zero ELSE flags.argval[o][1]
  IN  IF TakenByBtest(text, old)
      THEN flags' = [flags EXCEPT !.argval[o] = <<Stored(text)>>] /\ UNCHANGED pc
      ELSE pc' = "refused" /\ UNCHANGED flags

\* One round of the getopt loop; -g changes only what is printed.
ReadOption ==
  /\ pc = "options" /\ optind < Len(line)
  /\ optind' = optind + 1
  /\ LET option == line[optind + 1] IN
     \/ option[1] = "f" /\ flags' = [flags EXCEPT !.test_fname = option[2]] /\ UNCHANGED pc
     \/ option[1] = "r" /\ flags' = [flags EXCEPT !.global_rating = option[2]]
                        /\ pc' = IF option[2] < 0 THEN "usage" ELSE pc
     \/ option[1] = "T" /\ flags' = [flags EXCEPT !.limited = option[2] > 0] /\ UNCHANGED pc
     \/ option[1] \in Range(ArgOptions) /\ FixArgument(option[1], option[2])
     \/ option[1] = "g" /\ UNCHANGED <<flags, pc>>
     \/ option[1] \in {"h", "?"} /\ pc' = "usage" /\ UNCHANGED flags
  /\ UNCHANGED <<line, i, draws, alarm, found, score_vars>>

RunTests == /\ pc = "options" /\ optind = Len(line) /\ pc' = "next"
            /\ UNCHANGED <<main_vars, i, draws, alarm, found, score_vars>>

\* The range of an argument's values, so that their product is TEST_RANGE.
arg_test_range(args) ==
  CHOOSE n \in 1 .. TEST_RANGE : n ^ args <= TEST_RANGE /\ (n + 1) ^ args > TEST_RANGE

\* Around zero, the smallest normal float, one and the largest, and the infinities
\* and NaNs; each with either sign.
FloatVals(range) ==
  LET n == 0 .. (IF range > 2 ^ FB THEN 2 ^ FB ELSE range) - 1
      around == UNION {{k, 2 ^ FB + k, 2 ^ FB - k, Bias * 2 ^ FB + k, Bias * 2 ^ FB - k,
                        MaxExp * 2 ^ FB - 1 - k} : k \in n}
      positive == {Bits[k] : k \in around} \union {ExpMask, ExpMask \union {FB - 1}}
  IN  positive \union {Tmin \union p : p \in positive}

Fixed(k) == flags.argval[ArgOptions[k]]

\* The fixed value; or all ints if they are few; or those near the limits and zero
\* and a random one.  The arguments of every int puzzle range over all ints.
gen_vals(p, arg, draw) ==
  LET range == arg_test_range(p.args)
      n == 0 .. range - 1
  IN  IF Fixed(arg) # <<>> THEN Range(Fixed(arg))
      ELSE IF p.float THEN FloatVals(range)
      ELSE IF Int_(Tmax) - 13 * TEST_RANGE <= Int_(Tmin) THEN Word
      ELSE (UNION {{Bits[Int_(Tmin) + k], Bits[Int_(Tmax) - k], Bits[k], Bits[-k]} : k \in n})
             \union {draw}

\* The loops over the values of one, two or three arguments; tmin is called once.
Combinations(p) ==
  LET vals == [k \in 1 .. p.args |-> gen_vals(p, k, draws[k])]
  IN  CASE p.args = 0 -> {<<>>}
        [] p.args = 1 -> {<<a>> : a \in vals[1]}
        [] p.args = 2 -> vals[1] \X vals[2]
        [] p.args = 3 -> vals[1] \X vals[2] \X vals[3]

Asked(p) == flags.test_fname \in {"", test_set[p].name}

Begin == /\ pc = "next" /\ i <= Len(test_set)
         /\ IF Asked(i) THEN pc' = "generate" /\ UNCHANGED i ELSE i' = i + 1 /\ UNCHANGED pc
         /\ UNCHANGED <<main_vars, draws, alarm, found, score_vars>>

\* gen_vals for one argument after the other; a float puzzle or a fixed value draws
\* nothing.
Generate ==
  /\ pc = "generate"
  /\ LET p == test_set[i]
     IN  IF Len(draws) = p.args THEN pc' = "arm" /\ UNCHANGED draws
         ELSE /\ LET random == ~p.float /\ Fixed(Len(draws) + 1) = <<>>
                 IN  \E r \in IF random THEN Randoms[p.args] ELSE {Zero} :
                       draws' = Append(draws, r)
              /\ UNCHANGED pc
  /\ UNCHANGED <<main_vars, i, alarm, found, score_vars>>

\* sigsetjmp and alarm, which replaces an earlier alarm, if there is a time limit.
SetAlarm_BugOnce ==
  /\ pc = "arm" /\ pc' = "test" /\ alarm' = IF i = 1 THEN i ELSE alarm
  /\ UNCHANGED <<main_vars, i, draws, found, score_vars>>
SetAlarm ==
  /\ pc = "arm" /\ pc' = "test" /\ alarm' = IF flags.limited THEN i ELSE alarm
  /\ UNCHANGED <<main_vars, i, draws, found, score_vars>>

\* The loops return, at the first difference or at the end.
Returns ==
  /\ pc = "test" /\ test_set[i].name \notin Looping
  /\ pc' = "score" /\ found' \in {"right", "wrong"} /\ draws' = <<>>
  /\ UNCHANGED <<main_vars, i, alarm, score_vars>>

\* A combination whose result is not the reference, or need not be.
Test ==
  /\ Returns
  /\ LET name == test_set[i].name
         bad  == {a \in Combinations(test_set[i]) : Solution(name, a) # {Reference(name, a)}}
     IN  IF found' = "right" THEN \A a \in bad : Reference(name, a) \in Solution(name, a)
                             ELSE bad # {}

\* The handler jumps to the sigsetjmp of the running test.
TimeOut ==
  /\ pc = "test" /\ alarm = i /\ test_set[i].name \in Looping \union Slow
  /\ found' = "timeout" /\ pc' = "score" /\ alarm' = 0 /\ draws' = <<>>
  /\ UNCHANGED <<main_vars, i, score_vars>>

\* The alarm of finished tests goes off: the handler jumps into a frame that has
\* returned.  If its place on the stack still holds, or again holds, a call of
\* test_function, that call reports a timeout, for its own puzzle or the next.
LateAlarm ==
  /\ alarm # 0 /\ test_set[alarm].name \in Slow /\ pc \in {"score", "next", "generate", "arm"}
  /\ \/ pc' = "crashed" /\ UNCHANGED <<i, draws, found>>
     \/ /\ pc' = "score" /\ found' = "late" /\ draws' = <<>>
        /\ i' \in {alarm, i} \ {Len(test_set) + 1}
  /\ alarm' = 0
  /\ UNCHANGED <<main_vars, score_vars>>

\* All points or none; -r gives every puzzle the same rating, unless it is 0.
Rating(p) == IF flags.global_rating # 0 THEN flags.global_rating ELSE test_set[p].rating
Score_BugCountsTried ==
  /\ pc = "score"
  /\ verdict' = [verdict EXCEPT ![i] = found]
  /\ points' = points + (IF found = "right" THEN Rating(i) ELSE 0)
  /\ max_points' = max_points + (IF found = "late" THEN 0 ELSE Rating(i))
  /\ i' = i + 1 /\ pc' = "next"
  /\ UNCHANGED <<main_vars, draws, alarm, found>>
Score ==
  /\ pc = "score"
  /\ verdict' = [verdict EXCEPT ![i] = found]
  /\ points' = points + (IF found = "right" THEN Rating(i) ELSE 0)
  /\ max_points' = max_points + Rating(i)
  /\ i' = i + 1 /\ pc' = "next"
  /\ UNCHANGED <<main_vars, draws, alarm, found>>

Finish == /\ pc = "next" /\ i = Len(test_set) + 1 /\ pc' = "done"
          /\ UNCHANGED <<main_vars, i, draws, alarm, found, score_vars>>

Next == ReadOption \/ RunTests \/ Begin \/ Generate \/ SetAlarm \/ Test \/ TimeOut \/ LateAlarm \/ Score \/ Finish

\* The program runs, and a pending alarm goes off if the test does not return.
\* Fairness looks at the end of a test, not at its outcome: there always is one.
Progress == ReadOption \/ RunTests \/ Begin \/ Generate \/ SetAlarm \/ Returns \/ TimeOut \/ LateAlarm \/ Score \/ Finish
Spec == Init /\ [][Next]_vars /\ WF_vars(Progress)

-------------------------------------------------------------------------------
(* What should hold. *)

Ends == {"done", "usage", "refused", "crashed"}

\* No verdict falls on a puzzle nobody asked for, but for that of a late alarm; what
\* does not return never passes, and only what is slow or does not return times out.
VerdictsFit ==
  \A p \in 1 .. Len(test_set) :
    CASE verdict[p] = "wrong"     -> Asked(p)
      [] verdict[p] = "right"     -> test_set[p].name \notin Looping /\ Asked(p)
      [] verdict[p] = "timeout" -> test_set[p].name \in Looping \union Slow /\ flags.limited
      [] verdict[p] = "late"      -> \E q \in 1 .. p : test_set[q].name \in Slow
      [] OTHER                    -> TRUE

\* Every puzzle of bits.c passes its tests, whatever value random_val draws, and
\* only those can: isTmax, whose sum overflows, may fail if the largest int is among
\* its values (btest.c:296-419, 436).
VerdictsAreRight ==
  /\ VerdictsFit
  /\ \A p \in 1 .. Len(test_set) :
       verdict[p] = "wrong" => test_set[p].name = "isTmax" /\ Fixed(1) \in {<<>>, <<Tmax>>}

\* What the first n options fix an argument to: the last -1 (-2, -3) decides, and
\* nothing is fixed that was not typed.
LastTyped(o, n) ==
  LET typed == {k \in 1 .. n : line[k][1] = o}
  IN  IF typed = {} THEN <<>> ELSE <<line[Max(typed)][2]>>
LastIsFixed(n) ==
  \A o \in Range(ArgOptions) :
    LET text == LastTyped(o, n)
    IN  flags.argval[o] = IF text = <<>> THEN <<>> ELSE <<Stored(text[1])>>

\* The values the tests use are those of the command line, and the 32 bits stored are
\* the number typed, as an int or as an unsigned (btest.c:458-497, 542-561).
FixedValuesAreTyped ==
  pc \notin {"options", "usage", "refused"} =>
    /\ LastIsFixed(Len(line))
    /\ \A o \in Range(ArgOptions) :
         LET text == LastTyped(o, Len(line))
             word == flags.argval[o][1]
         IN  text # <<>> =>
               IF text[1].float THEN word = text[1].value
               ELSE text[1].value \in {Int_(word), Num[word]}

\* The total is full if and only if every puzzle scored is right, although a late
\* alarm can have a puzzle scored twice (btest.c:436-451).
FullMarksMeanAllRight ==
  points = max_points <=> \A p \in 1 .. Len(test_set) : verdict[p] \in {"none", "right"}

\* A solution that never returns does not keep the others from being tested: every
\* puzzle asked for gets a verdict, unless main refuses the options, a late alarm
\* ends the process, or -T has switched the time limit off (btest.c:347-358, 571).
EveryPuzzleIsTested ==
  <>(\/ pc \in Ends \ {"done"}
     \/ pc = "test" /\ ~flags.limited /\ test_set[i].name \in Looping
     \/ pc = "done" /\ \A p \in 1 .. Len(test_set) : Asked(p) => verdict[p] # "none")
===============================================================================
