----------------------------------- MODULE Show -----------------------------------
(***************************************************************************)
(* ishow and fshow: each displays its arguments one after the other.       *)
(* ishow reports a bad one and goes on, fshow prints its usage and exits.  *)
(***************************************************************************)
EXTENDS Numbers

CONSTANTS Texts, MAXARGC

ASSUME ShowAssumption == MAXARGC \in Nat /\ \A text \in Texts : IsText(text)

VARIABLES tool,       \* which program was started
          argv,       \* its arguments, without argv[0]
          shown,      \* what it has displayed for each argument handled
          exited      \* whether main has returned or usage exited
showVars == <<tool, argv, shown, exited>>

Bad == [class |-> "bad"]

ShowInit == /\ tool \in {"ishow", "fshow"}
            /\ argv \in UNION {[1 .. n -> Texts] : n \in 0 .. MAXARGC}
            /\ shown = <<>> /\ exited = FALSE

Current == argv[Len(shown) + 1]
Running == ~exited /\ Len(shown) < Len(argv)

ShowInt ==
  /\ tool = "ishow" /\ Running
  /\ shown' = Append(shown, IF TakenByIshow(Current) THEN show_int(Stored(Current)) ELSE Bad)
  /\ UNCHANGED <<tool, argv, exited>>

ShowFloat_BugGoesOn ==
  /\ tool = "fshow" /\ Running
  /\ shown' = Append(shown, IF TakenByFshow(Current) THEN show_float(Stored(Current)) ELSE Bad)
  /\ UNCHANGED <<tool, argv, exited>>
ShowFloat ==
  /\ tool = "fshow" /\ Running
  /\ IF TakenByFshow(Current)
     THEN shown' = Append(shown, show_float(Stored(Current))) /\ UNCHANGED exited
     ELSE shown' = Append(shown, Bad) /\ exited' = TRUE
  /\ UNCHANGED <<tool, argv>>

\* Without arguments, usage exits; otherwise main returns after the last one.
Leave == /\ ~exited /\ Len(shown) = Len(argv) /\ exited' = TRUE
         /\ UNCHANGED <<tool, argv, shown>>

ShowNext == ShowInt \/ ShowFloat \/ Leave

-------------------------------------------------------------------------------
(* What should hold. *)

\* A text that either program refuses is no number it can hold, and what it shows is
\* exactly the number typed: to ishow as an int or an unsigned, to fshow as the bits
\* of a float, of which the mantissa, exponent and class displayed give the value
\* (ishow.c:11-52, fshow.c:59-127).
ShownRight(k) ==
  LET text == argv[k]
      s    == shown[k]
      bits == IF text.float THEN text.value ELSE Bits[text.value]
      size == bits \ Tmin
  IN  CASE s = Bad /\ text.float  -> tool = "ishow" \/ text.rest
        [] s = Bad /\ ~text.float -> \A w \in Word : text.value \notin {Int_(w), Num[w]}
        [] s # Bad /\ tool = "ishow" -> text.value \in {s.signed, s.unsigned} /\ s.hex = bits
        [] s # Bad /\ tool = "fshow" ->
             /\ text.float \/ text.value \in {Int_(bits), Num[bits]}
             /\ s.sign = 1 <=> Negative(bits)
             /\ CASE size \in Finite -> /\ s.mantissa * 2 ^ (s.uexp + Bias - 1) = Magnitude[size]
                                        /\ s.class = "normalized" <=> s.mantissa >= 2 ^ FB
                  [] size = ExpMask  -> s.class = "infinity"
                  [] OTHER           -> s.class = "nan"

\* ishow answers for every argument, fshow for all up to the first it refuses
\* (ishow.c:71-78, fshow.c:144-152).
AnswersGoOn ==
  /\ tool = "fshow" => \A k \in 1 .. Len(shown) - 1 : shown[k] # Bad
  /\ exited => \/ Len(shown) = Len(argv)
               \/ tool = "fshow" /\ shown # <<>> /\ Last(shown) = Bad

\* Every argument gets an answer, and every answer is right.
ValuesAreExact == AnswersGoOn /\ \A k \in DOMAIN shown : ShownRight(k)
===============================================================================
