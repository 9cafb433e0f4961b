----------------------------- MODULE CommandLine -----------------------------
(***************************************************************************)
(* What tsh makes of the text it reads: the read loop of main, parseline,  *)
(* and the dispatch of eval and builtin_cmd.  Shell takes over from here:  *)
(* a command of kind "run" is its RunCommand, "fg" and "bg" its LookUpJob, *)
(* "quit" its Exit.                                                        *)
(*                                                                         *)
(* A character is a blank, a newline, a quote, an ampersand, or a letter;  *)
(* one letter stands for each of the words quit, jobs, fg and bg.  The     *)
(* texts are short enough for argv (MAXARGS is not checked by the code).   *)
(***************************************************************************)
EXTENDS Integers, Sequences

CONSTANTS Characters,   \* what may be typed
          Texts,        \* what may come in on stdin before it ends
          MAXLINE       \* size of the line buffer (1024 in the code)

ASSUME MaxLineAssumption == MAXLINE \in Nat /\ MAXLINE >= 2

Blank == "blank"
Newline == "newline"
Quote == "quote"
Ampersand == "ampersand"
Builtins == {"quit", "jobs", "fg", "bg"}

ASSUME TextsAssumption == /\ {Blank, Newline, Quote} \subseteq Characters
                          /\ Texts \subseteq Seq(Characters)

VARIABLES typed,        \* all of stdin
          input,        \* what fgets has not read yet
          cmdline,      \* the line main passes to eval
          commands,     \* the commands eval has carried out, in order
          at            \* "read", "eval", or "exited"

vars == <<typed, input, cmdline, commands, at>>

NoPosition == 0

\* The first position from i on that holds c (strchr).
strchr(buf, i, c) ==
  LET found == {k \in i .. Len(buf) : buf[k] = c}
  IN  IF found = {} THEN NoPosition ELSE CHOOSE k \in found : \A m \in found : k <= m

\* The first position from i on that holds no blank; Len(buf) + 1 at the end.
SkipBlanks(buf, i) ==
  CHOOSE k \in i .. Len(buf) + 1 :
    /\ k <= Len(buf) => buf[k] # Blank
    /\ \A m \in i .. k - 1 : buf[m] = Blank

\* The argument that starts at i, and where the scan goes on after it; the
\* line has no argument left when its delimiter is missing.
At(buf, i, c) == i <= Len(buf) /\ buf[i] = c

Argument_BugQuoteInside(buf, start) ==
  LET from  == IF At(buf, start, Quote) THEN start + 1 ELSE start
      delim == strchr(buf, from, Blank)
  IN  [found |-> delim # NoPosition, text |-> SubSeq(buf, from, delim - 1), next |-> delim + 1]

Argument(buf, start) ==
  LET from  == IF At(buf, start, Quote) THEN start + 1 ELSE start
      delim == strchr(buf, from, IF At(buf, start, Quote) THEN Quote ELSE Blank)
  IN  [found |-> delim # NoPosition, text |-> SubSeq(buf, from, delim - 1), next |-> delim + 1]

\* The arguments of a line whose last character has become a blank, from each of its
\* positions on.
ArgumentsFrom(buf) ==
  LET from[i \in 1 .. Len(buf) + 1] ==
        LET arg == Argument(buf, SkipBlanks(buf, i))
        IN  IF arg.found THEN <<arg.text>> \o from[arg.next] ELSE <<>>
  IN  from
Arguments(buf) == ArgumentsFrom(buf)[1]

\* parseline: the arguments, and whether the last one asks for the background
\* (it is then dropped, whatever follows its ampersand).
parseline(line) ==
  LET argv == Arguments([line EXCEPT ![Len(line)] = Blank])
      argc == Len(argv)
  IN  IF argc = 0 THEN [argv |-> <<>>, bg |-> TRUE]
      ELSE IF At(argv[argc], 1, Ampersand)
           THEN [argv |-> SubSeq(argv, 1, argc - 1), bg |-> TRUE]
           ELSE [argv |-> argv, bg |-> FALSE]

\* builtin_cmd knows four words; eval runs anything else.
Kind(argv) == IF Len(argv[1]) = 1 /\ argv[1][1] \in Builtins THEN argv[1][1] ELSE "run"

\* What one line makes the shell do: nothing, or one command.
eval(line) ==
  LET parsed == parseline(line)
  IN  IF parsed.argv = <<>> THEN <<>>
      ELSE <<[kind |-> Kind(parsed.argv), argv |-> parsed.argv,
              bg |-> Kind(parsed.argv) = "run" /\ parsed.bg]>>

\* What fgets returns: up to a newline, and at most MAXLINE - 1 characters.
LineEnds_BugWholeBuffer(text) == {k \in 1 .. Len(text) : text[k] = Newline \/ k = MAXLINE}
LineEnds(text) == {k \in 1 .. Len(text) : text[k] = Newline \/ k = MAXLINE - 1}

Init == /\ typed \in Texts /\ input = typed
        /\ cmdline = <<>> /\ commands = <<>> /\ at = "read"

\* A line was read before the end of the input.
ReadLine ==
  /\ at = "read" /\ LineEnds(input) # {}
  /\ LET end == CHOOSE k \in LineEnds(input) : \A m \in LineEnds(input) : k <= m
     IN  /\ cmdline' = SubSeq(input, 1, end)
         /\ input' = SubSeq(input, end + 1, Len(input))
  /\ at' = "eval"
  /\ UNCHANGED <<typed, commands>>

\* The end of the input, which also ends the shell if a last line without a
\* newline was read on the way: main looks at feof before it calls eval.
ReadEnd ==
  /\ at = "read" /\ LineEnds(input) = {}
  /\ cmdline' = IF input = <<>> THEN cmdline ELSE input
  /\ input' = <<>>
  /\ at' = "exited"
  /\ UNCHANGED <<typed, commands>>

Evaluate ==
  /\ at = "eval"
  /\ commands' = commands \o eval(cmdline)
  /\ at' = IF eval(cmdline) # <<>> /\ eval(cmdline)[1].kind = "quit" THEN "exited" ELSE "read"
  /\ UNCHANGED <<typed, input, cmdline>>

Next == ReadLine \/ ReadEnd \/ Evaluate

Spec == Init /\ [][Next]_vars

-------------------------------------------------------------------------------
(* The same told from the characters on: a reader that takes one character  *)
(* after the other, with no buffer and no search.                           *)

Start == [mode |-> "between", word |-> <<>>, words |-> <<>>, done |-> <<>>, over |-> FALSE]

EndWord(r) == [r EXCEPT !.mode = "between", !.word = <<>>, !.words = Append(@, r.word)]

\* At the end of a line an open word counts and an open quote does not; a last
\* word with an ampersand in front only says "in the background".
EndLine(r) ==
  LET words == IF r.mode = "word" THEN Append(r.words, r.word) ELSE r.words
      bg    == words # <<>> /\ words[Len(words)] # <<>> /\ words[Len(words)][1] = Ampersand
      argv  == IF bg THEN SubSeq(words, 1, Len(words) - 1) ELSE words
      name  == IF argv # <<>> /\ argv[1] \in {<<b>> : b \in Builtins} THEN argv[1][1] ELSE "run"
  IN  [Start EXCEPT
         !.done = IF argv = <<>> THEN r.done
                  ELSE Append(r.done, [kind |-> name, argv |-> argv, bg |-> bg /\ name = "run"]),
         !.over = argv # <<>> /\ name = "quit"]

Take(r, c) ==
  CASE r.over -> r
    [] ~r.over /\ c = Newline -> EndLine(r)
    [] ~r.over /\ c = Blank /\ r.mode = "word" -> EndWord(r)
    [] ~r.over /\ c = Quote /\ r.mode = "quoted" -> EndWord(r)
    [] ~r.over /\ c = Quote /\ r.mode = "between" -> [r EXCEPT !.mode = "quoted"]
    [] ~r.over /\ c = Blank /\ r.mode = "between" -> r
    [] OTHER -> [r EXCEPT !.word = Append(@, c),
                          !.mode = IF @ = "quoted" THEN @ ELSE "word"]

\* Every (MAXLINE - 1)-th character of a line is lost: it becomes the end of
\* a line itself.
Column(k) == LET before == {0} \union {m \in 1 .. k - 1 : typed[m] = Newline}
             IN  k - (CHOOSE m \in before : \A n \in before : n <= m)
Seen == [k \in 1 .. Len(typed) |-> IF Column(k) % (MAXLINE - 1) = 0 THEN Newline ELSE typed[k]]

Reader == LET reader[k \in 0 .. Len(typed)] ==
                IF k = 0 THEN Start ELSE Take(reader[k - 1], Seen[k])
          IN  reader

Meant == Reader[Len(typed) - Len(input)].done

\* The commands carried out are those of the lines read so far, in their
\* order, none twice and none after quit, each with its words as typed: what
\* stands in quotes is one argument, blanks separate and do not count, and a
\* last line without a newline is no command.
CommandsAreMeant == at # "eval" => commands = Meant
==============================================================================
