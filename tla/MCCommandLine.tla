---------------------------- MODULE MCCommandLine ----------------------------
(* Every text of at most six characters, one letter of them the word quit. *)
EXTENDS CommandLine, SequencesExt

SomeCharacters == {Blank, Newline, Quote, Ampersand, "a", "quit"}

AllShortTexts == BoundedSeq(SomeCharacters, 6)
==============================================================================
