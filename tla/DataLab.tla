---------------------------------- MODULE DataLab ----------------------------------
(***************************************************************************)
(* The three programs of the data lab, one of which is run: btest tests    *)
(* the puzzles; ishow and fshow display the numbers that btest's options   *)
(* and reports are made of.                                                *)
(***************************************************************************)
EXTENDS Btest, Show

BtestStarts == tool = "btest" /\ argv = <<>> /\ shown = <<>> /\ exited = FALSE /\ Init
ShowStarts  == ShowInit /\ line = <<>> /\ Init

BtestRuns == tool = "btest" /\ Next /\ UNCHANGED showVars
ShowRuns  == tool # "btest" /\ ShowNext /\ UNCHANGED vars

LabSpec == /\ BtestStarts \/ ShowStarts
           /\ [][BtestRuns \/ ShowRuns]_<<vars, showVars>>
           /\ WF_<<vars, showVars>>(tool = "btest" /\ Progress /\ UNCHANGED showVars)

-------------------------------------------------------------------------------
(* What should hold. *)

\* btest comes to an end with a verdict on every puzzle asked for, whatever a solution
\* does and whatever the options say, but for the cases that EveryPuzzleIsTested names
\* (btest.c:347-358, 510-577).
TestsComeToAnEnd == tool = "btest" => EveryPuzzleIsTested
===============================================================================
