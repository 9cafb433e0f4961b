------------------------------- MODULE MCShell -------------------------------
(***************************************************************************)
(* An instance of tsh small enough for its liveness: two children that     *)
(* live, end and stop together, and both keys.  What it leaves out of      *)
(* Shell is named here, and ShellSafety has it all.  No bound holds back a *)
(* handler or a step of the program for good: what it waits for is the     *)
(* delivery of a signal that is pending and not blocked.                   *)
(***************************************************************************)
EXTENDS ShellProperties

InPlay(s)   == s \in pending \/ handler[s] # Idle
TwoChildren == \A p \in Pids : proc[p] # "none"

\* With a second job there is one key at a time, and with two children it is
\* pressed while waitfg waits for one of them.
KeysBound ==
  /\ TwoChildren \/ maxjid(jobs) > 1 => ~InPlay("INT") \/ ~InPlay("TSTP")
  /\ TwoChildren /\ (InPlay("INT") \/ InPlay("TSTP")) => pc = "wait"

\* The kernel gives a new child the lowest pid that is free: a symmetry, as
\* main holds no other pid when it forks and the handlers are idle.
LowestPid ==
  \A p, q \in Pids : p < q /\ proc[p] = "none" /\ proc[q] = "none" => proc'[q] = "none"

\* The shell ends at the prompt: the driver's SIGQUIT, which may come at any
\* time, ends what the liveness properties speak of.
QuitsAtPrompt == pc' = "exited" => ~Alive \/ (MainRuns /\ pc = "prompt")

WaitingNext == Next /\ LowestPid /\ QuitsAtPrompt /\ KeysBound'
WaitingSpec == Init /\ [][WaitingNext]_vars /\ Fairness
=============================================================================
