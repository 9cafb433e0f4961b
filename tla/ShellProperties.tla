--------------------------- MODULE ShellProperties ---------------------------
(***************************************************************************)
(* What makes tsh correct: the job list agrees with the processes, the     *)
(* foreground is unique, no SIGCHLD is lost, waitfg comes back, and the    *)
(* whole implements the job states of JobControl.  The last section holds  *)
(* what the source says of itself and the code does not keep.              *)
(***************************************************************************)
EXTENDS Shell

Commands == [bg : BOOLEAN, pid : Nat \union {-1}, slot : Slots \union {NULL}]
Frames   == [at : {"idle", "wait", "update", "kill"}, pid : Nat, stopped : BOOLEAN]

\* Every variable holds a value of its type; job ids start at 1.
TypeOK ==
  /\ jobs \in Jobs /\ nextjid \in Nat \ {0}
  /\ pc \in Positions
  /\ cmd \in Commands
  /\ mask \subseteq Signals /\ prev \subseteq Signals
  /\ handler \in [Signals -> Frames]
  /\ stack \in Seq(Signals)
  /\ pending \subseteq Signals
  /\ proc \in [Pids -> ProcStates]
  /\ reported \subseteq Pids /\ doomed \subseteq Pids
  /\ childmask \in [Pids -> SUBSET Signals]

\* "At most 1 job can be in the FG state" (tsh.c:35), whatever the handlers
\* do between the steps of eval, do_bgfg and waitfg.
AtMostOneForeground ==
  \A i, k \in Slots : jobs[i].state = "FG" /\ jobs[k].state = "FG" => i = k

\* The SIGCHLD handler is about to delete the job of the child it just reaped.
Deleting(p) == /\ handler["CHLD"].at = "update" /\ handler["CHLD"].pid = p
               /\ ~handler["CHLD"].stopped

\* No job is listed twice and each is a child not yet reaped, but for the one
\* the handler is deleting: a child that ends before eval lists it must not
\* leave a stale job behind (the reason eval blocks SIGCHLD around fork).
JobsAreChildren ==
  /\ \A i, k \in Slots : jobs[i].pid = jobs[k].pid /\ jobs[i].pid # 0 => i = k
  /\ \A p \in Listed(jobs) : p \in Pids /\ (proc[p] # "none" \/ Deleting(p))

\* With a slot for every process, each unreaped child is in the job list, but
\* for the one eval is about to add: none gets lost to fg, bg and jobs.
ChildrenAreListed ==
  Alive /\ Cardinality(Pids) <= MAXJOBS =>
    \A p \in Pids : proc[p] # "none" =>
      p \in Listed(jobs) \/ (pc = "add" /\ cmd.pid = p)

\* SIGCHLDs coalesce: while some child waits to be reaped or its stop to be
\* reported, a SIGCHLD is pending or its handler has yet to call waitpid again.
NoLostChild ==
  (\E p \in Pids : Unwaited(p)) => "CHLD" \in pending \/ handler["CHLD"].at # "idle"

\* Once the news has been handled, the job of a stopped process is in state ST,
\* unless do_bgfg has marked it and is about to continue it.
StopsAreShown ==
  \A i \in Slots :
    /\ Alive /\ jobs[i].pid \in Pids /\ proc[jobs[i].pid] = "stopped"
    /\ "CHLD" \notin pending /\ handler["CHLD"].at = "idle"
    => jobs[i].state = "ST" \/ (pc \in {"read", "cont"} /\ cmd.slot = i)

\* ctrl-c and ctrl-z are never sent to a background job: what fgpid returned
\* to the handler cannot have gone to the background by the time it kills.
SignalsOnlyForeground ==
  \A s \in {"INT", "TSTP"}, i \in Slots :
    handler[s].at = "kill" /\ jobs[i].pid # 0 /\ jobs[i].pid = handler[s].pid
      => jobs[i].state # "BG"

\* do_bgfg keeps the slot it found while signals come in: the handlers may
\* empty it, but never move another job into it, so fg and bg change, continue
\* and wait for no job but the one they were asked for.
Resuming == pc \in {"set", "read"}

KeepsItsJob ==
  [][Resuming => jobs'[cmd.slot].pid \in {jobs[cmd.slot].pid, 0}]_vars

\* Zombies do not pile up: however many children end while one SIGCHLD is
\* pending or handled, there comes a time without any, or the shell ends first.
ZombiesAreReaped ==
  (\E p \in Pids : proc[p] = "zombie")
    ~> ((\A p \in Pids : proc[p] # "zombie") \/ ~Alive)

\* eval and fg come back to the prompt once their job has ended or stopped,
\* unless it goes on meanwhile.
Waiting(p) == pc = "wait" /\ cmd.pid = p

WaitEnds ==
  (\E p \in Pids : Waiting(p) /\ proc[p] \in {"stopped", "zombie", "none"})
    ~> (\A p \in Pids : Waiting(p) => proc[p] \in {"forked", "grouped", "running"})

\* The job list, read as a status per process, follows the job state machine.
StatusOf(p) == LET i == getjobpid(jobs, p) IN IF i = NULL THEN "none" ELSE jobs[i].state

JC == INSTANCE JobControl WITH status <- [p \in Pids |-> StatusOf(p)]

ImplementsJobControl == JC!Spec

-------------------------------------------------------------------------------
(* What tsh.c says of itself and does not keep. *)

\* eval prints the line of a new background job and reads the next command;
\* nothing in the shell is meant to dereference a job that is gone.
NoCrash == pc # "crashed"
==============================================================================
