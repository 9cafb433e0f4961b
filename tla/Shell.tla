-------------------------------- MODULE Shell --------------------------------
(***************************************************************************)
(* tsh: the shell's main program (main, eval, do_bgfg, waitfg), its three  *)
(* job-control signal handlers, the children it forks and the part of the  *)
(* kernel between them (signals, process states, waitpid).                 *)
(*                                                                         *)
(* The main program and the handlers share the job list.  A handler runs   *)
(* as soon as its signal is pending and not blocked, on top of whatever    *)
(* runs at that moment, and only the topmost one moves.  A section that    *)
(* the code runs with every signal blocked is one step here: nothing of    *)
(* the shell can interrupt it, and what the children do meanwhile commutes *)
(* with it.                                                                *)
(***************************************************************************)
EXTENDS JobList, Sequences, FiniteSets

CONSTANTS Pids,         \* the process ids the kernel hands out
          JidBound,     \* bound: no command is read once nextjid exceeds it
          ForkErrors,   \* may fork() fail?
          Interrupts    \* the keyboard signals the user sends: subset of INT, TSTP

ASSUME PidsAssumption == Pids \subseteq Nat \ {0}
ASSUME BoundAssumption == JidBound \in Nat
ASSUME ForkAssumption == ForkErrors \in BOOLEAN
ASSUME InterruptsAssumption == Interrupts \subseteq {"INT", "TSTP"}

VARIABLES
  jobs, nextjid,        \* the job list and the next job ID to allocate
  pc,                   \* where the main program is
  cmd,                  \* its locals: background?, the pid, the job found
  mask, prev,           \* the signals the main program blocks; the saved mask
  handler,              \* per signal: its handler's position and locals
  stack,                \* active handlers, the one that runs last
  pending,              \* signals pending for the shell (they do not queue)
  proc,                 \* state of each process
  reported,             \* stopped processes whose stop waitpid has returned
  doomed,               \* stopped processes with a SIGINT pending
  childmask             \* signals each child blocks

shell  == <<jobs, nextjid, pc, cmd, mask, prev>>
kernel == <<proc, reported, doomed, childmask>>
vars   == <<shell, handler, stack, pending, kernel>>

Signals    == {"INT", "TSTP", "CHLD"}
Positions  == {"prompt", "fork", "add", "report", "wait", "set", "read", "cont",
               "exited", "crashed"}
ProcStates == {"none", "forked", "grouped", "running", "stopped", "zombie"}
NoCmd      == [bg |-> FALSE, pid |-> 0, slot |-> NULL]
Idle       == [at |-> "idle", pid |-> 0, stopped |-> FALSE]
Returned   == [handler EXCEPT !["CHLD"] = Idle]

Alive == pc \notin {"exited", "crashed"}

\* The main program runs only while no handler does.
MainRuns == Alive /\ \A s \in Signals : handler[s] = Idle

\* The topmost handler, and the signals kept pending: those the main program
\* blocks, and those whose own handler is active (Signal sets no SA_NODEFER).
Runs(s) == Alive /\ handler[s] # Idle /\ stack # <<>> /\ stack[Len(stack)] = s
Blocked == mask \union {s \in Signals : handler[s] # Idle}

Pop == SubSeq(stack, 1, Len(stack) - 1)

Init ==
  /\ jobs = initjobs /\ nextjid = 1
  /\ pc = "prompt" /\ cmd = NoCmd
  /\ mask = {} /\ prev = {}
  /\ handler = [s \in Signals |-> Idle] /\ stack = <<>>
  /\ pending = {}
  /\ proc = [p \in Pids |-> "none"]
  /\ reported = {} /\ doomed = {}
  /\ childmask = [p \in Pids |-> {}]

-------------------------------------------------------------------------------
(* Processes.  A child forked by eval first joins a group of its own, then  *)
(* executes its program or exits; kill(-pid, sig) finds it only from then   *)
(* on, and until execve it runs the shell's inherited handlers, which find  *)
(* no foreground job in its copy of the table and swallow the signal.       *)

Unwaited(p) == proc[p] = "zombie" \/ (proc[p] = "stopped" /\ p \notin reported)

SetPgid(p) ==
  /\ Alive /\ proc[p] = "forked"
  /\ proc' = [proc EXCEPT ![p] = "grouped"]
  /\ UNCHANGED <<shell, handler, stack, pending, reported, doomed, childmask>>

\* (prev is the child's copy; every fork saves the same mask.)
Exec(p) ==
  /\ Alive /\ proc[p] = "grouped"
  /\ childmask' = [childmask EXCEPT ![p] = @ \union prev]
  /\ \/ proc' = [proc EXCEPT ![p] = "running"] /\ UNCHANGED pending
     \/ proc' = [proc EXCEPT ![p] = "zombie"] /\ pending' = pending \union {"CHLD"}
  /\ UNCHANGED <<shell, handler, stack, reported, doomed>>

\* The program ends, or someone kills it.
Die(p) ==
  /\ Alive /\ proc[p] \in {"forked", "grouped", "running", "stopped"}
  /\ proc' = [proc EXCEPT ![p] = "zombie"]
  /\ reported' = reported \ {p}
  /\ doomed' = doomed \ {p}
  /\ pending' = pending \union {"CHLD"}
  /\ UNCHANGED <<shell, handler, stack, childmask>>

\* The program stops itself (mystop.c), or someone stops it.
StopSelf(p) ==
  /\ Alive /\ proc[p] = "running"
  /\ proc' = [proc EXCEPT ![p] = "stopped"]
  /\ pending' = pending \union {"CHLD"}
  /\ UNCHANGED <<shell, handler, stack, reported, doomed, childmask>>

\* kill(-pid, sig) with a program's default actions.  Pid 0 names the shell's
\* own group: SIGCONT has no effect on it.
KillGroup(pid, sig) ==
  IF pid \in Pids /\ sig = "INT" /\ proc[pid] = "running" THEN
    /\ proc' = [proc EXCEPT ![pid] = "zombie"]
    /\ pending' = pending \union {"CHLD"}
    /\ UNCHANGED <<reported, doomed>>
  ELSE IF pid \in Pids /\ sig = "INT" /\ proc[pid] = "stopped" THEN
    /\ doomed' = doomed \union {pid}
    /\ UNCHANGED <<proc, pending, reported>>
  ELSE IF pid \in Pids /\ sig = "TSTP" /\ proc[pid] = "running" THEN
    /\ proc' = [proc EXCEPT ![pid] = "stopped"]
    /\ pending' = pending \union {"CHLD"}
    /\ UNCHANGED <<reported, doomed>>
  ELSE IF pid \in Pids /\ sig = "CONT" /\ proc[pid] = "stopped" THEN
    /\ proc' = [proc EXCEPT ![pid] = IF pid \in doomed THEN "zombie" ELSE "running"]
    /\ pending' = pending \union {"CHLD"}
    /\ reported' = reported \ {pid}
    /\ doomed' = doomed \ {pid}
  ELSE UNCHANGED <<proc, pending, reported, doomed>>

-------------------------------------------------------------------------------
(* The main program: eval, do_bgfg, waitfg. *)

RunCommand_BugUnblocked(bg) ==
  /\ MainRuns /\ pc = "prompt" /\ nextjid <= JidBound
  /\ prev' = mask
  /\ cmd' = [NoCmd EXCEPT !.bg = bg]
  /\ pc' = "fork"
  /\ UNCHANGED <<mask, jobs, nextjid, handler, stack, pending, kernel>>

\* A command that is no builtin was read; SIGCHLD is blocked before fork.
RunCommand(bg) ==
  /\ MainRuns /\ pc = "prompt" /\ nextjid <= JidBound
  /\ prev' = mask
  /\ mask' = mask \union {"CHLD"}
  /\ cmd' = [NoCmd EXCEPT !.bg = bg]
  /\ pc' = "fork"
  /\ UNCHANGED <<jobs, nextjid, handler, stack, pending, kernel>>

\* The kernel may reuse any pid whose process has been reaped.
Fork ==
  /\ MainRuns /\ pc = "fork"
  /\ pc' = "add"
  /\ \/ \E p \in Pids :
          /\ proc[p] = "none"
          /\ proc' = [proc EXCEPT ![p] = "forked"]
          /\ childmask' = [childmask EXCEPT ![p] = mask]
          /\ cmd' = [cmd EXCEPT !.pid = p]
     \/ /\ ForkErrors \/ \A p \in Pids : proc[p] # "none"
        /\ cmd' = [cmd EXCEPT !.pid = -1]
        /\ UNCHANGED <<proc, childmask>>
  /\ UNCHANGED <<jobs, nextjid, mask, prev, handler, stack, pending, reported, doomed>>

AddJob ==
  /\ MainRuns /\ pc = "add"
  /\ jobs' = addjob(jobs, nextjid, cmd.pid, IF cmd.bg THEN "BG" ELSE "FG")
  /\ nextjid' = JidAfterAdd(jobs, nextjid, cmd.pid)
  /\ mask' = prev
  /\ pc' = IF cmd.bg THEN "report" ELSE "wait"
  /\ UNCHANGED <<cmd, prev, handler, stack, pending, kernel>>

\* The "[jid] (pid) command" line of a background job dereferences getjobpid.
ReportBackground ==
  /\ MainRuns /\ pc = "report"
  /\ pc' = IF getjobpid(jobs, cmd.pid) = NULL THEN "crashed" ELSE "prompt"
  /\ cmd' = NoCmd
  /\ UNCHANGED <<jobs, nextjid, mask, prev, handler, stack, pending, kernel>>

WaitfgReturns_BugAtOnce ==
  /\ MainRuns /\ pc = "wait"
  /\ pc' = "prompt"
  /\ cmd' = NoCmd
  /\ UNCHANGED <<jobs, nextjid, mask, prev, handler, stack, pending, kernel>>

\* waitfg sleeps until cmd.pid is no longer what fgpid returns.
WaitfgReturns ==
  /\ MainRuns /\ pc = "wait" /\ cmd.pid # fgpid(jobs)
  /\ pc' = "prompt"
  /\ cmd' = NoCmd
  /\ UNCHANGED <<jobs, nextjid, mask, prev, handler, stack, pending, kernel>>

\* The argument of fg and bg: a %jid, a pid, none, or something else.
Arguments == [kind : {"jid"}, n : -1 .. JidBound + 1]
               \union [kind : {"pid"}, n : Pids \union {-1, 0}]
               \union [kind : {"none", "malformed"}, n : {0}]

JobNamed(arg) == CASE arg.kind = "jid" -> getjobjid(jobs, arg.n)
                   [] arg.kind = "pid" -> getjobpid(jobs, arg.n)
                   [] OTHER            -> NULL

\* do_bgfg looks its job up with the signals still unblocked.
LookUpJob(bg, arg) ==
  /\ MainRuns /\ pc = "prompt"
  /\ IF JobNamed(arg) = NULL
     THEN UNCHANGED <<pc, cmd>>
     ELSE /\ cmd' = [bg |-> bg, pid |-> 0, slot |-> JobNamed(arg)]
          /\ pc' = "set"
  /\ UNCHANGED <<jobs, nextjid, mask, prev, handler, stack, pending, kernel>>

SetJobState ==
  /\ MainRuns /\ pc = "set"
  /\ jobs' = [jobs EXCEPT ![cmd.slot].state = IF cmd.bg THEN "BG" ELSE "FG"]
  /\ pc' = "read"
  /\ UNCHANGED <<nextjid, cmd, mask, prev, handler, stack, pending, kernel>>

ReadJobPid ==
  /\ MainRuns /\ pc = "read"
  /\ cmd' = [cmd EXCEPT !.pid = jobs[cmd.slot].pid]
  /\ pc' = "cont"
  /\ UNCHANGED <<jobs, nextjid, mask, prev, handler, stack, pending, kernel>>

ContinueJob ==
  /\ MainRuns /\ pc = "cont"
  /\ KillGroup(cmd.pid, "CONT")
  /\ IF cmd.bg THEN pc' = "prompt" /\ cmd' = NoCmd
               ELSE pc' = "wait" /\ cmd' = [cmd EXCEPT !.slot = NULL]
  /\ UNCHANGED <<jobs, nextjid, mask, prev, handler, stack, childmask>>

\* quit or end of file at the prompt; SIGQUIT from the driver at any time.
Exit ==
  /\ Alive
  /\ pc' = "exited"
  /\ UNCHANGED <<jobs, nextjid, cmd, mask, prev, handler, stack, pending, kernel>>

-------------------------------------------------------------------------------
(* Signals and their handlers. *)

\* The terminal sends the shell a SIGINT (ctrl-c) or a SIGTSTP (ctrl-z).
Keyboard(s) ==
  /\ Alive /\ s \in Interrupts
  /\ pending' = pending \union {s}
  /\ UNCHANGED <<shell, handler, stack, kernel>>

\* A pending signal that is not blocked interrupts the shell; the SIGINT and
\* SIGTSTP handlers begin by reading fgpid.
Deliver(s) ==
  /\ Alive /\ s \in pending \ Blocked
  /\ pending' = pending \ {s}
  /\ stack' = Append(stack, s)
  /\ handler' = [handler EXCEPT ![s] =
       IF s = "CHLD" THEN [Idle EXCEPT !.at = "wait"]
                     ELSE [Idle EXCEPT !.at = "kill", !.pid = fgpid(jobs)]]
  /\ UNCHANGED <<shell, kernel>>

\* sigint_handler and sigtstp_handler send the signal along, if to anyone.
Forward(s) ==
  /\ Runs(s) /\ handler[s].at = "kill"
  /\ KillGroup(handler[s].pid, s)
  /\ handler' = [handler EXCEPT ![s] = Idle]
  /\ stack' = Pop
  /\ UNCHANGED <<shell, childmask>>

NothingToReport_BugNoWUNTRACED == \A p \in Pids : proc[p] # "zombie"
NothingToReport == \A p \in Pids : ~Unwaited(p)

\* waitpid(-1, &status, WNOHANG | WUNTRACED): some terminated child, which is
\* thereby reaped, or some stop not returned before; else the handler returns.
WaitPid ==
  /\ Runs("CHLD") /\ handler["CHLD"].at = "wait"
  /\ \/ \E p \in Pids :
          /\ proc[p] = "zombie"
          /\ proc' = [proc EXCEPT ![p] = "none"]
          /\ childmask' = [childmask EXCEPT ![p] = {}]
          /\ handler' = [handler EXCEPT !["CHLD"] =
                           [at |-> "update", pid |-> p, stopped |-> FALSE]]
          /\ UNCHANGED <<reported, stack>>
     \/ \E p \in Pids :
          /\ proc[p] = "stopped" /\ p \notin reported
          /\ reported' = reported \union {p}
          /\ handler' = [handler EXCEPT !["CHLD"] =
                           [at |-> "update", pid |-> p, stopped |-> TRUE]]
          /\ UNCHANGED <<proc, childmask, stack>>
     \/ /\ NothingToReport
        /\ handler' = Returned
        /\ stack' = Pop
        /\ UNCHANGED <<proc, reported, childmask>>
  /\ UNCHANGED <<shell, pending, doomed>>

NextChild_BugReturns == handler' = Returned /\ stack' = Pop

\* The loop goes on until waitpid returns no child: SIGCHLDs do not queue.
NextChild ==
  /\ handler' = [handler EXCEPT !["CHLD"] = [Idle EXCEPT !.at = "wait"]]
  /\ UNCHANGED stack

\* With every signal blocked: delete the job of a dead child, or mark the job
\* of a stopped one (a stopped child without a job is a null dereference).
UpdateJob ==
  /\ Runs("CHLD") /\ handler["CHLD"].at = "update"
  /\ LET pid  == handler["CHLD"].pid
         slot == getjobpid(jobs, pid)
     IN  IF handler["CHLD"].stopped
         THEN IF slot = NULL
              THEN pc' = "crashed" /\ UNCHANGED <<jobs, nextjid>>
              ELSE /\ jobs' = MarkStopped(jobs, slot)
                   /\ UNCHANGED <<pc, nextjid>>
         ELSE /\ jobs' = deletejob(jobs, pid)
              /\ nextjid' = JidAfterDelete(jobs, nextjid, pid)
              /\ UNCHANGED pc
  /\ NextChild
  /\ UNCHANGED <<cmd, mask, prev, pending, kernel>>

Ended == ~Alive /\ UNCHANGED vars

-------------------------------------------------------------------------------
MainStep ==
  \/ Fork \/ AddJob \/ ReportBackground \/ WaitfgReturns
  \/ SetJobState \/ ReadJobPid \/ ContinueJob

Command ==
  \/ \E bg \in BOOLEAN : RunCommand(bg)
  \/ \E bg \in BOOLEAN, arg \in Arguments : LookUpJob(bg, arg)
  \/ Exit

HandlerStep(s) == IF s = "CHLD" THEN WaitPid \/ UpdateJob ELSE Forward(s)

Startup(p) == SetPgid(p) \/ Exec(p)

Next ==
  \/ MainStep
  \/ Command
  \/ \E s \in Signals : Keyboard(s) \/ Deliver(s) \/ HandlerStep(s)
  \/ \E p \in Pids : Startup(p) \/ Die(p) \/ StopSelf(p)
  \/ Ended

Spec == Init /\ [][Next]_vars

\* The scheduler runs the shell and its new children; the kernel delivers a
\* signal that is pending whenever it is unblocked.  Strong fairness, because
\* handlers keep interrupting the program and each other, and the program
\* blocks SIGCHLD for a while: no finite burst of signals starves it.  Only its
\* own delivery keeps a pending SIGINT or SIGTSTP from being delivered, so weak
\* fairness will do.  Nothing forces a program to end or the user to type.
Fairness ==
  /\ SF_vars(MainStep)
  /\ \A s \in Signals : SF_vars(HandlerStep(s))
  /\ SF_vars(Deliver("CHLD")) /\ WF_vars(Deliver("INT")) /\ WF_vars(Deliver("TSTP"))
  /\ \A p \in Pids : WF_vars(Startup(p))

FairSpec == Spec /\ Fairness
==============================================================================
