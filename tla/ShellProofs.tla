------------------------------ MODULE ShellProofs ------------------------------
(***************************************************************************)
(* The safety of tsh for every number of processes and slots: the          *)
(* properties of ShellProperties follow from one inductive invariant.      *)
(* The last part proves that tsh implements JobControl.                    *)
(***************************************************************************)
EXTENDS ShellProperties, WellFoundedInduction, SequenceTheorems, FiniteSetTheorems, TLAPS

-------------------------------------------------------------------------------
(* What the helpers of the job list return and preserve, for a table of any     *)
(* size.  The scans find the least slot, and maxjid exists, because the naturals *)
(* are well founded.                                                            *)

\* A nonempty set of naturals has a least element.
LEMMA LeastNat ==
  ASSUME NEW S \in SUBSET Nat, S # {}
  PROVE  \E m \in S : \A k \in S : m <= k
<1>1. \E m \in S : \A k \in S : <<k, m>> \notin OpToRel(<, Nat)
  BY NatLessThanWellFounded, WFMin
<1>2. \A k, m \in S : <<k, m>> \notin OpToRel(<, Nat) => m <= k
  BY DEF OpToRel
<1>3. QED  BY <1>1, <1>2

\* A scan stops at the first slot that qualifies, and finds one if any does.
LEMMA FirstFound ==
  ASSUME NEW S \in SUBSET Slots
  PROVE  /\ (First(S) = NULL) <=> (S = {})
         /\ S # {} => (First(S) \in S /\ \A k \in S : First(S) <= k)
<1>0. Slots \subseteq Nat
  BY MaxJobsAssumption DEF Slots
<1>1. CASE S = {}
  BY <1>1 DEF First
<1>2. CASE S # {}
  <2>1. \E i \in S : \A k \in S : i <= k
    BY <1>0, <1>2, LeastNat
  <2>2. First(S) \in S /\ \A k \in S : First(S) <= k
    BY <1>2, <2>1 DEF First
  <2>3. First(S) # NULL
    BY <1>0, <2>2 DEF NULL
  <2>4. QED  BY <1>2, <2>2, <2>3
<1>3. QED  BY <1>1, <1>2

\* The jids of a table have an upper bound.
LEMMA JidsBounded ==
  ASSUME NEW tbl \in Jobs
  PROVE  \E m \in Nat : \A i \in Slots : tbl[i].jid <= m
<1> DEFINE Bounded(k) == \E m \in Nat : \A i \in Slots : i < k => tbl[i].jid <= m
           Unbounded == {k \in 0 .. MAXJOBS : ~Bounded(k)}
<1>0. Slots \subseteq Nat /\ \A i \in Slots : tbl[i].jid \in Nat
  BY MaxJobsAssumption DEF Slots, Jobs
<1>1. Unbounded = {}
  <2>1. SUFFICES ASSUME Unbounded # {} PROVE FALSE
    OBVIOUS
  <2>2. PICK k \in Unbounded : \A l \in Unbounded : k <= l
    <3>1. Unbounded \subseteq Nat
      BY MaxJobsAssumption
    <3>2. QED  BY <2>1, <3>1, LeastNat
  <2>3. Bounded(0)
    <3>1. \A i \in Slots : ~(i < 0)
      BY <1>0
    <3>2. QED  BY <3>1
  <2>4. k \in 0 .. MAXJOBS /\ ~Bounded(k)
    OBVIOUS
  <2>5. k # 0
    BY <2>3, <2>4
  <2>6. k - 1 \in 0 .. MAXJOBS /\ k - 1 \in Slots /\ ~(k <= k - 1)
    BY <2>4, <2>5, MaxJobsAssumption DEF Slots
  <2>7. Bounded(k - 1)
    BY <2>2, <2>6
  <2>8. PICK m \in Nat : \A i \in Slots : i < k - 1 => tbl[i].jid <= m
    BY <2>7
  <2>9. Bounded(k)
    <3> DEFINE n == IF tbl[k - 1].jid <= m THEN m ELSE tbl[k - 1].jid
    <3>1. n \in Nat /\ m <= n /\ tbl[k - 1].jid <= n
      BY <1>0, <2>6
    <3>2. ASSUME NEW i \in Slots, i < k PROVE tbl[i].jid <= n
      <4>1. i < k - 1 \/ i = k - 1
        BY <1>0, <2>4, <3>2
      <4>2. CASE i < k - 1
        <5>1. tbl[i].jid <= m
          BY <2>8, <4>2
        <5>2. QED  BY <5>1, <3>1, <1>0
      <4>3. CASE i = k - 1
        BY <4>3, <3>1
      <4>4. QED  BY <4>1, <4>2, <4>3
    <3> HIDE DEF n
    <3>3. QED  BY <3>1, <3>2
  <2>10. QED  BY <2>4, <2>9
<1>2. Bounded(MAXJOBS)
  <2>1. MAXJOBS \in 0 .. MAXJOBS
    BY MaxJobsAssumption
  <2>2. QED  BY <1>1, <2>1
<1>3. \A i \in Slots : i < MAXJOBS
  BY MaxJobsAssumption DEF Slots
<1>4. QED  BY <1>2, <1>3

\* maxjid is a natural number that no jid of the table exceeds.
LEMMA MaxJidBounds ==
  ASSUME NEW tbl \in Jobs
  PROVE  maxjid(tbl) \in Nat /\ \A i \in Slots : tbl[i].jid <= maxjid(tbl)
<1> DEFINE Jids == {0} \union {tbl[i].jid : i \in Slots}
           Upper == {m \in Nat : \A i \in Slots : tbl[i].jid <= m}
<1>1. \A i \in Slots : tbl[i].jid \in Nat
  BY DEF Jobs
<1>2. PICK m \in Upper : \A k \in Upper : m <= k
  <2>1. Upper # {} /\ Upper \in SUBSET Nat
    BY JidsBounded
  <2>2. QED  BY <2>1, LeastNat
<1>3. m \in Jids
  <2>1. SUFFICES ASSUME m # 0, \A i \in Slots : tbl[i].jid # m PROVE FALSE
    OBVIOUS
  <2>2. m - 1 \in Nat /\ ~(m <= m - 1)
    BY <2>1
  <2>3. \A i \in Slots : tbl[i].jid <= m - 1
    BY <1>1, <2>1
  <2>4. QED  BY <1>2, <2>2, <2>3
<1>4. maxjid(tbl) \in Jids /\ \A i \in Slots : tbl[i].jid <= maxjid(tbl)
  BY <1>3 DEF maxjid
<1>5. QED  BY <1>1, <1>4

\* getjobpid finds a slot that holds the pid, and fails only for a pid that is
\* not listed; the same for getjobjid and a jid.
LEMMA LookUps ==
  ASSUME NEW tbl \in Jobs, NEW n \in Int
  PROVE  /\ getjobpid(tbl, n) = NULL => n \notin Listed(tbl)
         /\ getjobpid(tbl, n) # NULL =>
              getjobpid(tbl, n) \in Slots /\ n > 0 /\ tbl[getjobpid(tbl, n)].pid = n
         /\ getjobjid(tbl, n) \in Slots \union {NULL}
<1>1. \A i \in Slots : tbl[i].pid \in Nat
  BY DEF Jobs
<1> DEFINE P == {i \in Slots : tbl[i].pid = n}
           J == {i \in Slots : tbl[i].jid = n}
<1>2. P \in SUBSET Slots /\ J \in SUBSET Slots
  OBVIOUS
<1>3. getjobpid(tbl, n) = IF n < 1 THEN NULL ELSE First(P)
  BY DEF getjobpid
<1>4. getjobjid(tbl, n) = IF n < 1 THEN NULL ELSE First(J)
  BY DEF getjobjid
<1>5. n < 1 => n \notin Listed(tbl)
  BY <1>1 DEF Listed
<1>6. P = {} => n \notin Listed(tbl)
  BY DEF Listed
<1>7. First(P) = NULL => P = {}
  BY <1>2, FirstFound
<1>8. First(P) # NULL => First(P) \in P
  BY <1>2, FirstFound
<1>9. First(J) \in J \union {NULL}
  BY <1>2, FirstFound
<1>10. n < 1 \/ n > 0
  OBVIOUS
<1> HIDE DEF P
<1>11. QED  BY <1>3, <1>4, <1>5, <1>6, <1>7, <1>8, <1>9, <1>10 DEF P

\* fgpid returns the pid of some foreground slot, 0 only if there is none
\* or that slot has been cleared.
LEMMA FgPid ==
  ASSUME NEW tbl \in Jobs
  PROVE  /\ fgpid(tbl) \in Nat
         /\ \A i \in Slots : tbl[i].state = "FG" =>
              \E k \in Slots : tbl[k].state = "FG" /\ fgpid(tbl) = tbl[k].pid
         /\ fgpid(tbl) # 0 =>
              \E k \in Slots : tbl[k].state = "FG" /\ fgpid(tbl) = tbl[k].pid
<1> DEFINE F == {k \in Slots : tbl[k].state = "FG"}
<1>1. F \in SUBSET Slots /\ \A i \in Slots : tbl[i].pid \in Nat
  BY DEF Jobs
<1>2. ((First(F) = NULL) <=> (F = {})) /\ (F # {} => First(F) \in F)
  BY <1>1, FirstFound
<1>3. fgpid(tbl) = IF First(F) = NULL THEN 0 ELSE tbl[First(F)].pid
  BY DEF fgpid
<1>4. CASE F = {}
  BY <1>2, <1>3, <1>4
<1>5. CASE F # {}
  <2>1. First(F) \in Slots /\ tbl[First(F)].state = "FG" /\ fgpid(tbl) = tbl[First(F)].pid
    BY <1>2, <1>3, <1>5
  <2>2. QED  BY <1>1, <2>1
<1>6. QED  BY <1>4, <1>5

\* new is tbl, or tbl with one free slot filled.
Filled(tbl, new, pid, state) ==
  \/ new = tbl
  \/ \E i \in Slots : /\ tbl[i].pid = 0 /\ pid > 0
                     /\ new[i].pid = pid /\ new[i].state = state
                     /\ \A k \in Slots \ {i} : new[k] = tbl[k]

\* new is tbl without the pid, or tbl with the slot of the pid cleared.
Cleared(tbl, new, pid) ==
  \/ new = tbl /\ pid \notin Listed(tbl)
  \/ \E i \in Slots : /\ tbl[i].pid = pid /\ pid # 0
                     /\ new = [tbl EXCEPT ![i] = clearjob]

\* addjob fills one free slot or changes nothing.
LEMMA AddJobEffect ==
  ASSUME NEW tbl \in Jobs, NEW next \in Nat \ {0}, NEW pid \in Int,
         NEW state \in {"FG", "BG"}
  PROVE  /\ addjob(tbl, next, pid, state) \in Jobs
         /\ JidAfterAdd(tbl, next, pid) \in Nat \ {0}
         /\ Filled(tbl, addjob(tbl, next, pid, state), pid, state)
<1> DEFINE S == {i \in Slots : tbl[i].pid = 0}
           a == SlotForAdd(tbl, pid)
<1>1. a = NULL \/ (a \in S /\ pid > 0)
  <2>1. S \in SUBSET Slots
    OBVIOUS
  <2>2. First(S) = NULL \/ First(S) \in S
    BY <2>1, FirstFound
  <2>3. a = IF pid < 1 THEN NULL ELSE First(S)
    BY DEF SlotForAdd
  <2>4. QED  BY <2>2, <2>3
<1>2. addjob(tbl, next, pid, state) =
        IF a = NULL THEN tbl
        ELSE [tbl EXCEPT ![a] = [pid |-> pid, jid |-> next, state |-> state]]
  BY DEF addjob
<1>3. JidAfterAdd(tbl, next, pid) \in Nat \ {0}
  BY MaxJobsAssumption DEF JidAfterAdd
<1>4. addjob(tbl, next, pid, state) \in Jobs
  BY <1>1, <1>2 DEF Jobs, States
<1>5. CASE a = NULL
  BY <1>2, <1>3, <1>4, <1>5 DEF Filled
<1>6. CASE a \in S /\ pid > 0 /\ a # NULL
  <2>1. /\ addjob(tbl, next, pid, state)[a].pid = pid
        /\ addjob(tbl, next, pid, state)[a].state = state
        /\ \A k \in Slots \ {a} : addjob(tbl, next, pid, state)[k] = tbl[k]
    BY <1>2, <1>6 DEF Jobs
  <2> HIDE DEF a
  <2>2. QED  BY <1>3, <1>4, <1>6, <2>1 DEF Filled
<1>7. QED  BY <1>1, <1>5, <1>6

\* deletejob clears one slot of the pid, if there is one.
LEMMA DeleteJobEffect ==
  ASSUME NEW tbl \in Jobs, NEW next \in Nat \ {0}, NEW pid \in Nat
  PROVE  /\ deletejob(tbl, pid) \in Jobs
         /\ JidAfterDelete(tbl, next, pid) \in Nat \ {0}
         /\ Cleared(tbl, deletejob(tbl, pid), pid)
<1> DEFINE d == getjobpid(tbl, pid)
<1>1. (d = NULL /\ pid \notin Listed(tbl)) \/ (d \in Slots /\ tbl[d].pid = pid /\ pid # 0)
  BY LookUps
<1>2. deletejob(tbl, pid) = IF d = NULL THEN tbl ELSE [tbl EXCEPT ![d] = clearjob]
  BY DEF deletejob
<1>3. deletejob(tbl, pid) \in Jobs
  BY <1>1, <1>2 DEF Jobs, States, clearjob
<1>4. JidAfterDelete(tbl, next, pid) \in Nat \ {0}
  <2>1. maxjid(deletejob(tbl, pid)) \in Nat
    BY <1>3, MaxJidBounds
  <2>2. QED  BY <2>1 DEF JidAfterDelete
<1>5. NULL \notin Slots
  BY MaxJobsAssumption DEF Slots, NULL
<1> HIDE DEF d
<1>6. QED  BY <1>1, <1>2, <1>3, <1>4, <1>5 DEF Cleared

-------------------------------------------------------------------------------
(* The inductive invariant, one part per question the proof asks. *)

\* Who may be in the foreground at each point of the main program.
ForegroundAtWork ==
  /\ AtMostOneForeground
  /\ \A i \in Slots : jobs[i].state = "FG" =>
       /\ pc \notin {"prompt", "fork", "add", "report", "set"}
       /\ pc \in {"read", "cont", "wait"} => ~cmd.bg
       /\ pc = "read" => i = cmd.slot
       /\ pc \in {"cont", "wait"} => jobs[i].pid = cmd.pid

\* From SIG_BLOCK to addjob no SIGCHLD handler runs, so the child is unreaped,
\* its stop is unreported and it is not in the table.
ChildBeforeAdd ==
  /\ pc \in {"fork", "add"} => "CHLD" \in mask
  /\ "CHLD" \in mask => handler["CHLD"] = Idle
  /\ pc = "add" /\ cmd.pid # -1 =>
       /\ cmd.pid \in Pids \ (reported \union Listed(jobs))
       /\ proc[cmd.pid] # "none"

\* The locals of do_bgfg and of the SIGCHLD handler name what they should.
SlotHeld == /\ pc \in {"set", "read", "cont"} => cmd.slot \in Slots
            /\ pc = "cont" => jobs[cmd.slot].pid \in {cmd.pid, 0}

ChildHeld == /\ handler["CHLD"].at = "update" => handler["CHLD"].pid \in Pids
             /\ handler["CHLD"].at # "kill"

\* waitpid returns a stop once; a process that continues or ends is forgotten.
ReportedAreStopped == \A p \in reported : proc[p] = "stopped"

\* The job of a stopped process is marked, or the news is still on its way.
StopsOnTheWay ==
  \A i \in Slots :
    jobs[i].pid \in reported =>
      \/ jobs[i].state = "ST"
      \/ (pc \in {"read", "cont"} /\ cmd.slot = i)
      \/ (handler["CHLD"].at = "update" /\ handler["CHLD"].pid = jobs[i].pid
          /\ handler["CHLD"].stopped)
      \/ ~Alive

IInv == /\ TypeOK /\ ForegroundAtWork /\ ChildBeforeAdd /\ SlotHeld /\ ChildHeld /\ ReportedAreStopped
        /\ JobsAreChildren /\ NoLostChild /\ StopsOnTheWay /\ SignalsOnlyForeground

-------------------------------------------------------------------------------
(* The steps of the system, and what each may change. *)

\* [Next]_vars, one action per disjunct.
LEMMA StepCases ==
  ASSUME [Next]_vars
  PROVE  \/ \E p \in Pids : SetPgid(p) \/ Exec(p) \/ Die(p) \/ StopSelf(p)
         \/ \E bg \in BOOLEAN : RunCommand(bg)
         \/ Fork \/ AddJob \/ ReportBackground \/ WaitfgReturns
         \/ \E bg \in BOOLEAN, arg \in Arguments : LookUpJob(bg, arg)
         \/ SetJobState \/ ReadJobPid \/ ContinueJob \/ Exit
         \/ \E s \in Signals : Keyboard(s) \/ Deliver(s)
         \/ \E s \in {"INT", "TSTP"} : Forward(s)
         \/ WaitPid \/ UpdateJob
         \/ UNCHANGED vars
<1>1. \A s \in Signals : HandlerStep(s) =>
        WaitPid \/ UpdateJob \/ \E t \in {"INT", "TSTP"} : Forward(t)
  BY DEF HandlerStep, Signals
<1>2. QED  BY <1>1 DEF Next, MainStep, Command, Startup, Ended

\* What kill(-pid, sig) leaves alone, and that every death, stop or
\* continuation it causes raises SIGCHLD.
LEMMA KillGroupEffect ==
  ASSUME TypeOK, NEW pid, NEW sig \in {"INT", "TSTP", "CONT"}, KillGroup(pid, sig)
  PROVE  /\ proc' \in [Pids -> ProcStates] /\ pending' \subseteq Signals
         /\ reported' \subseteq reported /\ doomed' \subseteq Pids
         /\ pending \subseteq pending'
         /\ \A p \in Pids : proc'[p] = "none" <=> proc[p] = "none"
         /\ \A p \in Pids : Unwaited(p)' => Unwaited(p) \/ "CHLD" \in pending'
         /\ ReportedAreStopped => ReportedAreStopped'
         /\ sig = "CONT" /\ ReportedAreStopped => pid \notin reported'
<1> DEFINE Kills == pid \in Pids /\ sig = "INT" /\ proc[pid] = "running"
           Dooms == pid \in Pids /\ sig = "INT" /\ proc[pid] = "stopped"
           Stops == pid \in Pids /\ sig = "TSTP" /\ proc[pid] = "running"
           Wakes == pid \in Pids /\ sig = "CONT" /\ proc[pid] = "stopped"
<1>1. CASE Kills
  <2>1. /\ proc' = [proc EXCEPT ![pid] = "zombie"]
        /\ pending' = pending \union {"CHLD"} /\ UNCHANGED <<reported, doomed>>
    BY <1>1 DEF KillGroup
  <2>2. QED  BY <1>1, <2>1 DEF TypeOK, ProcStates, Signals, Unwaited, ReportedAreStopped
<1>2. CASE Dooms
  BY <1>2 DEF KillGroup, TypeOK, ProcStates, Signals, Unwaited, ReportedAreStopped
<1>3. CASE Stops
  <2>1. /\ proc' = [proc EXCEPT ![pid] = "stopped"]
        /\ pending' = pending \union {"CHLD"} /\ UNCHANGED <<reported, doomed>>
    BY <1>3 DEF KillGroup
  <2>2. QED  BY <1>3, <2>1 DEF TypeOK, ProcStates, Signals, Unwaited, ReportedAreStopped
<1>4. CASE Wakes
  <2>1. /\ proc' = [proc EXCEPT ![pid] = IF pid \in doomed THEN "zombie" ELSE "running"]
        /\ pending' = pending \union {"CHLD"}
        /\ reported' = reported \ {pid} /\ doomed' = doomed \ {pid}
    BY <1>4 DEF KillGroup
  <2>2. QED  BY <1>4, <2>1 DEF TypeOK, ProcStates, Signals, Unwaited, ReportedAreStopped
<1>5. CASE ~Kills /\ ~Dooms /\ ~Stops /\ ~Wakes
  <2>1. UNCHANGED <<proc, pending, reported, doomed>>
    BY <1>5 DEF KillGroup
  <2>2. ReportedAreStopped /\ sig = "CONT" => pid \notin reported
    BY <1>5 DEF TypeOK, ReportedAreStopped
  <2>3. QED  BY <2>1, <2>2 DEF TypeOK, Unwaited, ReportedAreStopped
<1>6. QED  BY <1>1, <1>2, <1>3, <1>4, <1>5

\* The constant records have their types.
LEMMA ConstantRecords ==
  /\ NoCmd \in Commands /\ Idle \in Frames /\ [Idle EXCEPT !.at = "wait"] \in Frames
  /\ \A bg \in BOOLEAN : [NoCmd EXCEPT !.bg = bg] \in Commands
  BY DEF NoCmd, Idle, Commands, Frames

\* Returning from a handler leaves a stack of signals.
LEMMA PopType == stack \in Seq(Signals) /\ stack # <<>> => Pop \in Seq(Signals)
<1>1. SUFFICES ASSUME stack \in Seq(Signals), stack # <<>> PROVE Pop \in Seq(Signals)
  OBVIOUS
<1>2. Len(stack) \in Nat \ {0}
  BY <1>1, EmptySeq
<1>3. QED  BY <1>1, <1>2, SubSeqProperties DEF Pop

\* addjob enters the forked child in a free slot, or the table stays.
LEMMA AddJobCases ==
  ASSUME TypeOK, AddJob
  PROVE  /\ jobs' \in Jobs /\ nextjid' \in Nat \ {0}
         /\ Filled(jobs, jobs', cmd.pid, IF cmd.bg THEN "BG" ELSE "FG")
<1> DEFINE st == IF cmd.bg THEN "BG" ELSE "FG"
<1>1. jobs \in Jobs /\ nextjid \in Nat \ {0} /\ cmd.pid \in Int /\ st \in {"FG", "BG"}
  BY DEF TypeOK, Commands
<1>2. /\ jobs' = addjob(jobs, nextjid, cmd.pid, st)
      /\ nextjid' = JidAfterAdd(jobs, nextjid, cmd.pid)
  BY DEF AddJob
<1> HIDE DEF st
<1>3. /\ addjob(jobs, nextjid, cmd.pid, st) \in Jobs
      /\ JidAfterAdd(jobs, nextjid, cmd.pid) \in Nat \ {0}
      /\ Filled(jobs, addjob(jobs, nextjid, cmd.pid, st), cmd.pid, st)
  BY <1>1, AddJobEffect
<1>4. QED  BY <1>2, <1>3 DEF st

\* The three outcomes of waitpid.
LEMMA WaitPidCases ==
  ASSUME TypeOK, WaitPid
  PROVE  /\ handler["CHLD"].at = "wait" /\ Alive /\ handler["CHLD"] # Idle
         /\ UNCHANGED <<shell, pending, doomed>>
         /\ \/ \E p \in Pids :
                 /\ proc[p] = "zombie" /\ proc' = [proc EXCEPT ![p] = "none"]
                 /\ handler' = [handler EXCEPT !["CHLD"] =
                                  [at |-> "update", pid |-> p, stopped |-> FALSE]]
                 /\ UNCHANGED reported
            \/ \E p \in Pids :
                 /\ proc[p] = "stopped" /\ reported' = reported \union {p}
                 /\ handler' = [handler EXCEPT !["CHLD"] =
                                  [at |-> "update", pid |-> p, stopped |-> TRUE]]
                 /\ UNCHANGED proc
            \/ /\ \A p \in Pids : ~Unwaited(p)
               /\ handler' = [handler EXCEPT !["CHLD"] = Idle]
               /\ UNCHANGED <<proc, reported>>
  BY DEF WaitPid, Runs, Returned, NothingToReport

\* What the SIGCHLD handler does to the table: delete the job of the child it
\* reaped, or mark the job of the child that stopped, or crash without one.
LEMMA UpdateJobCases ==
  ASSUME TypeOK, UpdateJob
  PROVE  /\ handler["CHLD"].at = "update" /\ Alive
         /\ handler' = [handler EXCEPT !["CHLD"] = [Idle EXCEPT !.at = "wait"]]
         /\ UNCHANGED <<cmd, mask, prev, stack, pending, kernel>>
         /\ jobs' \in Jobs /\ nextjid' \in Nat \ {0} /\ pc' \in {pc, "crashed"}
         /\ ~handler["CHLD"].stopped => Cleared(jobs, jobs', handler["CHLD"].pid)
         /\ handler["CHLD"].stopped =>
              \/ jobs' = jobs /\ handler["CHLD"].pid \notin Listed(jobs) /\ pc' = "crashed"
              \/ \E i \in Slots : /\ jobs[i].pid = handler["CHLD"].pid /\ jobs[i].pid # 0
                                 /\ jobs' = [jobs EXCEPT ![i].state = "ST"]
<1> DEFINE pid == handler["CHLD"].pid
           d == getjobpid(jobs, pid)
<1>1. jobs \in Jobs /\ nextjid \in Nat \ {0} /\ pid \in Nat
  BY DEF TypeOK, Frames, Signals
<1>2. (d = NULL /\ pid \notin Listed(jobs)) \/ (d \in Slots /\ jobs[d].pid = pid /\ pid # 0)
  BY <1>1, LookUps
<1>3. NULL \notin Slots
  BY MaxJobsAssumption DEF NULL, Slots
<1>4. CASE handler["CHLD"].stopped
  <2>1. CASE d = NULL
    BY <1>1, <1>2, <1>3, <1>4, <2>1 DEF UpdateJob, NextChild, Runs
  <2>2. CASE d # NULL
    <3>1. jobs' = [jobs EXCEPT ![d].state = "ST"] /\ UNCHANGED <<pc, nextjid>>
      BY <1>4, <2>2 DEF UpdateJob, NextChild, MarkStopped
    <3>2. jobs' \in Jobs
      BY <1>1, <1>2, <2>2, <3>1 DEF Jobs, States
    <3> HIDE DEF d
    <3>3. QED  BY <1>1, <1>2, <1>4, <2>2, <3>1, <3>2 DEF UpdateJob, NextChild, Runs
  <2>3. QED  BY <2>1, <2>2
<1>5. CASE ~handler["CHLD"].stopped
  <2>1. /\ jobs' = deletejob(jobs, pid) /\ nextjid' = JidAfterDelete(jobs, nextjid, pid)
        /\ UNCHANGED pc
    BY <1>5 DEF UpdateJob, NextChild
  <2>2. /\ jobs' \in Jobs /\ nextjid' \in Nat \ {0}
        /\ Cleared(jobs, jobs', pid)
    BY <1>1, <2>1, DeleteJobEffect
  <2>3. QED  BY <1>5, <2>1, <2>2 DEF UpdateJob, NextChild, Runs
<1>6. QED  BY <1>4, <1>5

-------------------------------------------------------------------------------
(* Every step preserves each part of the invariant. *)

LEMMA TypeStep ==
  ASSUME TypeOK, SlotHeld, [Next]_vars
  PROVE  TypeOK'
<1> USE DEF vars, shell, kernel
<1>1. ASSUME NEW p \in Pids, SetPgid(p) PROVE TypeOK'
  BY <1>1 DEF TypeOK, SetPgid, ProcStates
<1>2. ASSUME NEW p \in Pids, Exec(p) PROVE TypeOK'
  <2>1. childmask' \in [Pids -> SUBSET Signals]
    BY <1>2 DEF TypeOK, Exec
  <2>2. proc' \in [Pids -> ProcStates] /\ pending' \subseteq Signals
    BY <1>2 DEF TypeOK, Exec, ProcStates, Signals
  <2>3. QED  BY <1>2, <2>1, <2>2 DEF TypeOK, Exec
<1>3. ASSUME NEW p \in Pids, Die(p) PROVE TypeOK'
  BY <1>3 DEF TypeOK, Die, ProcStates, Signals
<1>4. ASSUME NEW p \in Pids, StopSelf(p) PROVE TypeOK'
  BY <1>4 DEF TypeOK, StopSelf, ProcStates, Signals
<1>5. ASSUME NEW bg \in BOOLEAN, RunCommand(bg) PROVE TypeOK'
  BY <1>5, ConstantRecords DEF TypeOK, RunCommand, Positions, Signals
<1>6. CASE Fork
  <2>1. ASSUME NEW p \in Pids, proc' = [proc EXCEPT ![p] = "forked"],
               childmask' = [childmask EXCEPT ![p] = mask], cmd' = [cmd EXCEPT !.pid = p]
        PROVE  TypeOK'
    <3>1. cmd' \in Commands
      BY <2>1, PidsAssumption DEF TypeOK, Commands
    <3>2. proc' \in [Pids -> ProcStates] /\ childmask' \in [Pids -> SUBSET Signals]
      BY <2>1 DEF TypeOK, ProcStates
    <3>3. QED  BY <1>6, <3>1, <3>2 DEF TypeOK, Fork, Positions
  <2>2. CASE cmd' = [cmd EXCEPT !.pid = -1] /\ UNCHANGED <<proc, childmask>>
    BY <1>6, <2>2 DEF TypeOK, Fork, Positions, Commands
  <2>3. QED  BY <1>6, <2>1, <2>2 DEF Fork
<1>7. CASE AddJob
  <2>1. jobs' \in Jobs /\ nextjid' \in Nat \ {0}
    BY <1>7, AddJobCases
  <2>2. QED  BY <1>7, <2>1 DEF TypeOK, AddJob, Positions
<1>8. CASE ReportBackground \/ WaitfgReturns
  BY <1>8, ConstantRecords DEF TypeOK, ReportBackground, WaitfgReturns, Positions
<1>9. ASSUME NEW bg \in BOOLEAN, NEW arg \in Arguments, LookUpJob(bg, arg) PROVE TypeOK'
  <2>1. JobNamed(arg) \in Slots \union {NULL}
    BY LookUps, PidsAssumption, BoundAssumption DEF TypeOK, JobNamed, Arguments
  <2>2. QED  BY <1>9, <2>1 DEF TypeOK, LookUpJob, Positions, Commands
<1>10. CASE SetJobState
  <2>1. PICK st \in States : jobs' = [jobs EXCEPT ![cmd.slot].state = st]
    BY <1>10 DEF SetJobState, States
  <2>2. jobs' \in Jobs
    BY <2>1 DEF TypeOK, Jobs
  <2>3. QED  BY <1>10, <2>2 DEF TypeOK, SetJobState, Positions
<1>11. CASE ReadJobPid
  <2>1. jobs[cmd.slot].pid \in Nat
    BY <1>11 DEF TypeOK, ReadJobPid, SlotHeld, Jobs
  <2>2. QED  BY <1>11, <2>1 DEF TypeOK, ReadJobPid, Positions, Commands
<1>12. CASE ContinueJob
  <2>1. /\ proc' \in [Pids -> ProcStates] /\ pending' \subseteq Signals
        /\ reported' \subseteq Pids /\ doomed' \subseteq Pids
    BY <1>12, KillGroupEffect DEF TypeOK, ContinueJob
  <2>2. pc' \in Positions /\ cmd' \in Commands
    BY <1>12, ConstantRecords DEF TypeOK, ContinueJob, Commands, Positions
  <2>3. QED  BY <1>12, <2>1, <2>2 DEF TypeOK, ContinueJob
<1>13. CASE Exit
  BY <1>13 DEF TypeOK, Exit, Positions
<1>14. ASSUME NEW s \in Signals, Keyboard(s) PROVE TypeOK'
  BY <1>14 DEF TypeOK, Keyboard
<1>15. ASSUME NEW s \in Signals, Deliver(s) PROVE TypeOK'
  <2>1. fgpid(jobs) \in Nat
    BY FgPid DEF TypeOK
  <2>2. stack' \in Seq(Signals) /\ pending' \subseteq Signals
    BY <1>15 DEF TypeOK, Deliver
  <2>3. handler' \in [Signals -> Frames]
    BY <1>15, <2>1 DEF TypeOK, Deliver, Idle, Frames
  <2>4. QED  BY <1>15, <2>2, <2>3 DEF TypeOK, Deliver
<1>16. ASSUME NEW s \in {"INT", "TSTP"}, Forward(s) PROVE TypeOK'
  <2>1. /\ proc' \in [Pids -> ProcStates] /\ pending' \subseteq Signals
        /\ reported' \subseteq Pids /\ doomed' \subseteq Pids
    BY <1>16, KillGroupEffect DEF TypeOK, Forward
  <2>2. stack' \in Seq(Signals)
    BY <1>16, PopType DEF TypeOK, Forward, Runs
  <2>3. handler' \in [Signals -> Frames]
    BY <1>16, ConstantRecords DEF TypeOK, Forward
  <2>4. QED  BY <1>16, <2>1, <2>2, <2>3 DEF TypeOK, Forward
<1>17. CASE WaitPid
  <2>1. stack' \in Seq(Signals)
    BY <1>17, PopType DEF TypeOK, WaitPid, Runs
  <2>2. handler' \in [Signals -> Frames]
    <3>1. \A p \in Pids, b \in BOOLEAN : [at |-> "update", pid |-> p, stopped |-> b] \in Frames
      BY PidsAssumption DEF Frames
    <3>2. QED  BY <1>17, <3>1, ConstantRecords, WaitPidCases DEF TypeOK
  <2>3. /\ proc' \in [Pids -> ProcStates] /\ reported' \subseteq Pids
        /\ childmask' \in [Pids -> SUBSET Signals]
    BY <1>17 DEF TypeOK, WaitPid, ProcStates
  <2>4. QED  BY <1>17, <2>1, <2>2, <2>3 DEF TypeOK, WaitPid
<1>18. CASE UpdateJob
  <2>1. handler' \in [Signals -> Frames]
    BY <1>18, ConstantRecords, UpdateJobCases DEF TypeOK
  <2>2. QED  BY <1>18, <2>1, UpdateJobCases DEF TypeOK, Positions
<1>19. CASE UNCHANGED vars
  BY <1>19 DEF TypeOK
<1>20. QED
  BY <1>1, <1>2, <1>3, <1>4, <1>5, <1>6, <1>7, <1>8, <1>9, <1>10, <1>11, <1>12,
     <1>13, <1>14, <1>15, <1>16, <1>17, <1>18, <1>19, StepCases

\* Only the main program and the table update of the SIGCHLD handler change the
\* job list and the main program's state.
LEMMA MainCases ==
  ASSUME [Next]_vars
  PROVE  \/ UNCHANGED shell
         \/ \E bg \in BOOLEAN : RunCommand(bg)
         \/ Fork \/ AddJob \/ ReportBackground \/ WaitfgReturns
         \/ \E bg \in BOOLEAN, arg \in Arguments : LookUpJob(bg, arg)
         \/ SetJobState \/ ReadJobPid \/ ContinueJob \/ Exit \/ UpdateJob
  BY StepCases DEF SetPgid, Exec, Die, StopSelf, Keyboard, Deliver, Forward, WaitPid, vars

\* A slot in the foreground has been put there by the command being executed.
LEMMA ForegroundStep ==
  ASSUME TypeOK, SlotHeld, ForegroundAtWork, [Next]_vars
  PROVE  ForegroundAtWork'
<1> USE DEF ForegroundAtWork, AtMostOneForeground
<1>1. CASE UNCHANGED shell
  BY <1>1 DEF shell
<1>2. ASSUME NEW bg \in BOOLEAN, RunCommand(bg) PROVE ForegroundAtWork'
  BY <1>2 DEF RunCommand
<1>3. CASE Fork
  BY <1>3 DEF Fork
<1>4. CASE AddJob
  <2>1. \A i \in Slots : jobs[i].state # "FG"
    BY <1>4 DEF AddJob
  <2>2. pc' = (IF cmd.bg THEN "report" ELSE "wait") /\ cmd' = cmd
    BY <1>4 DEF AddJob
  <2>3. Filled(jobs, jobs', cmd.pid, IF cmd.bg THEN "BG" ELSE "FG")
    BY <1>4, AddJobCases
  <2>4. QED  BY <2>1, <2>2, <2>3 DEF Filled
<1>5. CASE ReportBackground
  BY <1>5 DEF ReportBackground
<1>6. CASE WaitfgReturns
  <2>1. \A i \in Slots : jobs[i].state # "FG"
    BY <1>6, FgPid DEF WaitfgReturns, TypeOK
  <2>2. QED  BY <1>6, <2>1 DEF WaitfgReturns
<1>7. ASSUME NEW bg \in BOOLEAN, NEW arg \in Arguments, LookUpJob(bg, arg)
      PROVE  ForegroundAtWork'
  BY <1>7 DEF LookUpJob
<1>8. CASE SetJobState
  <2>1. /\ \A i \in Slots : jobs[i].state # "FG"
        /\ jobs' = [jobs EXCEPT ![cmd.slot].state = IF cmd.bg THEN "BG" ELSE "FG"]
        /\ pc' = "read" /\ cmd' = cmd
    BY <1>8 DEF SetJobState
  <2>2. \A i \in Slots : jobs'[i].state = "FG" => i = cmd.slot
    BY <2>1 DEF TypeOK, Jobs
  <2>3. QED  BY <2>1, <2>2
<1>9. CASE ReadJobPid
  BY <1>9 DEF ReadJobPid, TypeOK, Commands
<1>10. CASE ContinueJob
  <2>1. pc = "cont" /\ jobs' = jobs
    BY <1>10 DEF ContinueJob
  <2>2. CASE cmd.bg
    BY <1>10, <2>1, <2>2 DEF ContinueJob
  <2>3. CASE ~cmd.bg
    BY <1>10, <2>1, <2>3 DEF ContinueJob, TypeOK, Commands
  <2>4. QED  BY <2>2, <2>3
<1>11. CASE Exit
  BY <1>11 DEF Exit
<1>12. CASE UpdateJob
  <2>1. \A i \in Slots : jobs'[i].state = "FG" => jobs'[i] = jobs[i]
    BY <1>12, UpdateJobCases DEF Cleared, clearjob, TypeOK, Jobs
  <2>2. cmd' = cmd /\ pc' \in {pc, "crashed"}
    BY <1>12, UpdateJobCases
  <2>3. QED  BY <2>1, <2>2
<1>13. QED
  BY <1>1, <1>2, <1>3, <1>4, <1>5, <1>6, <1>7, <1>8, <1>9, <1>10, <1>11, <1>12, MainCases

\* The update of the table changes no pid but to clear it.
LEMMA UpdateKeepsPids ==
  ASSUME TypeOK, UpdateJob
  PROVE  \A i \in Slots : jobs'[i].pid \in {jobs[i].pid, 0}
<1> DEFINE Kept == \A i \in Slots : jobs'[i].pid \in {jobs[i].pid, 0}
<1>1. CASE jobs' = jobs
  BY <1>1
<1>2. ASSUME NEW k \in Slots, jobs' = [jobs EXCEPT ![k].state = "ST"] PROVE Kept
  BY <1>2 DEF TypeOK, Jobs
<1>3. ASSUME NEW k \in Slots, jobs' = [jobs EXCEPT ![k] = clearjob] PROVE Kept
  BY <1>3 DEF TypeOK, Jobs, clearjob
<1>4. QED  BY <1>1, <1>2, <1>3, UpdateJobCases DEF Cleared

\* do_bgfg's slot stays a slot; a job deleted under it leaves pid 0 there.
LEMMA SlotStep ==
  ASSUME TypeOK, SlotHeld, [Next]_vars
  PROVE  SlotHeld'
<1> USE DEF SlotHeld
<1>1. CASE UNCHANGED shell
  BY <1>1 DEF shell
<1>2. ASSUME NEW bg \in BOOLEAN, RunCommand(bg) PROVE SlotHeld'
  BY <1>2 DEF RunCommand
<1>3. CASE Fork \/ AddJob \/ ReportBackground \/ WaitfgReturns \/ ContinueJob \/ Exit
  BY <1>3 DEF Fork, AddJob, ReportBackground, WaitfgReturns, ContinueJob, Exit
<1>4. ASSUME NEW bg \in BOOLEAN, NEW arg \in Arguments, LookUpJob(bg, arg) PROVE SlotHeld'
  <2>1. JobNamed(arg) \in Slots \union {NULL}
    BY LookUps, PidsAssumption, BoundAssumption DEF TypeOK, JobNamed, Arguments
  <2>2. QED  BY <1>4, <2>1 DEF LookUpJob
<1>5. CASE SetJobState
  BY <1>5 DEF SetJobState
<1>6. CASE ReadJobPid
  BY <1>6 DEF ReadJobPid, TypeOK, Commands
<1>7. CASE UpdateJob
  <2>1. \A i \in Slots : jobs'[i].pid \in {jobs[i].pid, 0}
    BY <1>7, UpdateKeepsPids
  <2>2. cmd' = cmd /\ pc' \in {pc, "crashed"}
    BY <1>7, UpdateJobCases
  <2>3. QED  BY <2>1, <2>2
<1>8. QED  BY <1>1, <1>2, <1>3, <1>4, <1>5, <1>6, <1>7, MainCases

\* The handler that updates the table does so for a process.
LEMMA ChildHeldStep ==
  ASSUME TypeOK, ChildHeld, [Next]_vars
  PROVE  ChildHeld'
<1> USE DEF ChildHeld
<1>1. CASE UNCHANGED handler
  BY <1>1
<1>2. ASSUME NEW s \in Signals, Deliver(s) PROVE ChildHeld'
  BY <1>2 DEF Deliver, TypeOK, Idle
<1>3. ASSUME NEW s \in {"INT", "TSTP"}, Forward(s) PROVE ChildHeld'
  BY <1>3 DEF Forward, TypeOK
<1>4. CASE WaitPid
  BY <1>4, WaitPidCases DEF TypeOK, Idle, Signals
<1>5. CASE UpdateJob
  BY <1>5, UpdateJobCases DEF TypeOK, Idle, Signals
<1>6. QED
  BY <1>1, <1>2, <1>3, <1>4, <1>5, StepCases
     DEF SetPgid, Exec, Die, StopSelf, RunCommand, Fork, AddJob, ReportBackground,
         WaitfgReturns, LookUpJob, SetJobState, ReadJobPid, ContinueJob, Exit, Keyboard, vars

\* A reported stop is forgotten when its process continues or ends.
LEMMA ReportedStep ==
  ASSUME TypeOK, ReportedAreStopped, [Next]_vars
  PROVE  ReportedAreStopped'
<1> USE DEF ReportedAreStopped
<1>1. ASSUME NEW p \in Pids, SetPgid(p) \/ Exec(p) \/ Die(p) \/ StopSelf(p)
      PROVE  ReportedAreStopped'
  BY <1>1 DEF SetPgid, Exec, Die, StopSelf, TypeOK
<1>2. CASE Fork
  BY <1>2 DEF Fork, TypeOK
<1>3. CASE ContinueJob
  BY <1>3, KillGroupEffect DEF ContinueJob
<1>4. ASSUME NEW s \in {"INT", "TSTP"}, Forward(s) PROVE ReportedAreStopped'
  BY <1>4, KillGroupEffect DEF Forward
<1>5. CASE WaitPid
  BY <1>5, WaitPidCases DEF TypeOK
<1>6. CASE UNCHANGED kernel
  BY <1>6 DEF kernel
<1>7. QED
  BY <1>1, <1>2, <1>3, <1>4, <1>5, <1>6, StepCases
     DEF RunCommand, AddJob, ReportBackground, WaitfgReturns, LookUpJob, SetJobState,
         ReadJobPid, Exit, Keyboard, Deliver, UpdateJob, NextChild, vars

\* What holds between SIG_BLOCK and addjob is not disturbed by the children, by
\* other signals or by the user.
LEMMA ChildBeforeAddStep ==
  ASSUME TypeOK, JobsAreChildren, ReportedAreStopped, ChildBeforeAdd, [Next]_vars
  PROVE  ChildBeforeAdd'
<1> USE DEF ChildBeforeAdd
<1>1. ASSUME NEW p \in Pids, SetPgid(p) \/ Exec(p) \/ Die(p) \/ StopSelf(p)
      PROVE  ChildBeforeAdd'
  BY <1>1 DEF SetPgid, Exec, Die, StopSelf, shell, TypeOK
<1>2. ASSUME NEW bg \in BOOLEAN, RunCommand(bg) PROVE ChildBeforeAdd'
  BY <1>2 DEF RunCommand, MainRuns, Signals
<1>3. CASE Fork
  <2>1. handler["CHLD"] = Idle /\ pc = "fork"
    BY <1>3 DEF Fork, MainRuns, Signals
  <2>2. ASSUME NEW p \in Pids, proc[p] = "none" PROVE p \notin reported /\ p \notin Listed(jobs)
    BY <2>1, <2>2 DEF JobsAreChildren, ReportedAreStopped, Deleting, Idle
  <2>3. ASSUME NEW p \in Pids, proc[p] = "none", proc' = [proc EXCEPT ![p] = "forked"],
               cmd' = [cmd EXCEPT !.pid = p]
        PROVE  ChildBeforeAdd'
    <3>1. cmd'.pid = p /\ proc'[p] = "forked"
      BY <2>3 DEF TypeOK, Commands
    <3>2. p \notin reported /\ p \notin Listed(jobs)
      BY <2>2, <2>3
    <3>3. QED  BY <1>3, <2>1, <3>1, <3>2 DEF Fork
  <2>4. CASE cmd' = [cmd EXCEPT !.pid = -1]
    BY <1>3, <2>4 DEF Fork, TypeOK, Commands
  <2>5. QED  BY <1>3, <2>3, <2>4 DEF Fork
<1>4. CASE AddJob
  <2>1. handler' = handler /\ handler["CHLD"] = Idle /\ pc' \in {"report", "wait"}
    BY <1>4 DEF AddJob, MainRuns, Signals
  <2>2. QED  BY <2>1
<1>5. CASE ReportBackground \/ WaitfgReturns
  BY <1>5 DEF ReportBackground, WaitfgReturns
<1>6. ASSUME NEW bg \in BOOLEAN, NEW arg \in Arguments, LookUpJob(bg, arg)
      PROVE  ChildBeforeAdd'
  BY <1>6 DEF LookUpJob
<1>7. CASE SetJobState \/ ReadJobPid \/ ContinueJob \/ Exit
  BY <1>7 DEF SetJobState, ReadJobPid, ContinueJob, Exit
<1>8. ASSUME NEW s \in Signals, Keyboard(s) PROVE ChildBeforeAdd'
  BY <1>8 DEF Keyboard, shell, kernel
<1>9. ASSUME NEW s \in Signals, Deliver(s) PROVE ChildBeforeAdd'
  BY <1>9 DEF Deliver, Blocked, shell, kernel, TypeOK
<1>10. ASSUME NEW s \in {"INT", "TSTP"}, Forward(s) PROVE ChildBeforeAdd'
  <2>1. /\ handler'["CHLD"] = handler["CHLD"] /\ reported' \subseteq reported
        /\ \A p \in Pids : proc'[p] = "none" <=> proc[p] = "none"
    BY <1>10, KillGroupEffect DEF Forward, TypeOK
  <2>2. UNCHANGED shell
    BY <1>10 DEF Forward
  <2>3. QED  BY <2>1, <2>2 DEF shell
<1>11. CASE WaitPid \/ UpdateJob
  <2>1. handler["CHLD"] # Idle
    BY <1>11 DEF WaitPid, UpdateJob, NextChild, Runs
  <2>2. mask' = mask /\ pc' \in {pc, "crashed"}
    BY <1>11, WaitPidCases, UpdateJobCases DEF shell
  <2>3. QED  BY <2>1, <2>2
<1>12. CASE UNCHANGED vars
  BY <1>12 DEF vars, shell, kernel
<1>13. QED
  BY <1>1, <1>2, <1>3, <1>4, <1>5, <1>6, <1>7, <1>8, <1>9, <1>10, <1>11, <1>12, StepCases

\* The table lists unreaped children, each once.
LEMMA JobsAreChildrenStep ==
  ASSUME TypeOK, JobsAreChildren, ChildBeforeAdd, [Next]_vars
  PROVE  JobsAreChildren'
<1> DEFINE Kept == \A p \in Pids : proc[p] # "none" => proc'[p] # "none"
<1>0. SUFFICES ASSUME ~(jobs' = jobs /\ Kept /\ handler'["CHLD"] = handler["CHLD"])
               PROVE  JobsAreChildren'
  BY DEF JobsAreChildren, Deleting
<1>1. ASSUME NEW p \in Pids, SetPgid(p) \/ Exec(p) \/ Die(p) \/ StopSelf(p) PROVE FALSE
  BY <1>0, <1>1 DEF SetPgid, Exec, Die, StopSelf, shell, TypeOK
<1>2. CASE Fork
  BY <1>0, <1>2 DEF Fork, TypeOK
<1>3. CASE AddJob
  <2>1. handler' = handler /\ proc' = proc /\ handler["CHLD"] = Idle /\ pc = "add"
    BY <1>3 DEF AddJob, MainRuns, Signals, kernel
  <2>2. CASE jobs' = jobs
    BY <1>0, <2>1, <2>2
  <2>3. ASSUME NEW i \in Slots, jobs[i].pid = 0, cmd.pid > 0, jobs'[i].pid = cmd.pid,
               \A k \in Slots \ {i} : jobs'[k] = jobs[k]
        PROVE  JobsAreChildren'
    <3>1. cmd.pid \in Pids /\ cmd.pid \notin Listed(jobs) /\ proc[cmd.pid] # "none"
      BY <2>1, <2>3 DEF ChildBeforeAdd
    <3>2. \A k \in Slots : jobs[k].pid # cmd.pid
      BY <2>3, <3>1 DEF Listed
    <3>3. QED  BY <2>1, <2>3, <3>1, <3>2 DEF JobsAreChildren, Deleting, Listed
  <2>4. QED  BY <1>3, <2>2, <2>3, AddJobCases DEF Filled
<1>4. CASE SetJobState
  <2>1. \A i \in Slots : jobs'[i].pid = jobs[i].pid
    BY <1>4 DEF SetJobState, TypeOK, Jobs
  <2>2. proc' = proc /\ handler' = handler
    BY <1>4 DEF SetJobState, kernel
  <2>3. QED  BY <2>1, <2>2 DEF JobsAreChildren, Deleting, Listed
<1>5. CASE ContinueJob
  BY <1>0, <1>5, KillGroupEffect DEF ContinueJob
<1>6. ASSUME NEW s \in Signals, Deliver(s) PROVE JobsAreChildren'
  BY <1>6 DEF Deliver, Blocked, shell, kernel, JobsAreChildren, Deleting, Idle, TypeOK
<1>7. ASSUME NEW s \in {"INT", "TSTP"}, Forward(s) PROVE FALSE
  BY <1>0, <1>7, KillGroupEffect DEF Forward, shell, TypeOK
<1>8. CASE WaitPid
  <2>1. jobs' = jobs /\ handler["CHLD"].at = "wait"
    BY <1>8, WaitPidCases DEF shell
  <2>2. \A p \in Listed(jobs) : p \in Pids /\ proc[p] # "none"
    BY <2>1 DEF JobsAreChildren, Deleting
  <2>3. \A p \in Pids : proc[p] # "none" => proc'[p] # "none" \/ Deleting(p)'
    BY <1>8, WaitPidCases DEF TypeOK, Deleting, Signals
  <2>4. QED  BY <2>1, <2>2, <2>3 DEF JobsAreChildren
<1>9. CASE UpdateJob
  <2>1. \A i \in Slots : jobs'[i].pid \in {jobs[i].pid, 0}
    BY <1>9, UpdateKeepsPids
  <2>2. proc' = proc
    BY <1>9, UpdateJobCases DEF kernel
  <2>3. ASSUME NEW p \in Listed(jobs') PROVE p \in Pids /\ proc[p] # "none"
    <3>1. p \in Listed(jobs)
      BY <2>1 DEF Listed
    <3>2. SUFFICES ASSUME Deleting(p) PROVE FALSE
      BY <3>1 DEF JobsAreChildren
    <3>3. Cleared(jobs, jobs', p)
      BY <1>9, <3>2, UpdateJobCases DEF Deleting
    <3>4. PICK i \in Slots : jobs[i].pid = p /\ p # 0 /\ jobs' = [jobs EXCEPT ![i] = clearjob]
      BY <3>1, <3>3 DEF Cleared
    <3>5. \A k \in Slots \ {i} : jobs'[k].pid # p
      BY <3>4 DEF JobsAreChildren, TypeOK, Jobs
    <3>6. jobs'[i].pid = 0
      BY <3>4 DEF TypeOK, Jobs, clearjob
    <3>7. QED  BY <3>4, <3>5, <3>6 DEF Listed
  <2>4. QED  BY <2>1, <2>2, <2>3 DEF JobsAreChildren
<1>10. QED
  BY <1>0, <1>1, <1>2, <1>3, <1>4, <1>5, <1>6, <1>7, <1>8, <1>9, StepCases
     DEF RunCommand, ReportBackground, WaitfgReturns, LookUpJob, ReadJobPid, Exit,
         Keyboard, vars, shell, kernel

\* Every death, stop and continuation raises SIGCHLD, and the handler does not
\* return before waitpid has nothing left.
LEMMA NoLostChildStep ==
  ASSUME TypeOK, NoLostChild, [Next]_vars
  PROVE  NoLostChild'
<1> USE DEF NoLostChild
<1>1. ASSUME NEW p \in Pids, SetPgid(p) PROVE NoLostChild'
  BY <1>1 DEF SetPgid, Unwaited, TypeOK
<1>2. ASSUME NEW p \in Pids, Exec(p) PROVE NoLostChild'
  BY <1>2 DEF Exec, Unwaited, TypeOK
<1>3. ASSUME NEW p \in Pids, Die(p) \/ StopSelf(p) PROVE NoLostChild'
  BY <1>3 DEF Die, StopSelf
<1>4. CASE Fork
  BY <1>4 DEF Fork, Unwaited, TypeOK
<1>5. CASE ContinueJob
  BY <1>5, KillGroupEffect DEF ContinueJob
<1>6. ASSUME NEW s \in Signals, Keyboard(s) PROVE NoLostChild'
  BY <1>6 DEF Keyboard, Unwaited, kernel
<1>7. ASSUME NEW s \in Signals, Deliver(s) PROVE NoLostChild'
  BY <1>7 DEF Deliver, Unwaited, kernel, Idle, TypeOK
<1>8. ASSUME NEW s \in {"INT", "TSTP"}, Forward(s) PROVE NoLostChild'
  <2>1. handler'["CHLD"] = handler["CHLD"]
    BY <1>8 DEF Forward, TypeOK
  <2>2. QED  BY <1>8, <2>1, KillGroupEffect DEF Forward
<1>9. CASE WaitPid
  BY <1>9, WaitPidCases DEF Unwaited, TypeOK, Signals
<1>10. CASE UpdateJob
  BY <1>10, UpdateJobCases DEF Idle, TypeOK, Signals
<1>11. CASE UNCHANGED <<handler, pending, kernel>>
  BY <1>11 DEF Unwaited, kernel
<1>12. QED
  BY <1>1, <1>2, <1>3, <1>4, <1>5, <1>6, <1>7, <1>8, <1>9, <1>10, <1>11, StepCases
     DEF RunCommand, AddJob, ReportBackground, WaitfgReturns, LookUpJob, SetJobState,
         ReadJobPid, Exit, vars

\* A handler that is about to forward ctrl-c or ctrl-z runs on top of the main
\* program, so nothing can move its job to the background before it does.
LEMMA SignalsStep ==
  ASSUME TypeOK, JobsAreChildren, SignalsOnlyForeground, [Next]_vars
  PROVE  SignalsOnlyForeground'
<1> USE DEF SignalsOnlyForeground
<1>1. CASE MainRuns /\ UNCHANGED handler
  BY <1>1 DEF MainRuns, Idle, Signals
<1>2. CASE UNCHANGED <<jobs, handler>>
  BY <1>2
<1>3. ASSUME NEW s \in Signals, Deliver(s) PROVE SignalsOnlyForeground'
  <2>1. jobs' = jobs
    BY <1>3 DEF Deliver, shell
  <2>2. \A i \in Slots : jobs[i].pid # 0 /\ jobs[i].pid = fgpid(jobs) => jobs[i].state # "BG"
    BY FgPid DEF JobsAreChildren, TypeOK
  <2>3. QED  BY <1>3, <2>1, <2>2 DEF Deliver, TypeOK, Idle
<1>4. ASSUME NEW s \in {"INT", "TSTP"}, Forward(s) PROVE SignalsOnlyForeground'
  BY <1>4 DEF Forward, shell, TypeOK, Idle
<1>5. CASE WaitPid
  <2>1. \A t \in {"INT", "TSTP"} : handler'[t] = handler[t]
    BY <1>5, WaitPidCases DEF TypeOK, Signals
  <2>2. QED  BY <1>5, <2>1, WaitPidCases DEF shell
<1>6. CASE UpdateJob
  <2>1. \A t \in {"INT", "TSTP"} : handler'[t] = handler[t]
    BY <1>6, UpdateJobCases DEF TypeOK, Signals
  <2>2. \A i \in Slots : jobs'[i].pid # 0 =>
          jobs'[i].pid = jobs[i].pid /\ jobs'[i].state \in {jobs[i].state, "ST"}
    <3> DEFINE Kept == \A i \in Slots : jobs'[i].pid # 0 =>
          jobs'[i].pid = jobs[i].pid /\ jobs'[i].state \in {jobs[i].state, "ST"}
    <3>1. CASE jobs' = jobs
      BY <3>1
    <3>2. ASSUME NEW k \in Slots, jobs' = [jobs EXCEPT ![k].state = "ST"] PROVE Kept
      BY <3>2 DEF TypeOK, Jobs
    <3>3. ASSUME NEW k \in Slots, jobs' = [jobs EXCEPT ![k] = clearjob] PROVE Kept
      BY <3>3 DEF TypeOK, Jobs, clearjob
    <3>4. QED  BY <1>6, <3>1, <3>2, <3>3, UpdateJobCases DEF Cleared
  <2>3. QED  BY <2>1, <2>2
<1>7. QED
  BY <1>1, <1>2, <1>3, <1>4, <1>5, <1>6, StepCases
     DEF SetPgid, Exec, Die, StopSelf, RunCommand, Fork, AddJob, ReportBackground,
         WaitfgReturns, LookUpJob, SetJobState, ReadJobPid, ContinueJob, Exit, Keyboard,
         vars, shell

\* A reported stop has its job marked, and only fg and bg unmark it; they
\* continue the process before they do anything else.
LEMMA StopsStep ==
  ASSUME TypeOK, SlotHeld, ReportedAreStopped, JobsAreChildren, ChildBeforeAdd,
         StopsOnTheWay, [Next]_vars
  PROVE  StopsOnTheWay'
<1> DEFINE Excused(i) ==
      \/ jobs[i].state = "ST"
      \/ (pc \in {"read", "cont"} /\ cmd.slot = i)
      \/ (handler["CHLD"].at = "update" /\ handler["CHLD"].pid = jobs[i].pid
          /\ handler["CHLD"].stopped)
      \/ ~Alive
<1>0. \A i \in Slots : jobs[i].pid \in reported => Excused(i)
  BY DEF StopsOnTheWay
<1>1. ASSUME NEW p \in Pids, SetPgid(p) \/ Exec(p) \/ Die(p) \/ StopSelf(p)
      PROVE  StopsOnTheWay'
  BY <1>1 DEF SetPgid, Exec, Die, StopSelf, shell, StopsOnTheWay, Alive
<1>2. ASSUME NEW bg \in BOOLEAN, RunCommand(bg) PROVE StopsOnTheWay'
  BY <1>2 DEF RunCommand, StopsOnTheWay, Alive, kernel
<1>3. CASE Fork \/ ReportBackground \/ WaitfgReturns \/ ReadJobPid \/ Exit
  BY <1>3 DEF Fork, ReportBackground, WaitfgReturns, ReadJobPid, Exit, StopsOnTheWay,
              Alive, kernel, TypeOK, Commands
<1>4. CASE AddJob
  <2>1. reported' = reported /\ handler' = handler /\ handler["CHLD"] = Idle /\ pc = "add"
    BY <1>4 DEF AddJob, MainRuns, kernel, Signals
  <2>2. \A i \in Slots : jobs'[i] = jobs[i] \/ (jobs'[i].pid = cmd.pid /\ cmd.pid > 0)
    BY <1>4, AddJobCases DEF Filled
  <2>3. cmd.pid > 0 => cmd.pid \notin reported
    BY <2>1 DEF ChildBeforeAdd
  <2>4. \A i \in Slots : jobs[i].pid \in reported => jobs[i].state = "ST"
    BY <1>0, <2>1 DEF Idle, Alive
  <2>5. QED  BY <2>1, <2>2, <2>3, <2>4 DEF StopsOnTheWay
<1>5. ASSUME NEW bg \in BOOLEAN, NEW arg \in Arguments, LookUpJob(bg, arg)
      PROVE  StopsOnTheWay'
  BY <1>5 DEF LookUpJob, StopsOnTheWay, Alive, kernel
<1>6. CASE SetJobState
  <2>1. reported' = reported /\ handler' = handler /\ pc = "set" /\ pc' = "read" /\ cmd' = cmd
    BY <1>6 DEF SetJobState, kernel
  <2>2. \A i \in Slots : jobs'[i].pid = jobs[i].pid /\ (i # cmd.slot => jobs'[i] = jobs[i])
    BY <1>6 DEF SetJobState, TypeOK, Jobs
  <2>3. QED  BY <2>1, <2>2 DEF StopsOnTheWay, Alive
<1>7. CASE ContinueJob
  <2>1. /\ jobs' = jobs /\ handler' = handler /\ pc = "cont" /\ pc' \in {"prompt", "wait"}
        /\ reported' \subseteq reported /\ cmd.pid \notin reported'
    BY <1>7, KillGroupEffect DEF ContinueJob
  <2>2. jobs[cmd.slot].pid \notin reported'
    BY <2>1, PidsAssumption DEF SlotHeld, TypeOK
  <2>3. QED  BY <2>1, <2>2 DEF StopsOnTheWay, Alive
<1>8. ASSUME NEW s \in Signals, Keyboard(s) PROVE StopsOnTheWay'
  BY <1>8 DEF Keyboard, StopsOnTheWay, Alive, shell, kernel
<1>9. ASSUME NEW s \in Signals, Deliver(s) PROVE StopsOnTheWay'
  BY <1>9 DEF Deliver, Blocked, StopsOnTheWay, Alive, shell, kernel, Idle, TypeOK
<1>10. ASSUME NEW s \in {"INT", "TSTP"}, Forward(s) PROVE StopsOnTheWay'
  <2>1. handler'["CHLD"] = handler["CHLD"] /\ reported' \subseteq reported
    BY <1>10, KillGroupEffect DEF Forward, TypeOK
  <2>2. QED  BY <1>10, <2>1 DEF Forward, StopsOnTheWay, Alive, shell
<1>11. CASE WaitPid
  BY <1>11, WaitPidCases DEF StopsOnTheWay, Alive, shell, TypeOK, Signals, Idle
<1>12. CASE UpdateJob
  <2>1. /\ reported' = reported /\ cmd' = cmd /\ pc' \in {pc, "crashed"}
        /\ handler["CHLD"].at = "update"
    BY <1>12, UpdateJobCases DEF kernel
  <2>2. CASE pc' = "crashed"
    BY <2>2 DEF StopsOnTheWay, Alive
  <2>3. ASSUME NEW k \in Slots, jobs' = [jobs EXCEPT ![k].state = "ST"],
               jobs[k].pid = handler["CHLD"].pid, jobs[k].pid # 0, pc' = pc
        PROVE  StopsOnTheWay'
    <3>1. \A i \in Slots : /\ jobs'[i].pid = jobs[i].pid
                           /\ jobs'[i].state \in {jobs[i].state, "ST"}
      BY <2>3 DEF TypeOK, Jobs
    <3>2. \A i \in Slots : jobs[i].pid = handler["CHLD"].pid => jobs'[i].state = "ST"
      BY <2>3 DEF JobsAreChildren, TypeOK, Jobs
    <3>3. QED  BY <2>1, <2>3, <3>1, <3>2 DEF StopsOnTheWay, Alive
  <2>4. CASE ~handler["CHLD"].stopped /\ pc' = pc
    <3>1. \A i \in Slots : jobs'[i] = jobs[i] \/ jobs'[i].pid = 0
      BY <1>12, <2>4, UpdateJobCases DEF Cleared, clearjob, TypeOK, Jobs
    <3>2. QED  BY <2>1, <2>4, <3>1, PidsAssumption DEF StopsOnTheWay, Alive, TypeOK
  <2>5. QED  BY <1>12, <2>1, <2>2, <2>3, <2>4, UpdateJobCases
<1>13. CASE UNCHANGED vars
  BY <1>13 DEF vars, shell, kernel, StopsOnTheWay, Alive
<1>14. QED
  BY <1>1, <1>2, <1>3, <1>4, <1>5, <1>6, <1>7, <1>8, <1>9, <1>10, <1>11, <1>12, <1>13,
     StepCases

-------------------------------------------------------------------------------
(* The theorems. *)

\* The invariant holds initially.
LEMMA InitIInv == ASSUME Init PROVE IInv
<1>1. TypeOK
  BY MaxJobsAssumption, ConstantRecords, EmptySeq
     DEF Init, TypeOK, initjobs, clearjob, Jobs, States, Positions, ProcStates
<1>2. \A i \in Slots : jobs[i].pid = 0 /\ jobs[i].state = "UNDEF"
  BY DEF Init, initjobs, clearjob
<1>3. handler["CHLD"].at = "idle" /\ \A s \in Signals : handler[s] = Idle
  BY DEF Init, Idle, Signals
<1>4. ForegroundAtWork /\ ChildBeforeAdd /\ SlotHeld /\ ChildHeld /\ ReportedAreStopped
  BY <1>2, <1>3 DEF Init, ForegroundAtWork, AtMostOneForeground, ChildBeforeAdd,
                    SlotHeld, ChildHeld, ReportedAreStopped
<1>5. JobsAreChildren /\ StopsOnTheWay
  BY <1>2, PidsAssumption DEF Init, JobsAreChildren, StopsOnTheWay, Listed
<1>6. NoLostChild
  BY DEF Init, NoLostChild, Unwaited
<1>7. SignalsOnlyForeground
  BY <1>3 DEF SignalsOnlyForeground, Signals, Idle
<1>8. QED  BY <1>1, <1>4, <1>5, <1>6, <1>7 DEF IInv

\* Every step preserves it.
LEMMA NextIInv == ASSUME IInv, [Next]_vars PROVE IInv'
<1>1. TypeOK' /\ ForegroundAtWork' /\ SlotHeld' /\ ChildHeld'
  BY TypeStep, ForegroundStep, SlotStep, ChildHeldStep DEF IInv
<1>2. ReportedAreStopped' /\ ChildBeforeAdd' /\ JobsAreChildren'
  BY ReportedStep, ChildBeforeAddStep, JobsAreChildrenStep DEF IInv
<1>3. NoLostChild' /\ StopsOnTheWay' /\ SignalsOnlyForeground'
  BY NoLostChildStep, StopsStep, SignalsStep DEF IInv
<1>4. QED  BY <1>1, <1>2, <1>3 DEF IInv

\* tsh never leaves its inductive invariant.
THEOREM Invariance == Spec => []IInv
<1>1. Init => IInv
  BY InitIInv
<1>2. IInv /\ [Next]_vars => IInv'
  BY NextIInv
<1>3. QED  BY <1>1, <1>2, PTL DEF Spec

\* Every variable of tsh keeps its type, whatever the handlers interrupt.
THEOREM TypeCorrectness == Spec => []TypeOK
<1>1. IInv => TypeOK
  BY DEF IInv
<1>2. QED  BY <1>1, Invariance, PTL

\* At most one job is in the foreground, for any number of jobs and processes.
THEOREM ForegroundIsUnique == Spec => []AtMostOneForeground
<1>1. IInv => AtMostOneForeground
  BY DEF IInv, ForegroundAtWork
<1>2. QED  BY <1>1, Invariance, PTL

\* The job list holds unreaped children only, each once: the mask around fork
\* and addjob leaves no stale job behind.
THEOREM NoStaleJobs == Spec => []JobsAreChildren
<1>1. IInv => JobsAreChildren
  BY DEF IInv
<1>2. QED  BY <1>1, Invariance, PTL

\* Coalesced SIGCHLDs lose no child's end or stop.
THEOREM NoSigchldIsLost == Spec => []NoLostChild
<1>1. IInv => NoLostChild
  BY DEF IInv
<1>2. QED  BY <1>1, Invariance, PTL

\* ctrl-c and ctrl-z never reach a background job.
THEOREM BackgroundIsSpared == Spec => []SignalsOnlyForeground
<1>1. IInv => SignalsOnlyForeground
  BY DEF IInv
<1>2. QED  BY <1>1, Invariance, PTL

\* Once the SIGCHLDs are handled the jobs of stopped processes are marked so.
THEOREM StopsBecomeVisible == Spec => []StopsAreShown
<1>1. ASSUME IInv PROVE StopsAreShown
  <2>1. SUFFICES ASSUME NEW i \in Slots, Alive, jobs[i].pid \in Pids,
                        proc[jobs[i].pid] = "stopped", "CHLD" \notin pending,
                        handler["CHLD"].at = "idle"
                 PROVE  jobs[i].state = "ST" \/ (pc \in {"read", "cont"} /\ cmd.slot = i)
    BY DEF StopsAreShown
  <2>2. jobs[i].pid \in reported
    BY <1>1, <2>1 DEF IInv, NoLostChild, Unwaited
  <2>3. QED  BY <1>1, <2>1, <2>2 DEF IInv, StopsOnTheWay
<1>2. QED  BY <1>1, Invariance, PTL

\* A handler that interrupts do_bgfg leaves its slot with its job, or empty.
THEOREM SlotsKeepTheirJobs == Spec => KeepsItsJob
<1>1. ASSUME IInv, [Next]_vars
      PROVE  [Resuming => jobs'[cmd.slot].pid \in {jobs[cmd.slot].pid, 0}]_vars
  <2>1. SUFFICES ASSUME pc \in {"set", "read"}
                 PROVE  jobs'[cmd.slot].pid \in {jobs[cmd.slot].pid, 0}
    BY DEF Resuming
  <2>2. TypeOK /\ cmd.slot \in Slots
    BY <1>1, <2>1 DEF IInv, SlotHeld
  <2>3. CASE UNCHANGED jobs
    BY <2>3
  <2>4. CASE UpdateJob
    BY <2>2, <2>4, UpdateKeepsPids
  <2>5. CASE SetJobState
    BY <2>2, <2>5 DEF SetJobState, TypeOK, Jobs
  <2>6. ~AddJob
    BY <2>1 DEF AddJob
  <2>7. QED
    BY <1>1, <2>3, <2>4, <2>5, <2>6, MainCases
       DEF shell, RunCommand, Fork, ReportBackground, WaitfgReturns, LookUpJob, ReadJobPid,
           ContinueJob, Exit
<1>2. QED  BY <1>1, Invariance, PTL DEF Spec, KeepsItsJob

-------------------------------------------------------------------------------
(* With a slot for every process no child is missing from the job list. *)

\* The handler deletes the job of a child it has reaped: no fork gives the pid
\* away before, for the main program waits for the handler.
Reaped == handler["CHLD"].at = "update" /\ ~handler["CHLD"].stopped =>
            proc[handler["CHLD"].pid] = "none"

\* addjob finds room for a child that is not listed: the other slots would
\* name more processes than there are.
LEMMA RoomForOne ==
  ASSUME IsFiniteSet(Pids), Cardinality(Pids) <= MAXJOBS, TypeOK, JobsAreChildren,
         NEW p \in Pids \ Listed(jobs)
  PROVE  SlotForAdd(jobs, p) # NULL
<1> DEFINE Free == {i \in Slots : jobs[i].pid = 0}
           Others == Pids \ {p}
           f == [i \in Slots |-> jobs[i].pid]
<1>1. SUFFICES ASSUME Free = {} PROVE FALSE
  <2>1. Free \in SUBSET Slots
    OBVIOUS
  <2>2. First(Free) = NULL => Free = {}
    BY <2>1, FirstFound
  <2>3. SlotForAdd(jobs, p) = First(Free)
    BY PidsAssumption DEF SlotForAdd
  <2>4. QED  BY <1>1, <2>2, <2>3
<1>2. \A i \in Slots : jobs[i].pid \in Listed(jobs)
  BY <1>1 DEF Listed
<1>3. f \in [Slots -> Others]
  <2>1. \A i \in Slots : jobs[i].pid \in Others
    BY <1>2 DEF JobsAreChildren
  <2>2. QED  BY <2>1
<1>4. IsFiniteSet(Slots) /\ Cardinality(Slots) = MAXJOBS
  <2>1. 0 \in Int /\ MAXJOBS - 1 \in Int /\ ~(0 > MAXJOBS - 1)
    BY MaxJobsAssumption
  <2>2. /\ IsFiniteSet(0 .. MAXJOBS - 1)
        /\ Cardinality(0 .. MAXJOBS - 1) = MAXJOBS - 1 - 0 + 1
    BY <2>1, FS_Interval
  <2>3. QED  BY <2>2, MaxJobsAssumption DEF Slots
<1>5. IsFiniteSet(Others) /\ Cardinality(Others) < Cardinality(Slots)
  <2>1. IsFiniteSet(Others) /\ Cardinality(Others) = Cardinality(Pids) - 1
    BY FS_RemoveElement
  <2>2. Cardinality(Pids) \in Nat
    BY FS_CardinalityType
  <2>3. QED  BY <1>4, <2>1, <2>2, MaxJobsAssumption
<1>6. \E i, k \in Slots : i # k /\ f[i] = f[k]
  <2> HIDE DEF f, Others
  <2>1. QED  BY <1>3, <1>4, <1>5, FS_PigeonHole
<1>7. \A i \in Slots : f[i] = jobs[i].pid /\ jobs[i].pid # 0
  BY <1>1
<1>8. QED  BY <1>6, <1>7 DEF JobsAreChildren

\* A step keeps the pid of a reaped child free until its job is deleted.
LEMMA ReapedStep ==
  ASSUME TypeOK, ChildHeld, Reaped, [Next]_vars
  PROVE  Reaped'
<1> USE DEF Reaped
<1>1. ASSUME NEW p \in Pids, SetPgid(p) \/ Exec(p) \/ Die(p) \/ StopSelf(p) PROVE Reaped'
  <2>1. handler' = handler /\ \A q \in Pids : proc[q] = "none" => proc'[q] = "none"
    BY <1>1 DEF SetPgid, Exec, Die, StopSelf, TypeOK
  <2>2. QED  BY <2>1 DEF ChildHeld
<1>2. CASE Fork
  BY <1>2 DEF Fork, MainRuns, Signals, Idle
<1>3. CASE ContinueJob
  BY <1>3 DEF ContinueJob, MainRuns, Signals, Idle
<1>4. ASSUME NEW s \in Signals, Deliver(s) PROVE Reaped'
  BY <1>4 DEF Deliver, Idle, kernel, TypeOK
<1>5. ASSUME NEW s \in {"INT", "TSTP"}, Forward(s) PROVE Reaped'
  <2>1. \A p \in Pids : proc'[p] = "none" <=> proc[p] = "none"
    BY <1>5, KillGroupEffect DEF Forward
  <2>2. handler'["CHLD"] = handler["CHLD"]
    BY <1>5 DEF Forward, TypeOK
  <2>3. QED  BY <2>1, <2>2 DEF ChildHeld
<1>6. CASE WaitPid
  BY <1>6, WaitPidCases DEF TypeOK, Signals, Idle
<1>7. CASE UpdateJob
  BY <1>7, UpdateJobCases DEF TypeOK, Signals, Idle
<1>8. QED
  BY <1>1, <1>2, <1>3, <1>4, <1>5, <1>6, <1>7, StepCases
     DEF RunCommand, AddJob, ReportBackground, WaitfgReturns, LookUpJob, SetJobState,
         ReadJobPid, Exit, Keyboard, vars, shell, kernel

\* Only addjob lists a child and only the update after its end removes it.
LEMMA ListedStep ==
  ASSUME IsFiniteSet(Pids), IInv, Reaped, ChildrenAreListed, [Next]_vars
  PROVE  ChildrenAreListed'
<1> USE DEF Alive
<1>0. TypeOK /\ ChildHeld /\ JobsAreChildren /\ ChildBeforeAdd
  BY DEF IInv
<1>1. SUFFICES ASSUME Alive', Cardinality(Pids) <= MAXJOBS, NEW p \in Pids, proc'[p] # "none"
               PROVE  p \in Listed(jobs') \/ (pc' = "add" /\ cmd'.pid = p)
  BY DEF ChildrenAreListed
<1>2. Alive
  BY <1>1 DEF Next, MainStep, Command, Startup, Ended, HandlerStep, vars, shell, Runs, MainRuns,
     Fork, AddJob, ReportBackground, WaitfgReturns, SetJobState, ReadJobPid, ContinueJob,
     RunCommand, LookUpJob, Exit, WaitPid, UpdateJob, NextChild, Forward, Keyboard, Deliver,
     SetPgid, Exec, Die, StopSelf
<1>3. proc[p] # "none" => p \in Listed(jobs) \/ (pc = "add" /\ cmd.pid = p)
  BY <1>1, <1>2 DEF ChildrenAreListed
<1>4. CASE Fork
  <2>1. pc = "fork" /\ pc' = "add" /\ jobs' = jobs
    BY <1>4 DEF Fork
  <2>2. CASE proc[p] # "none"
    BY <1>3, <2>1, <2>2
  <2>3. CASE proc[p] = "none"
    BY <1>0, <1>1, <1>4, <2>1, <2>3 DEF Fork, TypeOK, Commands
  <2>4. QED  BY <2>2, <2>3
<1>5. CASE AddJob
  <2>1. proc' = proc /\ pc = "add"
    BY <1>5 DEF AddJob, kernel
  <2>2. CASE p \in Listed(jobs)
    <3>1. \A i \in Slots : jobs[i].pid # 0 => jobs'[i].pid = jobs[i].pid
      BY <1>0, <1>5, AddJobCases DEF Filled
    <3>2. QED  BY <2>2, <3>1 DEF Listed
  <2>3. CASE p \notin Listed(jobs)
    <3>1. cmd.pid = p /\ SlotForAdd(jobs, p) # NULL
      BY <1>0, <1>1, <1>3, <2>1, <2>3, RoomForOne
    <3>2. SlotForAdd(jobs, p) \in Slots
      <4>1. {i \in Slots : jobs[i].pid = 0} \in SUBSET Slots
        OBVIOUS
      <4>2. SlotForAdd(jobs, p) = First({i \in Slots : jobs[i].pid = 0})
        BY <3>1 DEF SlotForAdd
      <4>3. First({i \in Slots : jobs[i].pid = 0}) # NULL =>
              First({i \in Slots : jobs[i].pid = 0}) \in {i \in Slots : jobs[i].pid = 0}
        BY <4>1, FirstFound
      <4>4. QED  BY <3>1, <4>2, <4>3
    <3>3. jobs'[SlotForAdd(jobs, p)].pid = p
      BY <1>0, <1>5, <3>1, <3>2 DEF AddJob, addjob, TypeOK, Jobs
    <3>4. QED  BY <3>2, <3>3, PidsAssumption DEF Listed
  <2>4. QED  BY <2>2, <2>3
<1>6. CASE SetJobState
  <2>1. \A i \in Slots : jobs'[i].pid = jobs[i].pid
    BY <1>0, <1>6 DEF SetJobState, TypeOK, Jobs
  <2>2. proc' = proc /\ pc = "set"
    BY <1>6 DEF SetJobState, kernel
  <2>3. QED  BY <1>1, <1>3, <2>1, <2>2 DEF Listed
<1>7. CASE UpdateJob
  <2>1. proc' = proc /\ cmd' = cmd /\ handler["CHLD"].at = "update" /\ pc' \in {pc, "crashed"}
    BY <1>0, <1>7, UpdateJobCases DEF kernel
  <2>2. CASE p \notin Listed(jobs)
    BY <1>1, <1>3, <2>1, <2>2
  <2>3. SUFFICES ASSUME NEW k \in Slots, jobs[k].pid = p, p # 0
                 PROVE  p \in Listed(jobs')
    BY <2>2 DEF Listed
  <2>4. CASE ~handler["CHLD"].stopped
    <3>1. p # handler["CHLD"].pid
      BY <1>1, <2>1, <2>4 DEF Reaped
    <3>2. jobs'[k].pid = p
      BY <1>0, <1>7, <2>3, <2>4, <3>1, UpdateJobCases DEF Cleared, TypeOK, Jobs, clearjob
    <3>3. QED  BY <2>3, <3>2 DEF Listed
  <2>5. CASE handler["CHLD"].stopped
    <3>1. jobs'[k].pid = p
      BY <1>0, <1>7, <2>3, <2>5, UpdateJobCases DEF TypeOK, Jobs
    <3>2. QED  BY <2>3, <3>1 DEF Listed
  <2>6. QED  BY <2>4, <2>5
<1>8. CASE UNCHANGED shell
  <2>1. proc'[p] # "none" => proc[p] # "none"
    <3>1. ASSUME NEW q \in Pids, SetPgid(q) \/ Exec(q) \/ Die(q) \/ StopSelf(q)
          PROVE  proc[p] = "none" => proc'[p] = "none"
      BY <1>0, <3>1 DEF SetPgid, Exec, Die, StopSelf, TypeOK
    <3>2. ASSUME NEW s \in {"INT", "TSTP"}, Forward(s) PROVE proc[p] = "none" => proc'[p] = "none"
      BY <1>0, <3>2, KillGroupEffect DEF Forward
    <3>3. CASE WaitPid
      BY <1>0, <3>3, WaitPidCases DEF TypeOK
    <3>4. CASE ContinueJob
      BY <1>0, <3>4, KillGroupEffect DEF ContinueJob
    <3>5. CASE Fork
      BY <3>5, <1>8 DEF Fork, shell
    <3>6. QED
      BY <3>1, <3>2, <3>3, <3>4, <3>5, StepCases
         DEF RunCommand, AddJob, ReportBackground, WaitfgReturns, LookUpJob, SetJobState,
             ReadJobPid, Exit, Keyboard, Deliver, UpdateJob, NextChild, vars, kernel
  <2>2. QED  BY <1>1, <1>3, <1>8, <2>1 DEF shell
<1>9. CASE ContinueJob
  <2>1. (proc'[p] = "none" <=> proc[p] = "none") /\ jobs' = jobs /\ pc = "cont"
    BY <1>0, <1>9, KillGroupEffect DEF ContinueJob
  <2>2. QED  BY <1>1, <1>3, <2>1
<1>10. QED
  BY <1>1, <1>3, <1>4, <1>5, <1>6, <1>7, <1>8, <1>9, MainCases
     DEF RunCommand, ReportBackground, WaitfgReturns, LookUpJob, ReadJobPid, Exit, kernel

\* When there is a slot for every process, each child the shell has not reaped
\* is in its job list, for fg, bg and jobs to find.
THEOREM NoChildIsMissing ==
  ASSUME IsFiniteSet(Pids)
  PROVE  Spec => []ChildrenAreListed
<1>1. Init => Reaped /\ ChildrenAreListed
  BY DEF Init, Reaped, ChildrenAreListed, Signals, Idle
<1>2. IInv /\ Reaped /\ ChildrenAreListed /\ [Next]_vars => (Reaped /\ ChildrenAreListed)'
  <2>1. SUFFICES ASSUME IInv, Reaped, ChildrenAreListed, [Next]_vars
                 PROVE  Reaped' /\ ChildrenAreListed'
    OBVIOUS
  <2>2. Reaped'
    BY <2>1, ReapedStep DEF IInv
  <2>3. ChildrenAreListed'
    BY <2>1, ListedStep
  <2>4. QED  BY <2>2, <2>3
<1>3. QED  BY <1>1, <1>2, Invariance, PTL DEF Spec

-------------------------------------------------------------------------------
(* tsh implements JobControl, for every number of slots, processes and         *)
(* commands: the job list, read as a status per process, changes only as the   *)
(* job states of the comment at the head of tsh.c allow.  A full table and a   *)
(* failed fork are steps that change no status.                                *)

\* StatusOf for any table.
StatusIn(tbl, p) == LET i == getjobpid(tbl, p) IN IF i = NULL THEN "none" ELSE tbl[i].state

Distinct(tbl) ==
  \A i, k \in Slots : tbl[i].pid = tbl[k].pid /\ tbl[i].pid # 0 => i = k

\* A used slot has a state (job_t's UNDEF is left to the free ones).
StatesAreSet == \A i \in Slots : jobs[i].pid # 0 => jobs[i].state # "UNDEF"

-------------------------------------------------------------------------------
(* The status of a process in a table. *)

\* It is the state of the slot that holds the process, "none" without one.
LEMMA StatusAt ==
  ASSUME NEW tbl \in Jobs, Distinct(tbl), NEW p \in Pids
  PROVE  /\ \A i \in Slots : tbl[i].pid = p => StatusIn(tbl, p) = tbl[i].state
         /\ (\A i \in Slots : tbl[i].pid # p) => StatusIn(tbl, p) = "none"
<1>1. p \in Int /\ p # 0
  BY PidsAssumption
<1>2. NULL \notin Slots
  BY MaxJobsAssumption DEF NULL, Slots
<1>3. ASSUME NEW i \in Slots, tbl[i].pid = p PROVE StatusIn(tbl, p) = tbl[i].state
  <2>1. p \in Listed(tbl)
    BY <1>1, <1>3 DEF Listed
  <2>2. getjobpid(tbl, p) # NULL
    BY <1>1, <2>1, LookUps
  <2>3. getjobpid(tbl, p) \in Slots /\ tbl[getjobpid(tbl, p)].pid = p
    BY <1>1, <2>2, LookUps
  <2>4. getjobpid(tbl, p) = i
    BY <1>1, <1>3, <2>3 DEF Distinct
  <2>5. QED  BY <2>2, <2>4 DEF StatusIn
<1>4. ASSUME \A i \in Slots : tbl[i].pid # p PROVE StatusIn(tbl, p) = "none"
  <2>1. getjobpid(tbl, p) = NULL
    BY <1>1, <1>4, LookUps
  <2>2. QED  BY <2>1 DEF StatusIn
<1>5. QED  BY <1>3, <1>4

\* A change of one slot changes no status but of the processes it held or holds.
LEMMA OneSlotChanges ==
  ASSUME NEW tbl \in Jobs, NEW new \in Jobs, Distinct(tbl), Distinct(new),
         NEW k \in Slots, \A i \in Slots \ {k} : new[i] = tbl[i],
         NEW p \in Pids, p # tbl[k].pid, p # new[k].pid
  PROVE  StatusIn(new, p) = StatusIn(tbl, p)
<1>1. CASE \E i \in Slots : tbl[i].pid = p
  <2>1. PICK i \in Slots : tbl[i].pid = p
    BY <1>1
  <2>2. new[i] = tbl[i]
    BY <2>1
  <2>3. StatusIn(tbl, p) = tbl[i].state /\ StatusIn(new, p) = new[i].state
    BY <2>1, <2>2, StatusAt
  <2>4. QED  BY <2>2, <2>3
<1>2. CASE \A i \in Slots : tbl[i].pid # p
  <2>1. \A i \in Slots : new[i].pid # p
    BY <1>2
  <2>2. QED  BY <1>2, <2>1, StatusAt
<1>3. QED  BY <1>1, <1>2

\* What a change of one slot is to the statuses: a function with one change.
Statuses(tbl) == [p \in Pids |-> StatusIn(tbl, p)]

LEMMA StatusesChange ==
  ASSUME NEW tbl \in Jobs, NEW new \in Jobs, Distinct(tbl), Distinct(new),
         NEW k \in Slots, \A i \in Slots \ {k} : new[i] = tbl[i],
         NEW p \in Pids, p \in {tbl[k].pid, new[k].pid},
         tbl[k].pid \in {p, 0}, new[k].pid \in {p, 0}
  PROVE  /\ Statuses(new) = [Statuses(tbl) EXCEPT ![p] = StatusIn(new, p)]
         /\ new[k].pid = p => StatusIn(new, p) = new[k].state
         /\ new[k].pid = 0 => StatusIn(new, p) = "none"
<1>0. p # 0 /\ 0 \notin Pids
  BY PidsAssumption
<1>1. \A q \in Pids \ {p} : StatusIn(new, q) = StatusIn(tbl, q)
  BY <1>0, OneSlotChanges
<1>2. Statuses(new) = [Statuses(tbl) EXCEPT ![p] = StatusIn(new, p)]
  BY <1>1 DEF Statuses
<1>3. new[k].pid = p => StatusIn(new, p) = new[k].state
  BY StatusAt
<1>4. ASSUME new[k].pid = 0 PROVE StatusIn(new, p) = "none"
  <2>1. tbl[k].pid = p
    BY <1>0, <1>4
  <2>2. \A i \in Slots \ {k} : tbl[i].pid # p
    BY <1>0, <2>1 DEF Distinct
  <2>3. \A i \in Slots : new[i].pid # p
    BY <1>0, <1>4, <2>2
  <2>4. QED  BY <2>3, StatusAt
<1>5. QED  BY <1>2, <1>3, <1>4

\* Without a process of Pids in the changed slot nothing changes.
LEMMA StatusesStay ==
  ASSUME NEW tbl \in Jobs, NEW new \in Jobs, Distinct(tbl), Distinct(new),
         NEW k \in Slots, \A i \in Slots \ {k} : new[i] = tbl[i],
         tbl[k].pid = 0, new[k].pid = 0
  PROVE  Statuses(new) = Statuses(tbl)
<1>1. \A q \in Pids : StatusIn(new, q) = StatusIn(tbl, q)
  BY PidsAssumption, OneSlotChanges
<1>2. QED  BY <1>1 DEF Statuses

-------------------------------------------------------------------------------
(* The steps of tsh as steps of JobControl. *)

\* A used slot is given a state with its pid, and never UNDEF after that.
LEMMA StatesStep ==
  ASSUME TypeOK, StatesAreSet, SlotHeld, [Next]_vars
  PROVE  StatesAreSet'
<1> USE DEF StatesAreSet
<1>1. CASE UNCHANGED jobs
  BY <1>1
<1>2. CASE AddJob
  <2>1. Filled(jobs, jobs', cmd.pid, IF cmd.bg THEN "BG" ELSE "FG")
    BY <1>2, AddJobCases
  <2>2. \A i \in Slots : jobs'[i] = jobs[i] \/ jobs'[i].state \in {"BG", "FG"}
    BY <2>1 DEF Filled
  <2>3. QED  BY <2>2
<1>3. CASE SetJobState
  <2>1. jobs' = [jobs EXCEPT ![cmd.slot].state = IF cmd.bg THEN "BG" ELSE "FG"]
    BY <1>3 DEF SetJobState
  <2>2. \A i \in Slots : jobs'[i] = jobs[i] \/ jobs'[i].state \in {"BG", "FG"}
    BY <2>1 DEF TypeOK, Jobs
  <2>3. QED  BY <2>2
<1>4. CASE UpdateJob
  <2>1. ASSUME NEW k \in Slots, jobs' = [jobs EXCEPT ![k].state = "ST"] PROVE StatesAreSet'
    BY <2>1 DEF TypeOK, Jobs
  <2>2. ASSUME NEW k \in Slots, jobs' = [jobs EXCEPT ![k] = clearjob] PROVE StatesAreSet'
    BY <2>2 DEF TypeOK, Jobs, clearjob
  <2>3. QED  BY <1>1, <1>4, <2>1, <2>2, UpdateJobCases DEF Cleared
<1>5. QED
  BY <1>1, <1>2, <1>3, <1>4, MainCases
     DEF shell, RunCommand, Fork, ReportBackground, WaitfgReturns, LookUpJob, ReadJobPid,
         ContinueJob, Exit

\* The steps of JobControl on the statuses of the table.
JobStep(old, new) ==
  \/ new = old
  \/ \E p \in Pids, s \in {"FG", "BG"} :
       old[p] = "none" /\ (s = "FG" => \A q \in Pids : old[q] # "FG") /\ new = [old EXCEPT ![p] = s]
  \/ \E p \in Pids : old[p] \in {"FG", "BG"} /\ new = [old EXCEPT ![p] = "ST"]
  \/ \E p \in Pids : /\ old[p] \in {"ST", "BG"} /\ (\A q \in Pids : old[q] # "FG")
                     /\ new = [old EXCEPT ![p] = "FG"]
  \/ \E p \in Pids : old[p] = "ST" /\ new = [old EXCEPT ![p] = "BG"]
  \/ \E p \in Pids : old[p] # "none" /\ new = [old EXCEPT ![p] = "none"]

\* Nobody is in the foreground when no slot is.
LEMMA NobodyInForeground ==
  ASSUME NEW tbl \in Jobs, Distinct(tbl), \A i \in Slots : tbl[i].state # "FG"
  PROVE  \A p \in Pids : Statuses(tbl)[p] # "FG"
<1>1. SUFFICES ASSUME NEW p \in Pids PROVE StatusIn(tbl, p) # "FG"
  BY DEF Statuses
<1>2. CASE \E i \in Slots : tbl[i].pid = p
  BY <1>2, StatusAt
<1>3. CASE \A i \in Slots : tbl[i].pid # p
  <2>1. StatusIn(tbl, p) = "none"
    BY <1>3, StatusAt
  <2>2. QED  BY <2>1
<1>4. QED  BY <1>2, <1>3

\* addjob: a launch, or nothing.
LEMMA AddJobIsLaunch ==
  ASSUME IInv, AddJob, Distinct(jobs), Distinct(jobs'), jobs' \in Jobs
  PROVE  JobStep(Statuses(jobs), Statuses(jobs'))
<1> DEFINE st == IF cmd.bg THEN "BG" ELSE "FG"
<1>0. jobs \in Jobs /\ st \in {"FG", "BG"} /\ 0 \notin Pids
  BY PidsAssumption DEF IInv, TypeOK
<1>1. pc = "add" /\ Filled(jobs, jobs', cmd.pid, st)
  BY AddJobCases DEF IInv, AddJob
<1>2. \A i \in Slots : jobs[i].state # "FG"
  BY <1>1 DEF IInv, ForegroundAtWork
<1>3. \A q \in Pids : Statuses(jobs)[q] # "FG"
  BY <1>0, <1>2, NobodyInForeground
<1>4. CASE jobs' = jobs
  BY <1>4 DEF JobStep
<1>5. ASSUME NEW i \in Slots, jobs[i].pid = 0, cmd.pid > 0, jobs'[i].pid = cmd.pid,
             jobs'[i].state = st, \A k \in Slots \ {i} : jobs'[k] = jobs[k]
      PROVE  JobStep(Statuses(jobs), Statuses(jobs'))
  <2>1. cmd.pid \in Pids /\ cmd.pid \notin Listed(jobs)
    BY <1>1, <1>5 DEF IInv, ChildBeforeAdd
  <2>2. \A k \in Slots : jobs[k].pid # cmd.pid
    BY <1>0, <2>1 DEF Listed
  <2>3. Statuses(jobs)[cmd.pid] = "none"
    BY <1>0, <2>1, <2>2, StatusAt DEF Statuses
  <2>4. Statuses(jobs') = [Statuses(jobs) EXCEPT ![cmd.pid] = st]
    BY <1>0, <1>5, <2>1, StatusesChange
  <2> HIDE DEF st
  <2>5. QED  BY <1>0, <1>3, <2>1, <2>3, <2>4 DEF JobStep
<1> HIDE DEF st
<1>6. QED  BY <1>1, <1>4, <1>5 DEF Filled

\* fg and bg: a job that is stopped or in the background gets its new state;
\* one that was deleted meanwhile leaves the statuses alone.
LEMMA SetJobStateIsMove ==
  ASSUME IInv, StatesAreSet, SetJobState, Distinct(jobs), Distinct(jobs'), jobs' \in Jobs
  PROVE  JobStep(Statuses(jobs), Statuses(jobs'))
<1> DEFINE st == IF cmd.bg THEN "BG" ELSE "FG"
           k  == cmd.slot
<1>0. jobs \in Jobs /\ k \in Slots /\ st \in {"FG", "BG"} /\ 0 \notin Pids
  BY PidsAssumption DEF IInv, TypeOK, SlotHeld, SetJobState
<1>1. pc = "set" /\ jobs' = [jobs EXCEPT ![k].state = st]
  BY DEF SetJobState
<1> HIDE DEF st, k
<1>2. /\ jobs'[k].pid = jobs[k].pid /\ jobs'[k].state = st
      /\ \A i \in Slots \ {k} : jobs'[i] = jobs[i]
  BY <1>0, <1>1 DEF Jobs
<1>3. CASE jobs[k].pid = 0
  <2>1. Statuses(jobs') = Statuses(jobs)
    BY <1>0, <1>2, <1>3, StatusesStay
  <2>2. QED  BY <2>1 DEF JobStep
<1>4. CASE jobs[k].pid # 0
  <2>1. jobs[k].pid \in Pids
    BY <1>0, <1>4 DEF IInv, JobsAreChildren, Listed
  <2>2. \A i \in Slots : jobs[i].state # "FG"
    BY <1>1 DEF IInv, ForegroundAtWork
  <2>3. jobs[k].state \in {"ST", "BG"}
    BY <1>0, <1>4, <2>2 DEF StatesAreSet, Jobs, States
  <2>4. \A q \in Pids : Statuses(jobs)[q] # "FG"
    BY <1>0, <2>2, NobodyInForeground
  <2>5. Statuses(jobs)[jobs[k].pid] = jobs[k].state
    BY <1>0, <2>1, StatusAt DEF Statuses
  <2>6. Statuses(jobs') = [Statuses(jobs) EXCEPT ![jobs[k].pid] = st]
    BY <1>0, <1>2, <2>1, StatusesChange
  <2>7. CASE st = "FG"
    BY <2>1, <2>3, <2>4, <2>5, <2>6, <2>7 DEF JobStep
  <2>8. CASE st = "BG" /\ jobs[k].state = "ST"
    BY <2>1, <2>5, <2>6, <2>8 DEF JobStep
  <2>9. CASE st = "BG" /\ jobs[k].state = "BG"
    <3>1. Statuses(jobs') = Statuses(jobs)
      BY <2>1, <2>5, <2>6, <2>9 DEF Statuses
    <3>2. QED  BY <3>1 DEF JobStep
  <2>10. QED  BY <1>0, <2>3, <2>7, <2>8, <2>9
<1>5. QED  BY <1>3, <1>4

\* sigchld_handler: a job stops, or ends.
LEMMA UpdateJobIsStopOrEnd ==
  ASSUME IInv, StatesAreSet, UpdateJob, Distinct(jobs), Distinct(jobs'), jobs' \in Jobs
  PROVE  JobStep(Statuses(jobs), Statuses(jobs'))
<1>0. jobs \in Jobs /\ 0 \notin Pids /\ TypeOK
  BY PidsAssumption DEF IInv, TypeOK
<1>1. ASSUME NEW k \in Slots, jobs[k].pid # 0, jobs' = [jobs EXCEPT ![k].state = "ST"]
      PROVE  JobStep(Statuses(jobs), Statuses(jobs'))
  <2>1. /\ jobs'[k].pid = jobs[k].pid /\ jobs'[k].state = "ST"
        /\ \A i \in Slots \ {k} : jobs'[i] = jobs[i]
    BY <1>0, <1>1 DEF Jobs
  <2>2. jobs[k].pid \in Pids
    BY <1>0, <1>1 DEF IInv, JobsAreChildren, Listed
  <2>3. Statuses(jobs)[jobs[k].pid] = jobs[k].state
    BY <1>0, <2>2, StatusAt DEF Statuses
  <2>4. Statuses(jobs') = [Statuses(jobs) EXCEPT ![jobs[k].pid] = "ST"]
    BY <1>0, <2>1, <2>2, StatusesChange
  <2>5. jobs[k].state \in {"FG", "BG", "ST"}
    BY <1>0, <1>1 DEF StatesAreSet, Jobs, States
  <2>6. CASE jobs[k].state = "ST"
    <3>1. Statuses(jobs') = Statuses(jobs)
      BY <2>2, <2>3, <2>4, <2>6 DEF Statuses
    <3>2. QED  BY <3>1 DEF JobStep
  <2>7. CASE jobs[k].state \in {"FG", "BG"}
    BY <2>2, <2>3, <2>4, <2>7 DEF JobStep
  <2>8. QED  BY <2>5, <2>6, <2>7
<1>2. ASSUME NEW k \in Slots, jobs[k].pid # 0, jobs' = [jobs EXCEPT ![k] = clearjob]
      PROVE  JobStep(Statuses(jobs), Statuses(jobs'))
  <2>1. jobs'[k].pid = 0 /\ \A i \in Slots \ {k} : jobs'[i] = jobs[i]
    BY <1>0, <1>2 DEF Jobs, clearjob
  <2>2. jobs[k].pid \in Pids
    BY <1>0, <1>2 DEF IInv, JobsAreChildren, Listed
  <2>3. Statuses(jobs)[jobs[k].pid] = jobs[k].state /\ jobs[k].state # "none"
    BY <1>0, <2>2, StatusAt DEF Statuses, Jobs, States
  <2>4. Statuses(jobs') = [Statuses(jobs) EXCEPT ![jobs[k].pid] = "none"]
    BY <1>0, <2>1, <2>2, StatusesChange
  <2>5. QED  BY <2>2, <2>3, <2>4 DEF JobStep
<1>3. CASE jobs' = jobs
  BY <1>3 DEF JobStep
<1>4. QED
  BY <1>0, <1>1, <1>2, <1>3, UpdateJobCases DEF Cleared

\* Every step of tsh is a step of JobControl, or changes no status.
LEMMA StepIsJobStep ==
  ASSUME IInv, StatesAreSet, [Next]_vars
  PROVE  JobStep(Statuses(jobs), Statuses(jobs'))
<1>1. IInv'
  BY NextIInv
<1>2. Distinct(jobs) /\ Distinct(jobs') /\ jobs' \in Jobs
  BY <1>1 DEF IInv, JobsAreChildren, Distinct, TypeOK
<1>3. CASE jobs' = jobs
  BY <1>3 DEF JobStep
<1>4. CASE AddJob
  BY <1>2, <1>4, AddJobIsLaunch
<1>5. CASE SetJobState
  BY <1>2, <1>5, SetJobStateIsMove
<1>6. CASE UpdateJob
  BY <1>2, <1>6, UpdateJobIsStopOrEnd
<1>7. QED
  BY <1>3, <1>4, <1>5, <1>6, MainCases
     DEF shell, RunCommand, Fork, ReportBackground, WaitfgReturns, LookUpJob, ReadJobPid,
         ContinueJob, Exit

-------------------------------------------------------------------------------
(* The theorem. *)

\* The job list follows the job states of JobControl: launch only without
\* another foreground job, fg and bg only from a stopped or background job,
\* whatever the handlers do in between.
THEOREM JobStatesAreImplemented == Spec => ImplementsJobControl
<1>0. [p \in Pids |-> StatusOf(p)] = Statuses(jobs)
  BY DEF StatusOf, Statuses, StatusIn
<1>1. ASSUME Init PROVE JC!Init /\ StatesAreSet
  <2>1. \A i \in Slots : jobs[i].pid = 0
    BY <1>1 DEF Init, initjobs, clearjob
  <2>2. jobs \in Jobs /\ Distinct(jobs)
    BY <1>1, <2>1, InitIInv DEF IInv, TypeOK, Distinct
  <2>3. \A p \in Pids : StatusIn(jobs, p) = "none"
    BY <2>1, <2>2, StatusAt, PidsAssumption
  <2>4. QED  BY <1>0, <2>1, <2>3 DEF JC!Init, Statuses, StatesAreSet
<1>2. ASSUME IInv, StatesAreSet, [Next]_vars PROVE StatesAreSet'
  BY <1>2, StatesStep DEF IInv
<1>3. ASSUME IInv, StatesAreSet, [Next]_vars
      PROVE  [JC!Next]_([p \in Pids |-> StatusOf(p)])
  <2>1. [p \in Pids |-> StatusOf(p)]' = Statuses(jobs')
    BY DEF StatusOf, Statuses, StatusIn
  <2>2. JobStep(Statuses(jobs), Statuses(jobs'))
    BY <1>3, StepIsJobStep
  <2>3. QED
    BY <1>0, <2>1, <2>2
       DEF JobStep, JC!Next, JC!Launch, JC!Stop, JC!ToForeground, JC!ToBackground,
           JC!Terminate, JC!NoForeground
<1>4. QED
  BY <1>1, <1>2, <1>3, Invariance, PTL DEF Spec, ImplementsJobControl, JC!Spec
================================================================================
