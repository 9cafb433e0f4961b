------------------------------- MODULE JobList -------------------------------
(***************************************************************************)
(* The job list of tsh: a table of MAXJOBS slots that every helper scans   *)
(* from slot 0 upwards.  A slot whose pid is 0 is free.  The command line  *)
(* kept in a slot is only printed, so it is left out.                      *)
(*                                                                         *)
(* Each operator is the C helper of the same name; a helper that both      *)
(* changes the table and returns a value is one operator per result.       *)
(***************************************************************************)
EXTENDS Integers

CONSTANT MAXJOBS        \* slots of the table (16 in the code)

ASSUME MaxJobsAssumption == MAXJOBS \in Nat \ {0}

Slots  == 0 .. MAXJOBS - 1
NULL   == -1            \* "no slot": the null pointer the lookups return
States == {"UNDEF", "FG", "BG", "ST"}
Jobs   == [Slots -> [pid : Nat, jid : Nat, state : States]]

\* The slot at which a scan from slot 0 stops, NULL when it finds none.
First(S) == IF S = {} THEN NULL
            ELSE CHOOSE i \in S : \A k \in S : i <= k

clearjob == [pid |-> 0, jid |-> 0, state |-> "UNDEF"]
initjobs == [i \in Slots |-> clearjob]

\* The largest jid of the table, at least 0.
maxjid(tbl) == CHOOSE m \in {0} \union {tbl[i].jid : i \in Slots} :
                  \A i \in Slots : tbl[i].jid <= m

\* Faulty variants (they end in _Bug...) show which property notices them.
fgpid_BugActive(tbl) == LET i == First({k \in Slots : tbl[k].state \in {"FG", "BG"}})
                        IN  IF i = NULL THEN 0 ELSE tbl[i].pid
fgpid_BugStopped(tbl) == LET i == First({k \in Slots : tbl[k].state \in {"FG", "ST"}})
                         IN  IF i = NULL THEN 0 ELSE tbl[i].pid

fgpid(tbl) == LET i == First({k \in Slots : tbl[k].state = "FG"})
              IN  IF i = NULL THEN 0 ELSE tbl[i].pid

getjobpid(tbl, pid) == IF pid < 1 THEN NULL
                       ELSE First({i \in Slots : tbl[i].pid = pid})

getjobjid(tbl, jid) == IF jid < 1 THEN NULL
                       ELSE First({i \in Slots : tbl[i].jid = jid})

pid2jid(tbl, pid) == LET i == getjobpid(tbl, pid)
                     IN  IF i = NULL THEN 0 ELSE tbl[i].jid

SlotForAdd_BugLastSlot(tbl, pid) ==
  IF pid < 1 THEN NULL ELSE First({i \in 0 .. MAXJOBS - 2 : tbl[i].pid = 0})

\* addjob takes the first free slot; it does nothing when pid < 1 (a failed
\* fork) or when the table is full.
SlotForAdd(tbl, pid) == IF pid < 1 THEN NULL
                        ELSE First({i \in Slots : tbl[i].pid = 0})

addjob(tbl, next, pid, state) ==
  LET i == SlotForAdd(tbl, pid)
  IN  IF i = NULL THEN tbl
      ELSE [tbl EXCEPT ![i] = [pid |-> pid, jid |-> next, state |-> state]]

JidAfterAdd(tbl, next, pid) ==
  IF SlotForAdd(tbl, pid) = NULL THEN next
  ELSE IF next + 1 > MAXJOBS THEN 1 ELSE next + 1

deletejob_BugCompacts(tbl, pid) ==
  LET i == getjobpid(tbl, pid)
  IN  IF i = NULL THEN tbl
      ELSE [k \in Slots |-> IF k < i THEN tbl[k]
                            ELSE IF k = MAXJOBS - 1 THEN clearjob ELSE tbl[k + 1]]

deletejob(tbl, pid) == LET i == getjobpid(tbl, pid)
                       IN  IF i = NULL THEN tbl ELSE [tbl EXCEPT ![i] = clearjob]

JidAfterDelete_BugMaxItself(tbl, next, pid) ==
  IF getjobpid(tbl, pid) = NULL THEN next ELSE maxjid(deletejob(tbl, pid))

JidAfterDelete(tbl, next, pid) ==
  IF getjobpid(tbl, pid) = NULL THEN next
  ELSE maxjid(deletejob(tbl, pid)) + 1

\* sigchld_handler marks the job of a stopped child.
MarkStopped_BugOnlyForeground(tbl, i) ==
  IF tbl[i].state = "FG" THEN [tbl EXCEPT ![i].state = "ST"] ELSE tbl
MarkStopped_BugBackground(tbl, i) == [tbl EXCEPT ![i].state = "BG"]
MarkStopped(tbl, i) == [tbl EXCEPT ![i].state = "ST"]

\* The processes the table lists (what listjobs prints).
Listed(tbl) == {tbl[i].pid : i \in Slots} \ {0}
==============================================================================
