------------------------------- MODULE JobTable -------------------------------
(***************************************************************************)
(* The job list on its own, with jobs added and deleted in any order: what *)
(* job ids a long sequence of legal calls leads to.                        *)
(***************************************************************************)
EXTENDS JobList

CONSTANTS Pids,
          JidBound      \* bound: no job is added once nextjid exceeds it

VARIABLES jobs, nextjid
vars == <<jobs, nextjid>>

Init == jobs = initjobs /\ nextjid = 1

Add(p) == /\ p \notin Listed(jobs) /\ nextjid <= JidBound
          /\ jobs' = addjob(jobs, nextjid, p, "BG")
          /\ nextjid' = JidAfterAdd(jobs, nextjid, p)

Delete(p) == /\ p \in Listed(jobs)
             /\ jobs' = deletejob(jobs, p)
             /\ nextjid' = JidAfterDelete(jobs, nextjid, p)

Next == \E p \in Pids : Add(p) \/ Delete(p)

Spec == Init /\ [][Next]_vars

-------------------------------------------------------------------------------
\* tsh.c:480: getjobjid finds "a job (by JID)": the jid pid2jid gives for a
\* listed process leads back to that process.
JidsFindTheirJobs ==
  \A p \in Listed(jobs) : getjobjid(jobs, pid2jid(jobs, p)) = getjobpid(jobs, p)
===============================================================================
