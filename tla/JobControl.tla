------------------------------ MODULE JobControl ------------------------------
(***************************************************************************)
(* What the shell promises of its jobs, as the comment at the head of      *)
(* tsh.c puts it: the three states of a job, the events that change them   *)
(* (tsh.c:28-36), and at most one job in the foreground.  A background job *)
(* may also stop: sigchld_handler covers any child stopped by SIGSTOP or   *)
(* SIGTSTP.                                                                *)
(***************************************************************************)
CONSTANT Pids
VARIABLE status         \* "none" while the process is no job of the shell

JobStates == {"FG", "BG", "ST"}

TypeOK == status \in [Pids -> JobStates \union {"none"}]

Init == status = [p \in Pids |-> "none"]

NoForeground == \A p \in Pids : status[p] # "FG"

Launch(p, s) == /\ status[p] = "none"
                /\ s = "FG" => NoForeground
                /\ status' = [status EXCEPT ![p] = s]

Stop(p) == /\ status[p] \in {"FG", "BG"}
           /\ status' = [status EXCEPT ![p] = "ST"]

ToForeground(p) == /\ status[p] \in {"ST", "BG"}
                   /\ NoForeground
                   /\ status' = [status EXCEPT ![p] = "FG"]

ToBackground(p) == /\ status[p] = "ST"
                   /\ status' = [status EXCEPT ![p] = "BG"]

Terminate(p) == /\ status[p] # "none"
                /\ status' = [status EXCEPT ![p] = "none"]

Next == \E p \in Pids : \/ \E s \in {"FG", "BG"} : Launch(p, s)
                        \/ Stop(p)
                        \/ ToForeground(p)
                        \/ ToBackground(p)
                        \/ Terminate(p)

Spec == Init /\ [][Next]_status
===============================================================================
