------------------------ MODULE KernelJobsRefinement ------------------------
(* The job manager implements JobContract: an unfinished row is an open job, *)
(* and the kernel serves in phase "up".                                      *)
EXTENDS KernelJobs

\* How the contract sees a row's status.
OutcomeOf(s) == CASE s \in Active   -> "open"
                  [] s \in Terminal -> s
                  [] OTHER          -> "none"

Abs == INSTANCE JobContract WITH
    outcome <- [j \in Jobs |-> OutcomeOf(status[j])],
    serving <- phase = "up"

\* Every step of the job manager is a step of the contract or invisible to it.
Contract == Abs!Spec
=============================================================================
