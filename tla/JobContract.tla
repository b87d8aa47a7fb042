----------------------------- MODULE JobContract -----------------------------
(***************************************************************************)
(* What the kernel promises the application about jobs and profile leases, *)
(* without tasks, threads or files: a job is accepted once, concludes at   *)
(* most once, never succeeds after an accepted cancel request, and keeps   *)
(* its profile until it has concluded.                                     *)
(***************************************************************************)
CONSTANTS Jobs, Profiles, ProfileOf, Bound, NoJob, Mutator

VARIABLES
    outcome,      \* "none", "open", or how the job concluded
    cancelReq,    \* jobs with an accepted cancel request
    lock,         \* who leases each profile
    serving       \* the kernel accepts requests

vars == <<outcome, cancelReq, lock, serving>>

Init ==
    /\ outcome = [j \in Jobs |-> "none"]
    /\ cancelReq = {}
    /\ lock = [p \in Profiles |-> NoJob]
    /\ serving = TRUE

Accept(j) ==
    /\ serving
    /\ outcome[j] = "none"
    /\ j \in Bound => lock[ProfileOf[j]] = NoJob
    /\ outcome' = [outcome EXCEPT ![j] = "open"]
    /\ lock' = IF j \in Bound THEN [lock EXCEPT ![ProfileOf[j]] = j] ELSE lock
    /\ UNCHANGED <<cancelReq, serving>>

\* The submission fails after all; nothing of the job remains.
Withdraw(j) ==
    /\ outcome[j] = "open" /\ j \notin cancelReq
    /\ outcome' = [outcome EXCEPT ![j] = "none"]
    /\ lock' = [lock EXCEPT ![ProfileOf[j]] = IF @ = j THEN NoJob ELSE @]
    /\ UNCHANGED <<cancelReq, serving>>

RequestCancel(j) ==
    /\ serving
    /\ outcome[j] = "open"
    /\ cancelReq' = cancelReq \cup {j}
    /\ UNCHANGED <<outcome, lock, serving>>

Conclude(j) ==
    /\ outcome[j] = "open"
    /\ \E o \in {"succeeded", "failed", "cancelled"} :
        /\ o = "succeeded" => j \notin cancelReq
        /\ outcome' = [outcome EXCEPT ![j] = o]
    /\ UNCHANGED <<cancelReq, lock, serving>>

\* An open job gives its profile up only when it is being cancelled or the
\* kernel is stopping.
ReturnLease(j) ==
    /\ lock[ProfileOf[j]] = j
    /\ outcome[j] # "open" \/ j \in cancelReq \/ ~serving
    /\ lock' = [lock EXCEPT ![ProfileOf[j]] = NoJob]
    /\ UNCHANGED <<outcome, cancelReq, serving>>

TakeProfile(p) ==
    /\ serving
    /\ lock[p] = NoJob
    /\ lock' = [lock EXCEPT ![p] = Mutator]
    /\ UNCHANGED <<outcome, cancelReq, serving>>

GiveProfileBack(p) ==
    /\ lock[p] = Mutator
    /\ lock' = [lock EXCEPT ![p] = NoJob]
    /\ UNCHANGED <<outcome, cancelReq, serving>>

Stop ==
    /\ serving' = FALSE
    /\ UNCHANGED <<outcome, cancelReq, lock>>

\* A restart concludes every open job as failed and frees every profile.
Restart ==
    /\ ~serving
    /\ outcome' = [j \in Jobs |-> IF outcome[j] = "open" THEN "failed" ELSE outcome[j]]
    /\ lock' = [p \in Profiles |-> NoJob]
    /\ UNCHANGED <<cancelReq, serving>>

\* Requests are accepted again only when nothing of the previous life is open.
Serve ==
    /\ ~serving
    /\ \A j \in Jobs : outcome[j] # "open"
    /\ \A p \in Profiles : lock[p] = NoJob
    /\ serving' = TRUE
    /\ UNCHANGED <<outcome, cancelReq, lock>>

Next ==
    \/ \E j \in Jobs : Accept(j) \/ Withdraw(j) \/ RequestCancel(j) \/ Conclude(j) \/ ReturnLease(j)
    \/ \E p \in Profiles : TakeProfile(p) \/ GiveProfileBack(p)
    \/ Stop \/ Restart \/ Serve

Spec == Init /\ [][Next]_vars
=============================================================================
