---------------------------- MODULE MCKernelJobs ----------------------------
(* An instance of KernelJobs for TLC: two Bilibili jobs contend for one      *)
(* profile.                                                                  *)
EXTENDS KernelJobsRefinement

CONSTANTS b1, b2, p1

MCJobs == {b1, b2}
MCProfileOf == [j \in Jobs |-> p1]
=============================================================================
