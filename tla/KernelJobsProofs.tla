-------------------------- MODULE KernelJobsProofs --------------------------
(* Theorems about the job manager, for any set of jobs and profiles.         *)
EXTENDS KernelJobsRefinement, FiniteSetTheorems, TLAPS

\* A strategy runs only while its name is still in the order: what makes the
\* count of strategies left stay a natural number.
StrategyCounted == \A j \in Jobs : pc[j] \in {"strategy", "unwinding"} => left[j] > 0

\* Type correctness of the job manager: every handler writes only the states
\* the schema and models.py name, for any numbers of jobs, profiles, lookups.
THEOREM TypeCorrect == Spec => []TypeOK
<1> USE JobsAssumption DEF TypeOK, StrategyCounted, Status, Terminal, Active, PC, Waiting, Segment, Owning
<1>1. Init => TypeOK /\ StrategyCounted
  BY DEF Init
<1>2. TypeOK /\ StrategyCounted /\ [Next]_vars => TypeOK' /\ StrategyCounted'
  <2> SUFFICES ASSUME TypeOK, StrategyCounted, [Next]_vars
               PROVE  TypeOK' /\ StrategyCounted'
    OBVIOUS
  <2> USE DEF rowVars, artVars, taskVars, hostVars, Continue, Suspend, Resume, CancelTasks
  <2>1. ASSUME NEW j \in Jobs, Submit(j)
          PROVE  TypeOK' /\ StrategyCounted'
    BY <2>1 DEF Submit
  <2>2. ASSUME NEW j \in Jobs, Cancel(j)
          PROVE  TypeOK' /\ StrategyCounted'
    BY <2>2 DEF Cancel
  <2>3. ASSUME NEW l \in Lookups, StartLookup(l) \/ EndLookup(l)
          PROVE  TypeOK' /\ StrategyCounted'
    BY <2>3 DEF StartLookup, EndLookup
  <2>4. ASSUME NEW p \in Profiles, TakeProfile(p) \/ GiveProfileBack(p)
          PROVE  TypeOK' /\ StrategyCounted'
    BY <2>4 DEF TakeProfile, GiveProfileBack
  <2>5. CASE BeginShutdown \/ GraceExpires
    BY <2>5 DEF BeginShutdown, GraceExpires
  <2>6. CASE Crash
    BY <2>6 DEF Crash
  <2>7. CASE Recover
    BY <2>7 DEF Recover, Unfinished
  <2>8. CASE Serve
    BY <2>8 DEF Serve
  <2>9. CASE CleanupForget
    BY <2>9 DEF CleanupForget
  <2>10. ASSUME NEW j \in Jobs, ReportRecovered(j)
          PROVE  TypeOK' /\ StrategyCounted'
    BY <2>10 DEF ReportRecovered, WriteFailureArtifacts
  <2>11. ASSUME NEW j \in Jobs, CleanupRemove(j)
          PROVE  TypeOK' /\ StrategyCounted'
    BY <2>11 DEF CleanupRemove, Expired
  <2>12. ASSUME NEW j \in Jobs, CreateTask(j) \/ Rollback(j)
          PROVE  TypeOK' /\ StrategyCounted'
    BY <2>12 DEF CreateTask, Rollback, Released
  <2>13. ASSUME NEW j \in Jobs, Prepare(j)
          PROVE  TypeOK' /\ StrategyCounted'
    BY <2>13 DEF Prepare, CancelRequested
  <2>14. ASSUME NEW j \in Jobs, PickStrategy(j)
          PROVE  TypeOK' /\ StrategyCounted'
    BY <2>14 DEF PickStrategy, CancelRequested, StrategyLeft
  <2>15. ASSUME NEW j \in Jobs, StartMedia(j)
          PROVE  TypeOK' /\ StrategyCounted'
    BY <2>15 DEF StartMedia, CancelRequested
  <2>16. ASSUME NEW j \in Jobs, Terminate(j)
          PROVE  TypeOK' /\ StrategyCounted'
    BY <2>16 DEF Terminate
  <2>17. ASSUME NEW j \in Jobs, Report(j)
          PROVE  TypeOK' /\ StrategyCounted'
    BY <2>17 DEF Report, WriteFailureArtifacts
  <2>18. ASSUME NEW j \in Jobs, SaveArtifacts(j) \/ Publish(j)
          PROVE  TypeOK' /\ StrategyCounted'
    BY <2>18 DEF SaveArtifacts, Publish
  <2>19. ASSUME NEW j \in Jobs, FailPartial(j) \/ SavePartial(j)
          PROVE  TypeOK' /\ StrategyCounted'
    BY <2>19 DEF FailPartial, SavePartial
  <2>20. ASSUME NEW j \in Jobs, ReleaseLease(j)
          PROVE  TypeOK' /\ StrategyCounted'
    BY <2>20 DEF ReleaseLease, Released
  <2>21. ASSUME NEW j \in Jobs, Claim(j) \/ DropUnstarted(j)
          PROVE  TypeOK' /\ StrategyCounted'
    BY <2>21 DEF Claim, DropUnstarted
  <2>22. ASSUME NEW j \in Jobs, MediaReturns(j)
          PROVE  TypeOK' /\ StrategyCounted'
    BY <2>22 DEF MediaReturns, AfterMedia, CancelRequested
  <2>23. ASSUME NEW j \in Jobs, Interrupted(j)
          PROVE  TypeOK' /\ StrategyCounted'
    BY <2>23 DEF Interrupted
  <2>24. ASSUME NEW j \in Jobs, Settled(j) \/ SettleExpires(j)
          PROVE  TypeOK' /\ StrategyCounted'
    BY <2>24 DEF Settled, SettleExpires, AfterSettle
  <2>25. ASSUME NEW j \in Jobs, SettleInterrupted(j)
          PROVE  TypeOK' /\ StrategyCounted'
    BY <2>25 DEF SettleInterrupted
  <2>26. ASSUME NEW j \in Jobs, TaskDone(j)
          PROVE  TypeOK' /\ StrategyCounted'
    BY <2>26 DEF TaskDone
  <2>27. ASSUME NEW j \in Jobs, Worker(j)
          PROVE  TypeOK' /\ StrategyCounted'
    BY <2>27 DEF Worker, WorkerWrites, WorkerFails, WorkerStops, CancelRequested, WorkerEnds
  <2>28. ASSUME NEW j \in Jobs, StrategyReturns(j)
          PROVE  TypeOK' /\ StrategyCounted'
    BY <2>28 DEF StrategyReturns, CancelRequested
  <2>29. ASSUME NEW j \in Jobs, TimeLimit(j)
          PROVE  TypeOK' /\ StrategyCounted'
    BY <2>29 DEF TimeLimit
  <2>30. ASSUME NEW j \in Jobs, Age(j)
          PROVE  TypeOK' /\ StrategyCounted'
    BY <2>30 DEF Age
  <2>31. ASSUME NEW j \in Jobs, Unwind(j)
          PROVE  TypeOK' /\ StrategyCounted'
    BY <2>31 DEF Unwind
  <2>32. ASSUME NEW j \in Jobs, Unwound(j)
          PROVE  TypeOK' /\ StrategyCounted'
    BY <2>32 DEF Unwound
  <2>33. CASE UNCHANGED vars
    BY <2>33 DEF vars
  <2> QED
    BY <2>1, <2>2, <2>3, <2>4, <2>5, <2>6, <2>7, <2>8, <2>9, <2>10, <2>11, <2>12, <2>13, <2>14,
       <2>15, <2>16, <2>17, <2>18, <2>19, <2>20, <2>21, <2>22, <2>23, <2>24, <2>25, <2>26, <2>27,
       <2>28, <2>29, <2>30, <2>31, <2>32, <2>33 DEF Next, Clients, Process, Segments, Wakeups
<1>3. QED
  BY <1>1, <1>2, PTL DEF Spec

-----------------------------------------------------------------------------
(* The inductive invariant.  RunnerHoldsLease, NoLeakedLease and             *)
(* UnfinishedHasRunner are not inductive: they hold because a segment is     *)
(* never interleaved with another one, because the program counter of a      *)
(* runner determines its row, and because an unstarted task is interrupted   *)
(* by a shutdown only.                                                       *)

\* The loop is busy exactly with the job that is inside a segment.
LoopInv == \A j \in Jobs : pc[j] \in Segment <=> loop = j

\* No task and no finished recovery while the process is down or recovering.
DownInv ==
    /\ phase \in {"down", "recovering"} => \A j \in Jobs : pc[j] = "none"
    /\ phase = "recovering" =>
         /\ \A j \in Jobs : status[j] \notin Active
         /\ \A p \in Profiles : lock[p] = NoJob

\* The row of a job as its runner's position determines it.
RowInv ==
    \A j \in Jobs :
        /\ status[j] = "absent" => pc[j] = "none" /\ j \notin cancelReq
        /\ pc[j] \in {"mkdir", "new"} => status[j] = "queued"
        /\ pc[j] = "mkdir" => j \notin cancelReq
        /\ pc[j] \in {"claimed", "pick", "won", "strategy", "unwinding", "save", "publish", "partial",
                    "cancel", "fail"} =>
               status[j] \in Active \ {"queued"}
        /\ pc[j] \in {"media", "settle_cancel", "settle_fail"} => status[j] = "processing_media"
        /\ pc[j] \in {"report", "save_partial"} => status[j] \in Terminal
        /\ pc[j] = "release" =>
               \/ status[j] \in Terminal
               \/ status[j] = "processing_media" /\ (j \in cancelReq \/ phase # "up")
        /\ pc[j] \in {"save", "publish"} => j \notin cancelReq
        /\ status[j] = "absent" \/ pc[j] \in {"mkdir", "new", "claimed", "pick", "won", "strategy", "unwinding"} =>
               media[j] = "none"

\* Where an interruption may be pending, and who asked for it.
IntrInv ==
    \A j \in Jobs :
        /\ intr[j] # "none" => pc[j] \in Waiting \cup {"new"}
        /\ intr[j] = "cancel" /\ phase = "up" => j \in cancelReq /\ pc[j] # "new"

\* Leases are held for the profile the job names.
LeaseInv == \A p \in Profiles : lock[p] \in Jobs => ProfileOf[lock[p]] = p

IInv ==
    /\ LoopInv
    /\ DownInv
    /\ RowInv
    /\ IntrInv
    /\ LeaseInv
    /\ RunnerHoldsLease
    /\ NoLeakedLease
    /\ UnfinishedHasRunner

\* Every step of the job manager preserves the invariant.
LEMMA InvariantStep ==
    ASSUME TypeOK, TypeOK', IInv, [Next]_vars
    PROVE  IInv'
<1> USE JobsAssumption DEF IInv, LoopInv, DownInv, RowInv, IntrInv, LeaseInv, RunnerHoldsLease,
        NoLeakedLease, UnfinishedHasRunner, TypeOK, Status, Terminal, Active, PC, Waiting, Segment,
        Owning, rowVars, artVars, taskVars, hostVars, Continue, Suspend, Resume
<1>1. ASSUME NEW j \in Jobs, Submit(j) PROVE IInv'
  BY <1>1 DEF Submit, LeaseFree
<1>2. ASSUME NEW j \in Jobs, Cancel(j) PROVE IInv'
  BY <1>2 DEF Cancel, CancelTargets, CancelTasks
<1>3. ASSUME NEW l \in Lookups, StartLookup(l) PROVE IInv'
  BY <1>3 DEF StartLookup
<1>4. ASSUME NEW l \in Lookups, EndLookup(l) PROVE IInv'
  BY <1>4 DEF EndLookup
<1>5. ASSUME NEW p \in Profiles, TakeProfile(p) PROVE IInv'
  BY <1>5 DEF TakeProfile
<1>6. ASSUME NEW p \in Profiles, GiveProfileBack(p) PROVE IInv'
  BY <1>6 DEF GiveProfileBack
<1>7. CASE BeginShutdown
  BY <1>7 DEF BeginShutdown, CancelTasks
<1>8. CASE GraceExpires
  BY <1>8 DEF GraceExpires, CancelTasks
<1>9. CASE Crash
  BY <1>9 DEF Crash
<1>10. CASE Recover
  BY <1>10 DEF Recover, Unfinished
<1>11. CASE Serve
  BY <1>11 DEF Serve
<1>12. CASE CleanupForget
  BY <1>12 DEF CleanupForget
<1>13. ASSUME NEW j \in Jobs, ReportRecovered(j) PROVE IInv'
  BY <1>13 DEF ReportRecovered
<1>14. ASSUME NEW j \in Jobs, CleanupRemove(j) PROVE IInv'
  BY <1>14 DEF CleanupRemove, Expired
<1>15. ASSUME NEW j \in Jobs, CreateTask(j) PROVE IInv'
  BY <1>15 DEF CreateTask
<1>16. ASSUME NEW j \in Jobs, Rollback(j) PROVE IInv'
  BY <1>16 DEF Rollback, Released
<1>17. ASSUME NEW j \in Jobs, Prepare(j) PROVE IInv'
  BY <1>17 DEF Prepare, CancelRequested
<1>18. ASSUME NEW j \in Jobs, PickStrategy(j) PROVE IInv'
  BY <1>18 DEF PickStrategy, CancelRequested
<1>19. ASSUME NEW j \in Jobs, StartMedia(j) PROVE IInv'
  BY <1>19 DEF StartMedia, CancelRequested
<1>20. ASSUME NEW j \in Jobs, Terminate(j) PROVE IInv'
  BY <1>20 DEF Terminate
<1>21. ASSUME NEW j \in Jobs, Report(j) PROVE IInv'
  BY <1>21 DEF Report
<1>22. ASSUME NEW j \in Jobs, SaveArtifacts(j) PROVE IInv'
  BY <1>22 DEF SaveArtifacts
<1>23. ASSUME NEW j \in Jobs, Publish(j) PROVE IInv'
  BY <1>23 DEF Publish
<1>24. ASSUME NEW j \in Jobs, FailPartial(j) PROVE IInv'
  BY <1>24 DEF FailPartial
<1>25. ASSUME NEW j \in Jobs, SavePartial(j) PROVE IInv'
  BY <1>25 DEF SavePartial
<1>26. ASSUME NEW j \in Jobs, ReleaseLease(j) PROVE IInv'
  BY <1>26 DEF ReleaseLease, Released
<1>27. ASSUME NEW j \in Jobs, Claim(j) PROVE IInv'
  BY <1>27 DEF Claim
<1>28. ASSUME NEW j \in Jobs, DropUnstarted(j) PROVE IInv'
  BY <1>28 DEF DropUnstarted
<1>29. ASSUME NEW j \in Jobs, MediaReturns(j) PROVE IInv'
  <2>1. AfterMedia(j, media[j]) \in {"save", "partial", "fail", "cancel"}
    BY <1>29 DEF MediaReturns, AfterMedia, CancelRequested
  <2>2. AfterMedia(j, media[j]) = "save" => j \notin cancelReq
    BY <1>29 DEF MediaReturns, AfterMedia, CancelRequested
  <2> QED
    BY <1>29, <2>1, <2>2 DEF MediaReturns
<1>30. ASSUME NEW j \in Jobs, Interrupted(j) PROVE IInv'
  BY <1>30 DEF Interrupted
<1>31. ASSUME NEW j \in Jobs, Settled(j) PROVE IInv'
  BY <1>31 DEF Settled, AfterSettle
<1>32. ASSUME NEW j \in Jobs, SettleExpires(j) PROVE IInv'
  BY <1>32 DEF SettleExpires, AfterSettle
<1>33. ASSUME NEW j \in Jobs, SettleInterrupted(j) PROVE IInv'
  BY <1>33 DEF SettleInterrupted
<1>34. ASSUME NEW j \in Jobs, TaskDone(j) PROVE IInv'
  BY <1>34 DEF TaskDone
<1>35. ASSUME NEW j \in Jobs, Worker(j) PROVE IInv'
  BY <1>35 DEF Worker, WorkerWrites, WorkerFails, WorkerStops, CancelRequested, WorkerEnds
<1>36. ASSUME NEW j \in Jobs, StrategyReturns(j) PROVE IInv'
  BY <1>36 DEF StrategyReturns, CancelRequested
<1>37. ASSUME NEW j \in Jobs, TimeLimit(j) PROVE IInv'
  BY <1>37 DEF TimeLimit, TimeLimited
<1>38. ASSUME NEW j \in Jobs, Age(j) PROVE IInv'
  BY <1>38 DEF Age
<1>39. ASSUME NEW j \in Jobs, Unwind(j) PROVE IInv'
  BY <1>39 DEF Unwind
<1>40. ASSUME NEW j \in Jobs, Unwound(j) PROVE IInv'
  BY <1>40 DEF Unwound
<1>41. CASE UNCHANGED vars
  BY <1>41 DEF vars
<1> QED
  BY <1>1, <1>2, <1>3, <1>4, <1>5, <1>6, <1>7, <1>8, <1>9, <1>10, <1>11, <1>12, <1>13, <1>14,
     <1>15, <1>16, <1>17, <1>18, <1>19, <1>20, <1>21, <1>22, <1>23, <1>24, <1>25, <1>26, <1>27,
     <1>28, <1>29, <1>30, <1>31, <1>32, <1>33, <1>34, <1>35, <1>36, <1>37, <1>38, <1>39, <1>40, <1>41
     DEF Next,
     Clients, Process, Segments, Wakeups

\* The initial state has no rows, tasks or leases.
LEMMA InvariantInit == Init => IInv
  BY JobsAssumption DEF Init, IInv, LoopInv, DownInv, RowInv, IntrInv, LeaseInv, RunnerHoldsLease,
     NoLeakedLease, UnfinishedHasRunner, Segment, Waiting, Owning, PC, Active

\* The inductive invariant holds in every reachable state.
THEOREM Invariant == Spec => []IInv
<1>1. TypeOK /\ TypeOK' /\ IInv /\ [Next]_vars => IInv'
  BY InvariantStep
<1> QED
  BY <1>1, InvariantInit, TypeCorrect, PTL DEF Spec

\* A profile-bound job keeps its profile from admission to the finally clause of
\* run_job, so nothing else uses or changes the login state meanwhile.
THEOREM LeaseHeldWhileRunning == Spec => []RunnerHoldsLease
  BY Invariant, PTL DEF IInv

\* While the kernel serves, a leased profile has a runner that will return it.
THEOREM NoLeaseLeaks == Spec => []NoLeakedLease
  BY Invariant, PTL DEF IInv

\* Together: the lease of a profile excludes other users for exactly as long as a
\* job runs on it.
THEOREM LeasesAreDisciplined == Spec => []LeaseDiscipline
  BY LeaseHeldWhileRunning, NoLeaseLeaks, PTL DEF LeaseDiscipline

\* While the kernel serves, an unfinished row has a runner unless it was
\* cancelled in its media stage.
THEOREM NoJobForgotten == Spec => []UnfinishedHasRunner
  BY Invariant, PTL DEF IInv

\* One step never leaves or replaces a terminal state: handlers that write the
\* status run while the row is unfinished, and recovery skips terminal rows.
LEMMA TerminalStep ==
    ASSUME TypeOK, IInv, [Next]_vars, NEW j \in Jobs, status[j] \in Terminal
    PROVE  status'[j] = status[j]
<1> USE JobsAssumption DEF IInv, RowInv, TypeOK, Status, Terminal, Active, rowVars
<1>1. ASSUME NEW l \in Lookups, StartLookup(l) PROVE status'[j] = status[j]
  BY <1>1 DEF StartLookup
<1>2. ASSUME NEW l \in Lookups, EndLookup(l) PROVE status'[j] = status[j]
  BY <1>2 DEF EndLookup
<1>3. ASSUME NEW p \in Profiles, TakeProfile(p) PROVE status'[j] = status[j]
  BY <1>3 DEF TakeProfile
<1>4. ASSUME NEW p \in Profiles, GiveProfileBack(p) PROVE status'[j] = status[j]
  BY <1>4 DEF GiveProfileBack
<1>5. CASE BeginShutdown
  BY <1>5 DEF BeginShutdown
<1>6. CASE GraceExpires
  BY <1>6 DEF GraceExpires
<1>7. CASE Crash
  BY <1>7 DEF Crash
<1>8. CASE Serve
  BY <1>8 DEF Serve
<1>9. CASE CleanupForget
  BY <1>9 DEF CleanupForget
<1>10. CASE Recover
  BY <1>10 DEF Recover, Unfinished
<1>11. ASSUME NEW k \in Jobs, Submit(k) PROVE status'[j] = status[j]
  BY <1>11 DEF Submit
<1>12. ASSUME NEW k \in Jobs, Cancel(k) PROVE status'[j] = status[j]
  BY <1>12 DEF Cancel
<1>13. ASSUME NEW k \in Jobs, ReportRecovered(k) PROVE status'[j] = status[j]
  BY <1>13 DEF ReportRecovered
<1>14. ASSUME NEW k \in Jobs, CleanupRemove(k) PROVE status'[j] = status[j]
  BY <1>14 DEF CleanupRemove, Expired
<1>15. ASSUME NEW k \in Jobs, CreateTask(k) PROVE status'[j] = status[j]
  BY <1>15 DEF CreateTask
<1>16. ASSUME NEW k \in Jobs, Rollback(k) PROVE status'[j] = status[j]
  BY <1>16 DEF Rollback
<1>17. ASSUME NEW k \in Jobs, Prepare(k) PROVE status'[j] = status[j]
  BY <1>17 DEF Prepare, CancelRequested
<1>18. ASSUME NEW k \in Jobs, PickStrategy(k) PROVE status'[j] = status[j]
  BY <1>18 DEF PickStrategy, CancelRequested
<1>19. ASSUME NEW k \in Jobs, StartMedia(k) PROVE status'[j] = status[j]
  BY <1>19 DEF StartMedia, CancelRequested
<1>20. ASSUME NEW k \in Jobs, Terminate(k) PROVE status'[j] = status[j]
  BY <1>20 DEF Terminate
<1>21. ASSUME NEW k \in Jobs, Report(k) PROVE status'[j] = status[j]
  BY <1>21 DEF Report
<1>22. ASSUME NEW k \in Jobs, SaveArtifacts(k) PROVE status'[j] = status[j]
  BY <1>22 DEF SaveArtifacts
<1>23. ASSUME NEW k \in Jobs, Publish(k) PROVE status'[j] = status[j]
  BY <1>23 DEF Publish
<1>24. ASSUME NEW k \in Jobs, FailPartial(k) PROVE status'[j] = status[j]
  BY <1>24 DEF FailPartial
<1>25. ASSUME NEW k \in Jobs, SavePartial(k) PROVE status'[j] = status[j]
  BY <1>25 DEF SavePartial
<1>26. ASSUME NEW k \in Jobs, ReleaseLease(k) PROVE status'[j] = status[j]
  BY <1>26 DEF ReleaseLease
<1>27. ASSUME NEW k \in Jobs, Claim(k) PROVE status'[j] = status[j]
  BY <1>27 DEF Claim
<1>28. ASSUME NEW k \in Jobs, DropUnstarted(k) PROVE status'[j] = status[j]
  BY <1>28 DEF DropUnstarted
<1>29. ASSUME NEW k \in Jobs, MediaReturns(k) PROVE status'[j] = status[j]
  BY <1>29 DEF MediaReturns
<1>30. ASSUME NEW k \in Jobs, Interrupted(k) PROVE status'[j] = status[j]
  BY <1>30 DEF Interrupted
<1>31. ASSUME NEW k \in Jobs, Settled(k) PROVE status'[j] = status[j]
  BY <1>31 DEF Settled
<1>32. ASSUME NEW k \in Jobs, SettleExpires(k) PROVE status'[j] = status[j]
  BY <1>32 DEF SettleExpires
<1>33. ASSUME NEW k \in Jobs, SettleInterrupted(k) PROVE status'[j] = status[j]
  BY <1>33 DEF SettleInterrupted
<1>34. ASSUME NEW k \in Jobs, TaskDone(k) PROVE status'[j] = status[j]
  BY <1>34 DEF TaskDone
<1>35. ASSUME NEW k \in Jobs, Worker(k) PROVE status'[j] = status[j]
  BY <1>35 DEF Worker, WorkerWrites, WorkerFails, WorkerStops, CancelRequested, WorkerEnds
<1>36. ASSUME NEW k \in Jobs, StrategyReturns(k) PROVE status'[j] = status[j]
  BY <1>36 DEF StrategyReturns, CancelRequested
<1>37. ASSUME NEW k \in Jobs, TimeLimit(k) PROVE status'[j] = status[j]
  BY <1>37 DEF TimeLimit
<1>38. ASSUME NEW k \in Jobs, Age(k) PROVE status'[j] = status[j]
  BY <1>38 DEF Age
<1>39. ASSUME NEW k \in Jobs, Unwind(k) PROVE status'[j] = status[j]
  BY <1>39 DEF Unwind
<1>40. ASSUME NEW k \in Jobs, Unwound(k) PROVE status'[j] = status[j]
  BY <1>40 DEF Unwound
<1>41. CASE UNCHANGED vars
  BY <1>41 DEF vars
<1> QED
  BY <1>1, <1>2, <1>3, <1>4, <1>5, <1>6, <1>7, <1>8, <1>9, <1>10, <1>11, <1>12, <1>13, <1>14,
     <1>15, <1>16, <1>17, <1>18, <1>19, <1>20, <1>21, <1>22, <1>23, <1>24, <1>25, <1>26, <1>27,
     <1>28, <1>29, <1>30, <1>31, <1>32, <1>33, <1>34, <1>35, <1>36, <1>37, <1>38, <1>39, <1>40, <1>41
     DEF Next,
     Clients, Process, Segments, Wakeups

\* A terminal state of a job is final, for every interleaving of its runner, its
\* straggling worker, cancels, crashes and recoveries.
THEOREM TerminalStatesAreFinal == Spec => TerminalIsFinal
<1>1. TypeOK /\ IInv /\ [Next]_vars =>
        [\A j \in Jobs : status[j] \in Terminal => status'[j] = status[j]]_vars
  BY TerminalStep
<1> QED
  BY <1>1, Invariant, TypeCorrect, PTL DEF Spec, TerminalIsFinal

\* One step never makes a success of a cancelled job: only Publish writes
\* "succeeded", and no cancel request fits between its check and its write.
LEMMA CancelStep ==
    ASSUME TypeOK, IInv, [Next]_vars, NEW j \in cancelReq, status'[j] = "succeeded"
    PROVE  status[j] = "succeeded"
<1> j \in Jobs
  BY DEF TypeOK
<1> USE JobsAssumption DEF IInv, RowInv, TypeOK, Status, Terminal, Active, rowVars
<1>1. ASSUME NEW l \in Lookups, StartLookup(l) PROVE status[j] = "succeeded"
  BY <1>1 DEF StartLookup
<1>2. ASSUME NEW l \in Lookups, EndLookup(l) PROVE status[j] = "succeeded"
  BY <1>2 DEF EndLookup
<1>3. ASSUME NEW p \in Profiles, TakeProfile(p) PROVE status[j] = "succeeded"
  BY <1>3 DEF TakeProfile
<1>4. ASSUME NEW p \in Profiles, GiveProfileBack(p) PROVE status[j] = "succeeded"
  BY <1>4 DEF GiveProfileBack
<1>5. CASE BeginShutdown
  BY <1>5 DEF BeginShutdown
<1>6. CASE GraceExpires
  BY <1>6 DEF GraceExpires
<1>7. CASE Crash
  BY <1>7 DEF Crash
<1>8. CASE Serve
  BY <1>8 DEF Serve
<1>9. CASE CleanupForget
  BY <1>9 DEF CleanupForget
<1>10. CASE Recover
  BY <1>10 DEF Recover, Unfinished
<1>11. ASSUME NEW k \in Jobs, Submit(k) PROVE status[j] = "succeeded"
  BY <1>11 DEF Submit
<1>12. ASSUME NEW k \in Jobs, Cancel(k) PROVE status[j] = "succeeded"
  BY <1>12 DEF Cancel
<1>13. ASSUME NEW k \in Jobs, ReportRecovered(k) PROVE status[j] = "succeeded"
  BY <1>13 DEF ReportRecovered
<1>14. ASSUME NEW k \in Jobs, CleanupRemove(k) PROVE status[j] = "succeeded"
  BY <1>14 DEF CleanupRemove, Expired
<1>15. ASSUME NEW k \in Jobs, CreateTask(k) PROVE status[j] = "succeeded"
  BY <1>15 DEF CreateTask
<1>16. ASSUME NEW k \in Jobs, Rollback(k) PROVE status[j] = "succeeded"
  BY <1>16 DEF Rollback
<1>17. ASSUME NEW k \in Jobs, Prepare(k) PROVE status[j] = "succeeded"
  BY <1>17 DEF Prepare, CancelRequested
<1>18. ASSUME NEW k \in Jobs, PickStrategy(k) PROVE status[j] = "succeeded"
  BY <1>18 DEF PickStrategy, CancelRequested
<1>19. ASSUME NEW k \in Jobs, StartMedia(k) PROVE status[j] = "succeeded"
  BY <1>19 DEF StartMedia, CancelRequested
<1>20. ASSUME NEW k \in Jobs, Terminate(k) PROVE status[j] = "succeeded"
  BY <1>20 DEF Terminate
<1>21. ASSUME NEW k \in Jobs, Report(k) PROVE status[j] = "succeeded"
  BY <1>21 DEF Report
<1>22. ASSUME NEW k \in Jobs, SaveArtifacts(k) PROVE status[j] = "succeeded"
  BY <1>22 DEF SaveArtifacts
<1>23. ASSUME NEW k \in Jobs, Publish(k) PROVE status[j] = "succeeded"
  BY <1>23 DEF Publish
<1>24. ASSUME NEW k \in Jobs, FailPartial(k) PROVE status[j] = "succeeded"
  BY <1>24 DEF FailPartial
<1>25. ASSUME NEW k \in Jobs, SavePartial(k) PROVE status[j] = "succeeded"
  BY <1>25 DEF SavePartial
<1>26. ASSUME NEW k \in Jobs, ReleaseLease(k) PROVE status[j] = "succeeded"
  BY <1>26 DEF ReleaseLease
<1>27. ASSUME NEW k \in Jobs, Claim(k) PROVE status[j] = "succeeded"
  BY <1>27 DEF Claim
<1>28. ASSUME NEW k \in Jobs, DropUnstarted(k) PROVE status[j] = "succeeded"
  BY <1>28 DEF DropUnstarted
<1>29. ASSUME NEW k \in Jobs, MediaReturns(k) PROVE status[j] = "succeeded"
  BY <1>29 DEF MediaReturns
<1>30. ASSUME NEW k \in Jobs, Interrupted(k) PROVE status[j] = "succeeded"
  BY <1>30 DEF Interrupted
<1>31. ASSUME NEW k \in Jobs, Settled(k) PROVE status[j] = "succeeded"
  BY <1>31 DEF Settled
<1>32. ASSUME NEW k \in Jobs, SettleExpires(k) PROVE status[j] = "succeeded"
  BY <1>32 DEF SettleExpires
<1>33. ASSUME NEW k \in Jobs, SettleInterrupted(k) PROVE status[j] = "succeeded"
  BY <1>33 DEF SettleInterrupted
<1>34. ASSUME NEW k \in Jobs, TaskDone(k) PROVE status[j] = "succeeded"
  BY <1>34 DEF TaskDone
<1>35. ASSUME NEW k \in Jobs, Worker(k) PROVE status[j] = "succeeded"
  BY <1>35 DEF Worker, WorkerWrites, WorkerFails, WorkerStops, CancelRequested, WorkerEnds
<1>36. ASSUME NEW k \in Jobs, StrategyReturns(k) PROVE status[j] = "succeeded"
  BY <1>36 DEF StrategyReturns, CancelRequested
<1>37. ASSUME NEW k \in Jobs, TimeLimit(k) PROVE status[j] = "succeeded"
  BY <1>37 DEF TimeLimit
<1>38. ASSUME NEW k \in Jobs, Age(k) PROVE status[j] = "succeeded"
  BY <1>38 DEF Age
<1>39. ASSUME NEW k \in Jobs, Unwind(k) PROVE status[j] = "succeeded"
  BY <1>39 DEF Unwind
<1>40. ASSUME NEW k \in Jobs, Unwound(k) PROVE status[j] = "succeeded"
  BY <1>40 DEF Unwound
<1>41. CASE UNCHANGED vars
  BY <1>41 DEF vars
<1> QED
  BY <1>1, <1>2, <1>3, <1>4, <1>5, <1>6, <1>7, <1>8, <1>9, <1>10, <1>11, <1>12, <1>13, <1>14,
     <1>15, <1>16, <1>17, <1>18, <1>19, <1>20, <1>21, <1>22, <1>23, <1>24, <1>25, <1>26, <1>27,
     <1>28, <1>29, <1>30, <1>31, <1>32, <1>33, <1>34, <1>35, <1>36, <1>37, <1>38, <1>39, <1>40, <1>41
     DEF Next,
     Clients, Process, Segments, Wakeups

\* An accepted cancel request excludes a later success.
THEOREM CancelledJobsDoNotSucceed == Spec => CancelPreventsSuccess
<1>1. TypeOK /\ IInv /\ [Next]_vars =>
        [\A j \in cancelReq : status'[j] = "succeeded" => status[j] = "succeeded"]_vars
  BY CancelStep
<1> QED
  BY <1>1, Invariant, TypeCorrect, PTL DEF Spec, CancelPreventsSuccess

\* The three kinds of status and what the contract makes of them.
LEMMA OutcomeCases ==
    /\ \A s \in Active : OutcomeOf(s) = "open"
    /\ \A s \in Terminal : OutcomeOf(s) = s
    /\ OutcomeOf("absent") = "none"
  BY DEF OutcomeOf, Active, Terminal

\* One row changes: one outcome changes.
LEMMA OutcomeUpdate ==
    ASSUME status \in [Jobs -> Status], NEW k \in Jobs, NEW s, status' = [status EXCEPT ![k] = s]
    PROVE  [j \in Jobs |-> OutcomeOf(status[j])]'
             = [[j \in Jobs |-> OutcomeOf(status[j])] EXCEPT ![k] = OutcomeOf(s)]
  OBVIOUS

\* A row moves between unfinished states: no outcome changes.
LEMMA OutcomeStays ==
    ASSUME status \in [Jobs -> Status], NEW k \in Jobs, NEW s \in Active, status[k] \in Active,
           status' = [status EXCEPT ![k] = s]
    PROVE  [j \in Jobs |-> OutcomeOf(status[j])]' = [j \in Jobs |-> OutcomeOf(status[j])]
  BY OutcomeCases

\* Every step of the job manager is a step of JobContract or leaves its
\* variables unchanged.
LEMMA ContractStep ==
    ASSUME TypeOK, TypeOK', IInv, [Next]_vars
    PROVE  [Abs!Next]_(Abs!vars)
<1> USE JobsAssumption DEF TypeOK, rowVars, artVars, taskVars, hostVars, Continue, Suspend, Resume,
        Abs!vars
<1>1. ASSUME NEW k \in Jobs, ReportRecovered(k) PROVE UNCHANGED Abs!vars
  BY <1>1 DEF ReportRecovered
<1>2. ASSUME NEW k \in Jobs, CleanupRemove(k) PROVE UNCHANGED Abs!vars
  BY <1>2 DEF CleanupRemove
<1>3. ASSUME NEW k \in Jobs, CreateTask(k) PROVE UNCHANGED Abs!vars
  BY <1>3 DEF CreateTask
<1>4. ASSUME NEW k \in Jobs, Report(k) PROVE UNCHANGED Abs!vars
  BY <1>4 DEF Report
<1>5. ASSUME NEW k \in Jobs, SaveArtifacts(k) PROVE UNCHANGED Abs!vars
  BY <1>5 DEF SaveArtifacts
<1>6. ASSUME NEW k \in Jobs, SavePartial(k) PROVE UNCHANGED Abs!vars
  BY <1>6 DEF SavePartial
<1>7. ASSUME NEW k \in Jobs, DropUnstarted(k) PROVE UNCHANGED Abs!vars
  BY <1>7 DEF DropUnstarted
<1>8. ASSUME NEW k \in Jobs, MediaReturns(k) PROVE UNCHANGED Abs!vars
  BY <1>8 DEF MediaReturns
<1>9. ASSUME NEW k \in Jobs, Interrupted(k) PROVE UNCHANGED Abs!vars
  BY <1>9 DEF Interrupted
<1>10. ASSUME NEW k \in Jobs, Settled(k) PROVE UNCHANGED Abs!vars
  BY <1>10 DEF Settled
<1>11. ASSUME NEW k \in Jobs, SettleExpires(k) PROVE UNCHANGED Abs!vars
  BY <1>11 DEF SettleExpires
<1>12. ASSUME NEW k \in Jobs, SettleInterrupted(k) PROVE UNCHANGED Abs!vars
  BY <1>12 DEF SettleInterrupted
<1>13. ASSUME NEW k \in Jobs, TaskDone(k) PROVE UNCHANGED Abs!vars
  BY <1>13 DEF TaskDone
<1>14. ASSUME NEW k \in Jobs, Worker(k) PROVE UNCHANGED Abs!vars
  BY <1>14 DEF Worker, WorkerWrites, WorkerFails, WorkerStops, CancelRequested, WorkerEnds
<1>15. ASSUME NEW k \in Jobs, StrategyReturns(k) PROVE UNCHANGED Abs!vars
  BY <1>15 DEF StrategyReturns, CancelRequested
<1>16. ASSUME NEW k \in Jobs, TimeLimit(k) PROVE UNCHANGED Abs!vars
  BY <1>16 DEF TimeLimit
<1>17. ASSUME NEW l \in Lookups, StartLookup(l) PROVE UNCHANGED Abs!vars
  BY <1>17 DEF StartLookup
<1>18. ASSUME NEW l \in Lookups, EndLookup(l) PROVE UNCHANGED Abs!vars
  BY <1>18 DEF EndLookup
<1>19. CASE CleanupForget
  BY <1>19 DEF CleanupForget
<1>20. CASE GraceExpires
  BY <1>20 DEF GraceExpires
<1>21. ASSUME NEW k \in Jobs, Submit(k) PROVE Abs!Accept(k)
  <2>1. [j \in Jobs |-> OutcomeOf(status[j])]' = [[j \in Jobs |-> OutcomeOf(status[j])] EXCEPT ![k] = "open"]
    BY <1>21, OutcomeUpdate, OutcomeCases DEF Submit, Active
  <2>2. OutcomeOf(status[k]) = "none"
    BY <1>21, OutcomeCases DEF Submit
  <2> QED
    BY <1>21, <2>1, <2>2 DEF Submit, LeaseFree, Abs!Accept
<1>22. ASSUME NEW k \in Jobs, Rollback(k) PROVE Abs!Withdraw(k)
  <2>1. [j \in Jobs |-> OutcomeOf(status[j])]' = [[j \in Jobs |-> OutcomeOf(status[j])] EXCEPT ![k] = "none"]
    BY <1>22, OutcomeUpdate, OutcomeCases DEF Rollback
  <2>2. OutcomeOf(status[k]) = "open" /\ k \notin cancelReq
    BY <1>22, OutcomeCases DEF Rollback, IInv, RowInv, Active
  <2> QED
    BY <1>22, <2>1, <2>2 DEF Rollback, Released, Abs!Withdraw
<1>23. ASSUME NEW k \in Jobs, Cancel(k) PROVE Abs!RequestCancel(k)
  BY <1>23, OutcomeCases DEF Cancel, Abs!RequestCancel
<1>24. ASSUME NEW k \in Jobs, Publish(k) \/ FailPartial(k) \/ Terminate(k) PROVE Abs!Conclude(k)
  <2>1. PICK o \in Terminal : status' = [status EXCEPT ![k] = o] /\ (o = "succeeded" => k \notin cancelReq)
    BY <1>24 DEF Publish, FailPartial, Terminate, IInv, RowInv, Terminal
  <2>2. [j \in Jobs |-> OutcomeOf(status[j])]' = [[j \in Jobs |-> OutcomeOf(status[j])] EXCEPT ![k] = o]
    BY <2>1, OutcomeUpdate, OutcomeCases
  <2>3. OutcomeOf(status[k]) = "open"
    BY <1>24, OutcomeCases DEF Publish, FailPartial, Terminate, IInv, RowInv
  <2>4. UNCHANGED <<cancelReq, lock, phase>>
    BY <1>24 DEF Publish, FailPartial, Terminate
  <2> QED
    BY <2>1, <2>2, <2>3, <2>4 DEF Abs!Conclude, Terminal
<1>25. ASSUME NEW p \in Profiles, TakeProfile(p) PROVE Abs!TakeProfile(p)
  BY <1>25 DEF TakeProfile, Abs!TakeProfile
<1>26. ASSUME NEW p \in Profiles, GiveProfileBack(p) PROVE Abs!GiveProfileBack(p)
  BY <1>26 DEF GiveProfileBack, Abs!GiveProfileBack
<1>27. ASSUME NEW k \in Jobs, ReleaseLease(k) PROVE Abs!ReturnLease(k) \/ UNCHANGED Abs!vars
  <2>1. CASE lock[ProfileOf[k]] = k
    <3>1. OutcomeOf(status[k]) # "open" \/ k \in cancelReq \/ phase # "up"
      BY <1>27, OutcomeCases DEF ReleaseLease, IInv, RowInv, Terminal
    <3> QED
      BY <1>27, <2>1, <3>1 DEF ReleaseLease, Released, Abs!ReturnLease
  <2>2. CASE lock[ProfileOf[k]] # k
    <3>1. lock' = lock
      BY <1>27, <2>2 DEF ReleaseLease, Released
    <3> QED
      BY <1>27, <3>1 DEF ReleaseLease
  <2> QED
    BY <2>1, <2>2
<1>28. ASSUME NEW k \in Jobs, Claim(k) PROVE UNCHANGED Abs!vars
  BY <1>28, OutcomeStays DEF Claim, Active
<1>29. ASSUME NEW k \in Jobs, Prepare(k) PROVE UNCHANGED Abs!vars
  <2>1. status[k] \in Active
    BY <1>29 DEF Prepare, CancelRequested, IInv, RowInv
  <2> QED
    BY <1>29, <2>1, OutcomeStays DEF Prepare, CancelRequested, Active
<1>30. ASSUME NEW k \in Jobs, PickStrategy(k) PROVE UNCHANGED Abs!vars
  <2>1. status[k] \in Active
    BY <1>30 DEF PickStrategy, CancelRequested, IInv, RowInv
  <2> QED
    BY <1>30, <2>1, OutcomeStays DEF PickStrategy, CancelRequested, Active
<1>31. ASSUME NEW k \in Jobs, StartMedia(k) PROVE UNCHANGED Abs!vars
  <2>1. status[k] \in Active
    BY <1>31 DEF StartMedia, CancelRequested, IInv, RowInv
  <2> QED
    BY <1>31, <2>1, OutcomeStays DEF StartMedia, CancelRequested, Active
<1>32. ASSUME BeginShutdown \/ Crash PROVE Abs!Stop
  BY <1>32 DEF BeginShutdown, Crash, Abs!Stop
<1>33. ASSUME Recover PROVE Abs!Restart
  <2>1. \A j \in Jobs : OutcomeOf(status[j]) = "open" <=> status[j] \in Active
    BY OutcomeCases DEF Status, Active, Terminal
  <2>2. \A j \in Jobs : OutcomeOf(status'[j]) = IF OutcomeOf(status[j]) = "open" THEN "failed" ELSE OutcomeOf(status[j])
    BY <1>33, <2>1, OutcomeCases DEF Recover, Unfinished, Terminal
  <2> QED
    BY <1>33, <2>2 DEF Recover, Abs!Restart
<1>34. ASSUME Serve PROVE Abs!Serve
  <2>1. \A j \in Jobs : OutcomeOf(status[j]) # "open"
    BY <1>34, OutcomeCases DEF Serve, IInv, DownInv, Status, Active, Terminal
  <2> QED
    BY <1>34, <2>1 DEF Serve, Abs!Serve, IInv, DownInv
<1>35. ASSUME NEW k \in Jobs, Age(k) PROVE UNCHANGED Abs!vars
  BY <1>35 DEF Age
<1>36. ASSUME NEW k \in Jobs, Unwind(k) PROVE UNCHANGED Abs!vars
  BY <1>36 DEF Unwind
<1>37. ASSUME NEW k \in Jobs, Unwound(k) PROVE UNCHANGED Abs!vars
  BY <1>37 DEF Unwound
<1>38. CASE UNCHANGED vars
  BY <1>38 DEF vars
<1> QED
  BY <1>1, <1>2, <1>3, <1>4, <1>5, <1>6, <1>7, <1>8, <1>9, <1>10, <1>11, <1>12, <1>13, <1>14,
     <1>15, <1>16, <1>17, <1>18, <1>19, <1>20, <1>21, <1>22, <1>23, <1>24, <1>25, <1>26, <1>27,
     <1>28, <1>29, <1>30, <1>31, <1>32, <1>33, <1>34, <1>35, <1>36, <1>37, <1>38 DEF Next, Clients, Process,
     Segments, Wakeups, Abs!Next

\* The job manager implements the contract the application relies on.
THEOREM ImplementsContract == Spec => Contract
<1>1. Init => Abs!Init
  BY OutcomeCases DEF Init, Abs!Init
<1>2. TypeOK /\ TypeOK' /\ IInv /\ [Next]_vars => [Abs!Next]_(Abs!vars)
  BY ContractStep
<1> QED
  BY <1>1, <1>2, Invariant, TypeCorrect, PTL DEF Spec, Contract, Abs!Spec

-----------------------------------------------------------------------------
(* What a succeeded job serves.                                              *)

\* The directory and the rows as the runner, its media worker, the cleanup and the
\* recovery leave them for one another: why nothing writes into the directory of a
\* success that its rows do not describe.
ServedInv ==
    \A j \in Jobs :
        /\ media[j] \notin {"none", "running"} => Awaited(j)
        /\ media[j] = "ok" => disk[j] = "success"
        /\ pc[j] \in {"save", "publish"} => disk[j] = "success"
        /\ pc[j] = "publish" => saved[j] = "success" /\ j \in audio
        /\ pc[j] \in {"save", "publish", "partial"} => media[j] = "none"
        /\ pc[j] = "save_partial" => status[j] = "failed"
        /\ pc[j] = "report" => status[j] # "succeeded"
        /\ status[j] = "succeeded" =>
               pc[j] \in {"release", "done", "none"} /\ media[j] = "none" /\ j \notin unreported
        /\ j \in unreported => phase = "recovering"
        /\ j \in swept => phase \notin {"down", "recovering"} /\ j \in expired /\ disk[j] = "none"
        /\ j \in expired =>
               /\ status[j] \in Terminal /\ pc[j] = "none"
               /\ media[j] = "none" /\ j \notin unreported

\* Every step keeps the directory of a success as its rows describe it.
LEMMA ServedStep ==
    ASSUME TypeOK, TypeOK', IInv, ServedInv, SuccessIsServed, [Next]_vars
    PROVE  ServedInv' /\ SuccessIsServed'
<1> USE JobsAssumption DEF IInv, DownInv, RowInv, ServedInv, SuccessIsServed, Awaited, TypeOK, Status,
        Terminal, Active, PC, Waiting, Segment, rowVars, artVars, taskVars, hostVars, Continue,
        Suspend, Resume
<1>1. ASSUME NEW j \in Jobs, Submit(j) PROVE ServedInv' /\ SuccessIsServed'
  BY <1>1 DEF Submit, LeaseFree
<1>2. ASSUME NEW j \in Jobs, Cancel(j) PROVE ServedInv' /\ SuccessIsServed'
  BY <1>2 DEF Cancel, CancelTargets, CancelTasks
<1>3. ASSUME NEW l \in Lookups, StartLookup(l) PROVE ServedInv' /\ SuccessIsServed'
  BY <1>3 DEF StartLookup
<1>4. ASSUME NEW l \in Lookups, EndLookup(l) PROVE ServedInv' /\ SuccessIsServed'
  BY <1>4 DEF EndLookup
<1>5. ASSUME NEW p \in Profiles, TakeProfile(p) PROVE ServedInv' /\ SuccessIsServed'
  BY <1>5 DEF TakeProfile
<1>6. ASSUME NEW p \in Profiles, GiveProfileBack(p) PROVE ServedInv' /\ SuccessIsServed'
  BY <1>6 DEF GiveProfileBack
<1>7. CASE BeginShutdown
  BY <1>7 DEF BeginShutdown, CancelTasks
<1>8. CASE GraceExpires
  BY <1>8 DEF GraceExpires, CancelTasks
<1>9. CASE Crash
  BY <1>9 DEF Crash
<1>10. CASE Recover
  BY <1>10 DEF Recover, Unfinished
<1>11. CASE Serve
  BY <1>11 DEF Serve
<1>12. CASE CleanupForget
  BY <1>12 DEF CleanupForget
<1>13. ASSUME NEW j \in Jobs, ReportRecovered(j) PROVE ServedInv' /\ SuccessIsServed'
  BY <1>13 DEF ReportRecovered, WriteFailureArtifacts
<1>14. ASSUME NEW j \in Jobs, CleanupRemove(j) PROVE ServedInv' /\ SuccessIsServed'
  BY <1>14 DEF CleanupRemove, Expired
<1>15. ASSUME NEW j \in Jobs, CreateTask(j) PROVE ServedInv' /\ SuccessIsServed'
  BY <1>15 DEF CreateTask
<1>16. ASSUME NEW j \in Jobs, Rollback(j) PROVE ServedInv' /\ SuccessIsServed'
  BY <1>16 DEF Rollback, Released
<1>17. ASSUME NEW j \in Jobs, Prepare(j) PROVE ServedInv' /\ SuccessIsServed'
  BY <1>17 DEF Prepare, CancelRequested
<1>18. ASSUME NEW j \in Jobs, PickStrategy(j) PROVE ServedInv' /\ SuccessIsServed'
  BY <1>18 DEF PickStrategy, CancelRequested
<1>19. ASSUME NEW j \in Jobs, StartMedia(j) PROVE ServedInv' /\ SuccessIsServed'
  BY <1>19 DEF StartMedia, CancelRequested
<1>20. ASSUME NEW j \in Jobs, Terminate(j) PROVE ServedInv' /\ SuccessIsServed'
  BY <1>20 DEF Terminate
<1>21. ASSUME NEW j \in Jobs, Report(j) PROVE ServedInv' /\ SuccessIsServed'
  BY <1>21 DEF Report, WriteFailureArtifacts
<1>22. ASSUME NEW j \in Jobs, SaveArtifacts(j) PROVE ServedInv' /\ SuccessIsServed'
  BY <1>22 DEF SaveArtifacts
<1>23. ASSUME NEW j \in Jobs, Publish(j) PROVE ServedInv' /\ SuccessIsServed'
  BY <1>23 DEF Publish
<1>24. ASSUME NEW j \in Jobs, FailPartial(j) PROVE ServedInv' /\ SuccessIsServed'
  BY <1>24 DEF FailPartial
<1>25. ASSUME NEW j \in Jobs, SavePartial(j) PROVE ServedInv' /\ SuccessIsServed'
  BY <1>25 DEF SavePartial
<1>26. ASSUME NEW j \in Jobs, ReleaseLease(j) PROVE ServedInv' /\ SuccessIsServed'
  BY <1>26 DEF ReleaseLease, Released
<1>27. ASSUME NEW j \in Jobs, Claim(j) PROVE ServedInv' /\ SuccessIsServed'
  BY <1>27 DEF Claim
<1>28. ASSUME NEW j \in Jobs, DropUnstarted(j) PROVE ServedInv' /\ SuccessIsServed'
  BY <1>28 DEF DropUnstarted
<1>29. ASSUME NEW j \in Jobs, MediaReturns(j) PROVE ServedInv' /\ SuccessIsServed'
  <2>1. AfterMedia(j, media[j]) \in {"save", "partial", "fail", "cancel"}
    BY <1>29 DEF MediaReturns, AfterMedia, CancelRequested
  <2>2. AfterMedia(j, media[j]) = "save" => media[j] = "ok"
    BY <1>29 DEF MediaReturns, AfterMedia, CancelRequested
  <2> QED
    BY <1>29, <2>1, <2>2 DEF MediaReturns
<1>30. ASSUME NEW j \in Jobs, Interrupted(j) PROVE ServedInv' /\ SuccessIsServed'
  BY <1>30 DEF Interrupted
<1>31. ASSUME NEW j \in Jobs, Settled(j) PROVE ServedInv' /\ SuccessIsServed'
  BY <1>31 DEF Settled, AfterSettle
<1>32. ASSUME NEW j \in Jobs, SettleExpires(j) PROVE ServedInv' /\ SuccessIsServed'
  BY <1>32 DEF SettleExpires, AfterSettle
<1>33. ASSUME NEW j \in Jobs, SettleInterrupted(j) PROVE ServedInv' /\ SuccessIsServed'
  BY <1>33 DEF SettleInterrupted
<1>34. ASSUME NEW j \in Jobs, TaskDone(j) PROVE ServedInv' /\ SuccessIsServed'
  BY <1>34 DEF TaskDone
<1>35. ASSUME NEW j \in Jobs, Worker(j) PROVE ServedInv' /\ SuccessIsServed'
  BY <1>35 DEF Worker, WorkerWrites, WorkerFails, WorkerStops, CancelRequested, WorkerEnds
<1>36. ASSUME NEW j \in Jobs, StrategyReturns(j) PROVE ServedInv' /\ SuccessIsServed'
  BY <1>36 DEF StrategyReturns, CancelRequested
<1>37. ASSUME NEW j \in Jobs, TimeLimit(j) PROVE ServedInv' /\ SuccessIsServed'
  BY <1>37 DEF TimeLimit, TimeLimited
<1>38. ASSUME NEW j \in Jobs, Age(j) PROVE ServedInv' /\ SuccessIsServed'
  BY <1>38 DEF Age
<1>39. ASSUME NEW j \in Jobs, Unwind(j) PROVE ServedInv' /\ SuccessIsServed'
  BY <1>39 DEF Unwind
<1>40. ASSUME NEW j \in Jobs, Unwound(j) PROVE ServedInv' /\ SuccessIsServed'
  BY <1>40 DEF Unwound
<1>41. CASE UNCHANGED vars
  BY <1>41 DEF vars
<1> QED
  BY <1>1, <1>2, <1>3, <1>4, <1>5, <1>6, <1>7, <1>8, <1>9, <1>10, <1>11, <1>12, <1>13, <1>14,
     <1>15, <1>16, <1>17, <1>18, <1>19, <1>20, <1>21, <1>22, <1>23, <1>24, <1>25, <1>26, <1>27,
     <1>28, <1>29, <1>30, <1>31, <1>32, <1>33, <1>34, <1>35, <1>36, <1>37, <1>38, <1>39, <1>40, <1>41
     DEF Next,
     Clients, Process, Segments, Wakeups

\* A succeeded job keeps its directory, manifest and audio as its rows describe them
\* until its retention has passed, and its rows until the directory is gone: no late
\* worker, recovery, failure report, or half finished cleanup comes between.
THEOREM SuccessesAreServed == Spec => []SuccessIsServed
<1>1. Init => ServedInv /\ SuccessIsServed
  BY DEF Init, ServedInv, SuccessIsServed
<1>2. TypeOK /\ TypeOK' /\ IInv /\ (ServedInv /\ SuccessIsServed) /\ [Next]_vars =>
        (ServedInv /\ SuccessIsServed)'
  BY ServedStep
<1> QED
  BY <1>1, <1>2, Invariant, TypeCorrect, PTL DEF Spec

-----------------------------------------------------------------------------
(* The admission budget.                                                     *)

\* The work counted by the budget shrinks or stays.
NoNewWork == Tasks' \subseteq Tasks /\ lookups' \subseteq lookups

\* Only an admitted job and an admitted lookup add to the work in progress, one unit
\* each, and only below the budget.
LEMMA WorkStep ==
    ASSUME TypeOK, [Next]_vars
    PROVE  \/ NoNewWork
           \/ /\ HeavyWork < MaxActive
              /\ \/ \E j \in Jobs : Tasks' \subseteq Tasks \cup {j} /\ lookups' = lookups
                 \/ \E l \in Lookups : Tasks' = Tasks /\ lookups' = lookups \cup {l}
<1> USE DEF NoNewWork, Tasks, TypeOK, rowVars, artVars, taskVars, hostVars, Continue, Suspend, Resume
<1>1. ASSUME NEW j \in Jobs, Submit(j)
      PROVE  /\ HeavyWork < MaxActive
             /\ Tasks' \subseteq Tasks \cup {j} /\ lookups' = lookups
  BY <1>1 DEF Submit
<1>2. ASSUME NEW l \in Lookups, StartLookup(l)
      PROVE  /\ HeavyWork < MaxActive
             /\ Tasks' = Tasks /\ lookups' = lookups \cup {l}
  BY <1>2 DEF StartLookup
<1>3. ASSUME NEW j \in Jobs, Cancel(j) PROVE NoNewWork
  BY <1>3 DEF Cancel
<1>4. ASSUME NEW l \in Lookups, EndLookup(l) PROVE NoNewWork
  BY <1>4 DEF EndLookup
<1>5. ASSUME NEW p \in Profiles, TakeProfile(p) \/ GiveProfileBack(p) PROVE NoNewWork
  BY <1>5 DEF TakeProfile, GiveProfileBack
<1>6. CASE BeginShutdown \/ GraceExpires
  BY <1>6 DEF BeginShutdown, GraceExpires
<1>7. CASE Crash
  BY <1>7 DEF Crash
<1>8. CASE Recover \/ Serve \/ CleanupForget
  BY <1>8 DEF Recover, Serve, CleanupForget
<1>9. ASSUME NEW j \in Jobs, ReportRecovered(j) \/ Age(j) \/ CleanupRemove(j) PROVE NoNewWork
  BY <1>9 DEF ReportRecovered, Age, CleanupRemove
<1>10. ASSUME NEW j \in Jobs, CreateTask(j) \/ Rollback(j) PROVE NoNewWork
  BY <1>10 DEF CreateTask, Rollback
<1>11. ASSUME NEW j \in Jobs, Prepare(j) \/ PickStrategy(j) \/ StartMedia(j) PROVE NoNewWork
  BY <1>11 DEF Prepare, PickStrategy, StartMedia
<1>12. ASSUME NEW j \in Jobs, Terminate(j) \/ Report(j) PROVE NoNewWork
  BY <1>12 DEF Terminate, Report
<1>13. ASSUME NEW j \in Jobs, SaveArtifacts(j) \/ Publish(j) \/ FailPartial(j) \/ SavePartial(j)
       PROVE  NoNewWork
  BY <1>13 DEF SaveArtifacts, Publish, FailPartial, SavePartial
<1>14. ASSUME NEW j \in Jobs, ReleaseLease(j) \/ Claim(j) \/ DropUnstarted(j) PROVE NoNewWork
  BY <1>14 DEF ReleaseLease, Claim, DropUnstarted
<1>15. ASSUME NEW j \in Jobs, MediaReturns(j) \/ Interrupted(j) \/ Unwind(j) \/ Unwound(j)
       PROVE  NoNewWork
  BY <1>15 DEF MediaReturns, Interrupted, Unwind, Unwound
<1>16. ASSUME NEW j \in Jobs, Settled(j) \/ SettleExpires(j) \/ SettleInterrupted(j) PROVE NoNewWork
  BY <1>16 DEF Settled, SettleExpires, SettleInterrupted
<1>17. ASSUME NEW j \in Jobs, TaskDone(j) \/ TimeLimit(j) PROVE NoNewWork
  BY <1>17 DEF TaskDone, TimeLimit
<1>18. ASSUME NEW j \in Jobs, Worker(j) PROVE NoNewWork
  BY <1>18 DEF Worker, WorkerWrites, WorkerFails, WorkerStops, WorkerEnds
<1>19. ASSUME NEW j \in Jobs, StrategyReturns(j) PROVE NoNewWork
  BY <1>19 DEF StrategyReturns
<1>20. CASE UNCHANGED vars
  BY <1>20 DEF vars
<1> QED
  BY <1>1, <1>2, <1>3, <1>4, <1>5, <1>6, <1>7, <1>8, <1>9, <1>10, <1>11, <1>12, <1>13, <1>14,
     <1>15, <1>16, <1>17, <1>18, <1>19, <1>20 DEF Next, Clients, Process, Segments, Wakeups

\* The work in progress is finite whatever the number of job ids, and within the budget.
WithinBudget == IsFiniteSet(Tasks) /\ IsFiniteSet(lookups) /\ CapacityBound

\* One more member counts at most one more.
LEMMA OneMore ==
    ASSUME NEW S, NEW T, NEW x, IsFiniteSet(S), T \subseteq S \cup {x}
    PROVE  /\ IsFiniteSet(T)
           /\ Cardinality(S) \in Nat /\ Cardinality(T) \in Nat
           /\ Cardinality(T) <= Cardinality(S) + 1
<1>1. IsFiniteSet(S \cup {x}) /\ Cardinality(S \cup {x}) \in Nat /\ Cardinality(S) \in Nat
  BY FS_AddElement, FS_CardinalityType
<1>2. Cardinality(S \cup {x}) <= Cardinality(S) + 1
  BY <1>1, FS_AddElement
<1>3. IsFiniteSet(T) /\ Cardinality(T) <= Cardinality(S \cup {x})
  BY <1>1, FS_Subset
<1>4. Cardinality(T) \in Nat
  BY <1>3, FS_CardinalityType
<1> QED
  BY <1>1, <1>2, <1>3, <1>4

\* A step that adds at most one unit of work, below the budget, stays within it.
LEMMA BudgetStep ==
    ASSUME TypeOK, WithinBudget, [Next]_vars
    PROVE  WithinBudget'
<1>0. /\ IsFiniteSet(Tasks) /\ Cardinality(Tasks) \in Nat
      /\ IsFiniteSet(lookups) /\ Cardinality(lookups) \in Nat
      /\ Cardinality(Tasks) + Cardinality(lookups) <= MaxActive
      /\ MaxActive \in Nat
  BY FS_CardinalityType, JobsAssumption DEF WithinBudget, CapacityBound
<1>1. CASE NoNewWork
  <2>1. IsFiniteSet(Tasks') /\ Cardinality(Tasks') <= Cardinality(Tasks)
    BY <1>0, <1>1, FS_Subset DEF NoNewWork
  <2>2. IsFiniteSet(lookups') /\ Cardinality(lookups') <= Cardinality(lookups)
    BY <1>0, <1>1, FS_Subset DEF NoNewWork
  <2>3. Cardinality(Tasks') \in Nat /\ Cardinality(lookups') \in Nat
    BY <2>1, <2>2, FS_CardinalityType
  <2> QED
    BY <1>0, <2>1, <2>2, <2>3 DEF WithinBudget, CapacityBound
<1>2. ASSUME HeavyWork < MaxActive, NEW j \in Jobs, Tasks' \subseteq Tasks \cup {j}, lookups' = lookups
      PROVE  WithinBudget'
  <2>1. IsFiniteSet(Tasks') /\ Cardinality(Tasks') \in Nat /\ Cardinality(Tasks') <= Cardinality(Tasks) + 1
    BY <1>0, <1>2, OneMore
  <2> QED
    BY <1>0, <1>2, <2>1 DEF HeavyWork, WithinBudget, CapacityBound
<1>3. ASSUME HeavyWork < MaxActive, NEW l \in Lookups, Tasks' = Tasks, lookups' = lookups \cup {l}
      PROVE  WithinBudget'
  <2>1. /\ IsFiniteSet(lookups') /\ Cardinality(lookups') \in Nat
        /\ Cardinality(lookups') <= Cardinality(lookups) + 1
    BY <1>0, <1>3, OneMore
  <2> QED
    BY <1>0, <1>3, <2>1 DEF HeavyWork, WithinBudget, CapacityBound
<1> QED
  BY <1>1, <1>2, <1>3, WorkStep

\* Jobs and lookups together never exceed MAX_ACTIVE_JOBS: the admission test and the
\* insertion are one segment of the loop, and a task counts until its callback has run.
THEOREM CapacityRespected == Spec => []CapacityBound
<1>1. Init => WithinBudget
  <2> SUFFICES ASSUME Init PROVE WithinBudget
    OBVIOUS
  <2>1. Tasks = {} /\ lookups = {}
    BY DEF Init, Tasks
  <2> QED
    BY <2>1, FS_EmptySet, JobsAssumption DEF WithinBudget, CapacityBound
<1>2. TypeOK /\ WithinBudget /\ [Next]_vars => WithinBudget'
  BY BudgetStep
<1>3. WithinBudget => CapacityBound
  BY DEF WithinBudget
<1> QED
  BY <1>1, <1>2, <1>3, TypeCorrect, PTL DEF Spec
=============================================================================
