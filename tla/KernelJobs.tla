----------------------------- MODULE KernelJobs -----------------------------
(***************************************************************************)
(* The kernel's job manager: admission, the run_job coroutine, the media   *)
(* worker thread, explicit cancellation, the total time limit, graceful    *)
(* shutdown, crash, startup recovery and artifact cleanup                  *)
(* (kernel/app/job_manager.py, routers/jobs.py, main.py).                  *)
(*                                                                         *)
(* One asyncio loop runs every coroutine.  Code between two awaits runs    *)
(* without another coroutine in between, but it commits several database   *)
(* transactions; `loop' names the job whose segment is in progress, and a  *)
(* crash, the worker threads and the cleanup thread interleave with the    *)
(* single commits of a segment.                                            *)
(***************************************************************************)
EXTENDS Integers, FiniteSets

CONSTANTS
    Jobs,         \* job ids clients may submit
    Profiles,     \* login profiles
    ProfileOf,    \* the profile each job names
    Bound,        \* jobs of a profile-bound source (Bilibili): they lease the profile
    Lookups,      \* Douyin metadata lookups sharing the admission budget
    MaxActive,    \* settings.max_active_jobs
    MaxTries,     \* longest strategy order a request may ask for
    MayStraggle,  \* may a cancelled media worker outlive the ten second drain?
    NoJob,        \* "nobody": an empty active_job_id, an idle loop
    Mutator       \* a credential operation (login, logout, import) holding a profile

ASSUME JobsAssumption ==
    /\ ProfileOf \in [Jobs -> Profiles]
    /\ Bound \subseteq Jobs
    /\ MaxActive \in Nat \ {0}
    /\ MaxTries \in Nat \ {0}
    /\ MayStraggle \in BOOLEAN
    /\ NoJob \notin Jobs
    /\ Mutator \notin Jobs
    /\ Mutator # NoJob

VARIABLES
    \* tables jobs and profiles
    status,       \* jobs.status, or "absent" when there is no row
    cancelReq,    \* jobs whose cancel_requested column is set
    lock,         \* profiles.active_job_id
    \* table artifacts and the job directory
    audio,        \* jobs with rows for raw/m4a/wav files
    saved,        \* which report, metadata and manifest the rows describe
    disk,         \* which of them the job directory holds, "torn" once partly removed
    \* the runner tasks
    pc,           \* where run_job of each job stands; "none" = no task
    left,         \* strategies still to try
    intr,         \* interruption pending on the task, or being unwound by its strategy
    unlimited,    \* jobs whose time limit has fired in vain
    loop,         \* the job whose loop segment is in progress, or NoJob
    media,        \* the media worker thread of each job
    \* the process
    phase,        \* lifecycle of the kernel process
    lookups,      \* lookups in progress (_active_lookups)
    expired,      \* terminal jobs whose retention has passed
    swept,        \* jobs whose directory the running cleanup has removed
    unreported    \* jobs recovery failed but has not reported yet

rowVars  == <<status, cancelReq, lock>>
artVars  == <<audio, saved, disk>>
taskVars == <<pc, left, intr, unlimited, loop>>
hostVars == <<phase, lookups, expired, swept, unreported>>
vars     == <<rowVars, artVars, taskVars, media, hostVars>>

Terminal == {"succeeded", "failed", "cancelled"}
Active   == {"queued", "validating_profile", "preparing_context", "running", "processing_media"}
Status   == Terminal \cup Active \cup {"absent"}

Waiting  == {"strategy", "unwinding", "media", "settle_cancel", "settle_fail"}   \* in an await
Segment  == {"mkdir", "claimed", "pick", "won", "save", "publish", "partial", "save_partial",
             "cancel", "fail", "report", "release"}                 \* inside a segment
PC       == Waiting \cup Segment \cup {"none", "new", "done"}
Owning   == PC \ {"none", "done"}          \* the task has not given its lease back

TypeOK ==
    /\ status \in [Jobs -> Status]
    /\ cancelReq \subseteq Jobs
    /\ lock \in [Profiles -> Jobs \cup {NoJob, Mutator}]
    /\ audio \subseteq Jobs
    /\ saved \in [Jobs -> {"none", "success", "partial", "failure"}]
    /\ disk \in [Jobs -> {"none", "success", "partial", "failure", "torn"}]
    /\ pc \in [Jobs -> PC]
    /\ left \in [Jobs -> 0..MaxTries]
    /\ intr \in [Jobs -> {"none", "timeout", "cancel"}]
    /\ unlimited \subseteq Jobs
    /\ loop \in Jobs \cup {NoJob}
    /\ media \in [Jobs -> {"none", "running", "ok", "missing", "error", "cancelled"}]
    /\ phase \in {"up", "draining", "exiting", "down", "recovering"}
    /\ lookups \subseteq Lookups
    /\ expired \subseteq Jobs
    /\ swept \subseteq Jobs
    /\ unreported \subseteq Jobs

Init ==
    /\ status = [j \in Jobs |-> "absent"]
    /\ cancelReq = {}
    /\ lock = [p \in Profiles |-> NoJob]
    /\ audio = {}
    /\ saved = [j \in Jobs |-> "none"]
    /\ disk = [j \in Jobs |-> "none"]
    /\ pc = [j \in Jobs |-> "none"]
    /\ left = [j \in Jobs |-> 0]
    /\ intr = [j \in Jobs |-> "none"]
    /\ unlimited = {}
    /\ loop = NoJob
    /\ media = [j \in Jobs |-> "none"]
    /\ phase = "up"
    /\ lookups = {}
    /\ expired = {}
    /\ swept = {}
    /\ unreported = {}

-----------------------------------------------------------------------------
(* Helpers                                                                 *)

\* _job_tasks: tasks not yet discarded by their done callback.
Tasks == {j \in Jobs : pc[j] # "none"}

\* Mutant: lookups are not counted against the budget.
HeavyWorkWithoutLookups == Cardinality(Tasks)

\* heavy_work_in_progress()
HeavyWork == Cardinality(Tasks) + Cardinality(lookups)

\* Mutant: the lease of another job is taken over.
LeaseIgnored(j) == TRUE

\* The WHERE clause of the lease: only an empty active_job_id is replaced.
LeaseFree(j) == j \in Bound => lock[ProfileOf[j]] = NoJob

\* Mutant: active_job_id is cleared whoever holds it.
ReleasedBlindly(j) == [lock EXCEPT ![ProfileOf[j]] = NoJob]

\* release_profile_lock: frees the profile only when the caller still holds it.
Released(j) ==
    [lock EXCEPT ![ProfileOf[j]] = IF @ = j THEN NoJob ELSE @]

\* Mutant: one strategy more than was asked for.
StrategyLeftOffByOne(j) == left[j] >= 0

\* for strategy_name in order: another strategy remains.
StrategyLeft(j) == left[j] > 0

\* Mutant: the time limit covers the strategies only.
TimeLimitedStrategiesOnly(j) == pc[j] = "strategy"

\* Awaits inside `async with asyncio.timeout(...)'.
TimeLimited(j) == pc[j] \in {"strategy", "media"}

\* Mutant: the flag is never read.
CancelOverlooked(j) == FALSE

\* _cancel_requested: the flag in the job's row.
CancelRequested(j) == j \in cancelReq

\* Mutant: a queued job's unstarted task is cancelled like any other.
CancelsUnstarted(j) == {j}

\* cancel_job cancels the task of every job that is not queued: an unstarted
\* coroutine would skip its finally block and leak the lease.
CancelTargets(j) == IF status[j] = "queued" THEN {} ELSE {j}

\* Mutant: queued rows are left for a runner that no longer exists.
UnfinishedButQueued == {j \in Jobs : status[j] \in Active \ {"queued"}}

\* Rows recovery finds outside the terminal states.
Unfinished == {j \in Jobs : status[j] \in Active}

\* The segment of j goes on at `next'.
Continue(j, next) ==
    /\ pc' = [pc EXCEPT ![j] = next]
    /\ loop' = j

\* The segment of j ends and its task waits, or is finished, at `next'.
Suspend(j, next) ==
    /\ pc' = [pc EXCEPT ![j] = next]
    /\ loop' = NoJob

\* The task of j is scheduled again: a new segment starts at `next'.
Resume(j, next) ==
    /\ loop = NoJob
    /\ Continue(j, next)

\* asyncio.Task.cancel() on every task of S that is suspended or unstarted.
CancelTasks(S) ==
    intr' = [j \in Jobs |-> IF j \in S /\ pc[j] \in Waiting \cup {"new"} THEN "cancel" ELSE intr[j]]

-----------------------------------------------------------------------------
(* Admission: POST /v1/jobs                                                *)

\* A new job id below capacity: the row and the lease are one transaction.  A
\* repeated id, a full kernel, a leased profile and a foreign owner are answered
\* without a state change.  create_job does not look at profile readers.
Submit(j) ==
    /\ phase = "up" /\ loop = NoJob
    /\ status[j] = "absent"
    /\ HeavyWork < MaxActive
    /\ LeaseFree(j)
    /\ status' = [status EXCEPT ![j] = "queued"]
    /\ lock' = IF j \in Bound THEN [lock EXCEPT ![ProfileOf[j]] = j] ELSE lock
    /\ \E n \in 1..MaxTries : left' = [left EXCEPT ![j] = n]
    /\ Continue(j, "mkdir")
    /\ UNCHANGED <<cancelReq, artVars, intr, unlimited, media, hostVars>>

\* target_dir.mkdir() succeeds and submit_job creates the runner task.
CreateTask(j) ==
    /\ pc[j] = "mkdir"
    /\ Suspend(j, "new")
    /\ UNCHANGED <<rowVars, artVars, left, intr, unlimited, media, hostVars>>

\* The directory exists already or cannot be made: _rollback_created_job.
Rollback(j) ==
    /\ pc[j] = "mkdir"
    /\ status' = [status EXCEPT ![j] = "absent"]
    /\ lock' = Released(j)
    /\ Suspend(j, "none")
    /\ left' = [left EXCEPT ![j] = 0]
    /\ UNCHANGED <<cancelReq, artVars, intr, unlimited, media, hostVars>>

StartLookup(l) ==
    /\ phase = "up" /\ loop = NoJob
    /\ l \notin lookups
    /\ HeavyWork < MaxActive
    /\ lookups' = lookups \cup {l}
    /\ UNCHANGED <<rowVars, artVars, taskVars, media, phase, expired, swept, unreported>>

EndLookup(l) ==
    /\ loop = NoJob
    /\ l \in lookups
    /\ lookups' = lookups \ {l}
    /\ UNCHANGED <<rowVars, artVars, taskVars, media, phase, expired, swept, unreported>>

\* lock_profile / release_profile_lock by a credential operation.
TakeProfile(p) ==
    /\ phase = "up" /\ loop = NoJob
    /\ lock[p] = NoJob
    /\ lock' = [lock EXCEPT ![p] = Mutator]
    /\ UNCHANGED <<status, cancelReq, artVars, taskVars, media, hostVars>>

GiveProfileBack(p) ==
    /\ loop = NoJob
    /\ lock[p] = Mutator
    /\ lock' = [lock EXCEPT ![p] = NoJob]
    /\ UNCHANGED <<status, cancelReq, artVars, taskVars, media, hostVars>>

-----------------------------------------------------------------------------
(* run_job                                                                 *)

\* The conditional claim.  Nothing writes "queued" after the insert, so the
\* started_at test adds nothing to the status test.
Claim(j) ==
    /\ pc[j] = "new" /\ intr[j] = "none"
    /\ status[j] = "queued"
    /\ status' = [status EXCEPT ![j] = "validating_profile"]
    /\ Resume(j, "claimed")
    /\ UNCHANGED <<cancelReq, lock, artVars, left, intr, unlimited, media, hostVars>>

\* A task cancelled before its first step never enters the coroutine, so the
\* finally clause that returns the lease does not run either.
DropUnstarted(j) ==
    /\ pc[j] = "new" /\ intr[j] = "cancel" /\ loop = NoJob
    /\ Suspend(j, "done")
    /\ intr' = [intr EXCEPT ![j] = "none"]
    /\ left' = [left EXCEPT ![j] = 0]
    /\ UNCHANGED <<rowVars, artVars, unlimited, media, hostVars>>

Prepare(j) ==
    /\ pc[j] = "claimed"
    /\ \/ /\ CancelRequested(j)
          /\ Continue(j, "cancel")
          /\ UNCHANGED status
       \/ /\ ~CancelRequested(j)
          /\ status' = [status EXCEPT ![j] = "preparing_context"]
          /\ Continue(j, "pick")
    /\ UNCHANGED <<cancelReq, lock, artVars, left, intr, unlimited, media, hostVars>>

\* Head of the strategy loop, or the code after it once the order is exhausted;
\* a strategy that does not support the context is a failed attempt at once.
PickStrategy(j) ==
    /\ pc[j] = "pick"
    /\ \/ /\ CancelRequested(j)
          /\ Continue(j, "cancel")
          /\ UNCHANGED <<status, left>>
       \/ /\ ~CancelRequested(j) /\ ~StrategyLeft(j)
          /\ Continue(j, "fail")
          /\ UNCHANGED <<status, left>>
       \/ /\ ~CancelRequested(j) /\ StrategyLeft(j)
          /\ status' = [status EXCEPT ![j] = "running"]
          /\ \/ Suspend(j, "strategy") /\ UNCHANGED left
             \/ /\ Continue(j, "pick")
                /\ left' = [left EXCEPT ![j] = @ - 1]
    /\ UNCHANGED <<cancelReq, lock, artVars, intr, unlimited, media, hostVars>>

\* strategy.run returns: a result is recorded with its metrics and the report is
\* rewritten; an exception counts as a failed attempt, except StrategyCancelled,
\* which a strategy raises only when it has seen the cancellation flag.
StrategyReturns(j) ==
    /\ pc[j] = "strategy" /\ intr[j] = "none"
    /\ \/ Resume(j, "won") /\ UNCHANGED left
       \/ /\ Resume(j, "pick")
          /\ left' = [left EXCEPT ![j] = @ - 1]
       \/ CancelRequested(j) /\ Resume(j, "cancel") /\ UNCHANGED left
    /\ UNCHANGED <<rowVars, artVars, intr, unlimited, media, hostVars>>

StartMedia(j) ==
    /\ pc[j] = "won"
    /\ \/ /\ CancelRequested(j)
          /\ Continue(j, "cancel")
          /\ UNCHANGED <<status, media>>
       \/ /\ ~CancelRequested(j)
          /\ status' = [status EXCEPT ![j] = "processing_media"]
          /\ media' = [media EXCEPT ![j] = "running"]
          /\ Suspend(j, "media")
    /\ UNCHANGED <<cancelReq, lock, artVars, left, intr, unlimited, hostVars>>

\* Mutant: missing outputs are accepted.
AfterMediaLenient(j, outcome) ==
    CASE outcome \in {"ok", "missing"} -> IF CancelRequested(j) THEN "cancel" ELSE "save"
      [] outcome = "error"     -> "fail"
      [] outcome = "cancelled" -> "cancel"

\* What the task does with the worker's outcome after `await shield(media_task)'.
AfterMedia(j, outcome) ==
    CASE outcome = "ok"        -> IF CancelRequested(j) THEN "cancel" ELSE "save"
      [] outcome = "missing"   -> "partial"
      [] outcome = "error"     -> "fail"
      [] outcome = "cancelled" -> "cancel"

MediaReturns(j) ==
    /\ pc[j] = "media" /\ intr[j] = "none"
    /\ media[j] \notin {"none", "running"}
    /\ Resume(j, AfterMedia(j, media[j]))
    /\ media' = [media EXCEPT ![j] = "none"]
    /\ UNCHANGED <<rowVars, artVars, left, intr, unlimited, hostVars>>

\* asyncio.timeout(job_timeout_seconds) expires.  A cancel() that is already
\* pending, or that follows, wins: the timeout is then not converted.
TimeLimit(j) ==
    /\ TimeLimited(j) /\ intr[j] = "none" /\ j \notin unlimited
    /\ intr' = [intr EXCEPT ![j] = "timeout"]
    /\ UNCHANGED <<rowVars, artVars, pc, left, unlimited, loop, media, hostVars>>

\* A pending interruption is delivered to the await the strategy is suspended in.
\* The strategy then closes its browser, drains its threads and removes its files,
\* without a limit and whatever further cancels arrive meanwhile.
Unwind(j) ==
    /\ pc[j] = "strategy" /\ intr[j] # "none" /\ loop = NoJob
    /\ Suspend(j, "unwinding")
    /\ UNCHANGED <<rowVars, artVars, left, intr, unlimited, media, hostVars>>

\* The unwinding ends: the interruption reaches the except clauses of run_job, or an
\* error of the cleanup takes its place and counts as a failed attempt.  A limit that
\* has fired does not fire again.
Unwound(j) ==
    /\ pc[j] = "unwinding"
    /\ \/ /\ Resume(j, IF intr[j] = "cancel" THEN "cancel" ELSE "fail")
          /\ UNCHANGED <<left, unlimited>>
       \/ /\ Resume(j, "pick")
          /\ left' = [left EXCEPT ![j] = @ - 1]
          /\ unlimited' = IF intr[j] = "timeout" THEN unlimited \cup {j} ELSE unlimited
    /\ intr' = [intr EXCEPT ![j] = "none"]
    /\ UNCHANGED <<rowVars, artVars, media, hostVars>>

\* The interruption of the media stage reaches run_job at once, which suspends again
\* only when the worker is still running.
Interrupted(j) ==
    /\ pc[j] = "media" /\ intr[j] # "none"
    /\ loop = NoJob
    /\ IF media[j] = "running"
       THEN Suspend(j, IF intr[j] = "cancel" THEN "settle_cancel" ELSE "settle_fail")
       ELSE Continue(j, IF intr[j] = "cancel" THEN "cancel" ELSE "fail")
    /\ media' = [media EXCEPT ![j] = IF @ = "running" THEN @ ELSE "none"]
    /\ intr' = [intr EXCEPT ![j] = "none"]
    /\ UNCHANGED <<rowVars, artVars, left, unlimited, hostVars>>

AfterSettle(j) == IF pc[j] = "settle_cancel" THEN "cancel" ELSE "fail"

\* wait_for(shield(task), 10) returns because the worker has stopped ...
Settled(j) ==
    /\ pc[j] \in {"settle_cancel", "settle_fail"} /\ intr[j] = "none"
    /\ media[j] # "running"
    /\ Resume(j, AfterSettle(j))
    /\ media' = [media EXCEPT ![j] = "none"]
    /\ UNCHANGED <<rowVars, artVars, left, intr, unlimited, hostVars>>

\* ... or gives up on it after ten seconds: the worker straggles.
SettleExpires(j) ==
    /\ MayStraggle
    /\ pc[j] \in {"settle_cancel", "settle_fail"} /\ intr[j] = "none"
    /\ media[j] = "running"
    /\ Resume(j, AfterSettle(j))
    /\ UNCHANGED <<rowVars, artVars, left, intr, unlimited, media, hostVars>>

\* A second cancel() lands in the drain.  `except Exception' does not catch
\* CancelledError: the terminal transition is skipped and only finally runs.
SettleInterrupted(j) ==
    /\ pc[j] \in {"settle_cancel", "settle_fail"} /\ intr[j] = "cancel"
    /\ Resume(j, "release")
    /\ media' = [media EXCEPT ![j] = IF @ = "running" THEN @ ELSE "none"]
    /\ intr' = [intr EXCEPT ![j] = "none"]
    /\ UNCHANGED <<rowVars, artVars, left, unlimited, hostVars>>

\* _mark_cancelled and _finish_failed: the state first, then the report.
Terminate(j) ==
    /\ pc[j] \in {"cancel", "fail"}
    /\ status' = [status EXCEPT ![j] = IF pc[j] = "cancel" THEN "cancelled" ELSE "failed"]
    /\ Continue(j, "report")
    /\ UNCHANGED <<cancelReq, lock, artVars, left, intr, unlimited, media, hostVars>>

\* _write_failure_artifacts: files, then rows; either may fail, which is only logged.
WriteFailureArtifacts(j) ==
    \E written, recorded \in BOOLEAN :
        /\ recorded => written
        /\ disk' = IF written THEN [disk EXCEPT ![j] = "failure"] ELSE disk
        /\ saved' = IF recorded THEN [saved EXCEPT ![j] = "failure"] ELSE saved
        /\ UNCHANGED audio

Report(j) ==
    /\ pc[j] = "report"
    /\ WriteFailureArtifacts(j)
    /\ Continue(j, "release")
    /\ UNCHANGED <<rowVars, left, intr, unlimited, media, hostVars>>

\* _save_artifacts and the transition to succeeded are two transactions.
SaveArtifacts(j) ==
    /\ pc[j] = "save"
    /\ audio' = audio \cup {j}
    /\ saved' = [saved EXCEPT ![j] = "success"]
    /\ Continue(j, "publish")
    /\ UNCHANGED <<rowVars, disk, left, intr, unlimited, media, hostVars>>

Publish(j) ==
    /\ pc[j] = "publish"
    /\ status' = [status EXCEPT ![j] = "succeeded"]
    /\ Continue(j, "release")
    /\ UNCHANGED <<cancelReq, lock, artVars, left, intr, unlimited, media, hostVars>>

\* RequestedOutputError: failed first, then the partial artifacts, best effort.
FailPartial(j) ==
    /\ pc[j] = "partial"
    /\ status' = [status EXCEPT ![j] = "failed"]
    /\ Continue(j, "save_partial")
    /\ UNCHANGED <<cancelReq, lock, artVars, left, intr, unlimited, media, hostVars>>

SavePartial(j) ==
    /\ pc[j] = "save_partial"
    /\ \/ UNCHANGED artVars
       \/ /\ audio' = audio \cup {j}
          /\ saved' = [saved EXCEPT ![j] = "partial"]
          /\ UNCHANGED disk
    /\ Continue(j, "release")
    /\ UNCHANGED <<rowVars, left, intr, unlimited, media, hostVars>>

\* finally: release_profile_lock.
ReleaseLease(j) ==
    /\ pc[j] = "release"
    /\ lock' = Released(j)
    /\ Suspend(j, "done")
    /\ left' = [left EXCEPT ![j] = 0]
    /\ unlimited' = unlimited \ {j}
    /\ UNCHANGED <<status, cancelReq, artVars, intr, media, hostVars>>

\* _consume_task_result removes the task from _job_tasks.
TaskDone(j) ==
    /\ pc[j] = "done" /\ loop = NoJob
    /\ pc' = [pc EXCEPT ![j] = "none"]
    /\ UNCHANGED <<rowVars, artVars, left, intr, unlimited, loop, media, hostVars>>

-----------------------------------------------------------------------------
(* _process_successful_result, in its own thread                           *)

\* The task that started the worker still awaits it.
Awaited(j) == pc[j] \in {"media", "settle_cancel", "settle_fail"}

WorkerEnds(j, outcome) ==
    /\ media[j] = "running"
    /\ media' = [media EXCEPT ![j] = IF Awaited(j) THEN outcome ELSE "none"]
    /\ UNCHANGED <<rowVars, audio, saved, taskVars, hostVars>>

\* The metadata, report and manifest are written after the last cancellation
\* check, so a cancelled worker may still write them.
WorkerWrites(j) ==
    \/ WorkerEnds(j, "ok") /\ disk' = [disk EXCEPT ![j] = "success"]
    \/ WorkerEnds(j, "missing") /\ disk' = [disk EXCEPT ![j] = "partial"]

\* ffmpeg, a full disk, a missing raw file ...
WorkerFails(j) ==
    WorkerEnds(j, "error") /\ UNCHANGED disk

\* StrategyCancelled: the flag in the row or local_cancel was seen.
WorkerStops(j) ==
    /\ CancelRequested(j) \/ pc[j] # "media"
    /\ WorkerEnds(j, "cancelled")
    /\ UNCHANGED disk

-----------------------------------------------------------------------------
(* POST /v1/jobs/{id}/cancel                                               *)

\* A queued job keeps its unstarted task: the runner will see the flag.
Cancel(j) ==
    /\ phase = "up" /\ loop = NoJob
    /\ status[j] \in Active
    /\ cancelReq' = cancelReq \cup {j}
    /\ CancelTasks(CancelTargets(j))
    /\ UNCHANGED <<status, lock, artVars, pc, left, unlimited, loop, media, hostVars>>

-----------------------------------------------------------------------------
(* The process                                                             *)

\* shutdown_job_tasks cancels every task, and once more after the grace period.
BeginShutdown ==
    /\ phase = "up" /\ loop = NoJob
    /\ phase' = "draining"
    /\ CancelTasks(Jobs)
    /\ UNCHANGED <<rowVars, artVars, pc, left, unlimited, loop, media, lookups, expired, swept, unreported>>

GraceExpires ==
    /\ phase = "draining" /\ loop = NoJob
    /\ phase' = "exiting"
    /\ CancelTasks(Jobs)
    /\ UNCHANGED <<rowVars, artVars, pc, left, unlimited, loop, media, lookups, expired, swept, unreported>>

\* The process ends at any point: only the database and the files remain.
Crash ==
    /\ phase # "down"
    /\ phase' = "down"
    /\ pc' = [j \in Jobs |-> "none"]
    /\ intr' = [j \in Jobs |-> "none"]
    /\ media' = [j \in Jobs |-> "none"]
    /\ loop' = NoJob
    /\ left' = [j \in Jobs |-> 0]
    /\ unlimited' = {} /\ lookups' = {} /\ swept' = {} /\ unreported' = {}
    /\ UNCHANGED <<rowVars, artVars, expired>>

\* recover_interrupted_runtime: one transaction ...
Recover ==
    /\ phase = "down"
    /\ phase' = "recovering"
    /\ unreported' = Unfinished
    /\ status' = [j \in Jobs |-> IF j \in Unfinished THEN "failed" ELSE status[j]]
    /\ lock' = [p \in Profiles |-> NoJob]
    /\ UNCHANGED <<cancelReq, artVars, taskVars, media, lookups, expired, swept>>

\* ... then the failure artifacts of each interrupted job, best effort ...
ReportRecovered(j) ==
    /\ phase = "recovering"
    /\ j \in unreported
    /\ WriteFailureArtifacts(j)
    /\ unreported' = unreported \ {j}
    /\ UNCHANGED <<rowVars, taskVars, media, phase, lookups, expired, swept>>

\* ... and the application starts to serve.
Serve ==
    /\ phase = "recovering"
    /\ unreported = {}
    /\ phase' = "up"
    /\ UNCHANGED <<rowVars, artVars, taskVars, media, lookups, expired, swept, unreported>>

\* The retention of a terminal job passes.  It is at least an hour, far longer than
\* the job's task and a straggling worker live on.
Age(j) ==
    /\ status[j] \in Terminal /\ pc[j] = "none" /\ media[j] = "none"
    /\ j \notin expired \cup unreported
    /\ expired' = expired \cup {j}
    /\ UNCHANGED <<rowVars, artVars, taskVars, media, phase, lookups, swept, unreported>>

\* Mutant: the directory of any terminal job is removed.
ExpiredAtOnce == {j \in Jobs : status[j] \in Terminal /\ pc[j] = "none"}

\* The jobs cleanup_old_artifacts selects.
Expired == expired

\* cleanup_old_artifacts, in a thread: each directory goes file by file with errors
\* ignored, so some of it may stay; only jobs whose directory is gone are noted.
CleanupRemove(j) ==
    /\ phase = "up"
    /\ j \in Expired \ swept
    /\ j \in audio \/ saved[j] # "none" \/ disk[j] # "none"
    /\ \/ /\ disk' = [disk EXCEPT ![j] = "none"]
          /\ swept' = swept \cup {j}
       \/ /\ disk[j] # "none"
          /\ disk' = [disk EXCEPT ![j] = "torn"]
          /\ UNCHANGED swept
    /\ UNCHANGED <<rowVars, audio, saved, taskVars, media, phase, lookups, expired, unreported>>

\* The rows of all removed directories go in one transaction at the end.
CleanupForget ==
    /\ swept # {}
    /\ audio' = audio \ swept
    /\ saved' = [j \in Jobs |-> IF j \in swept THEN "none" ELSE saved[j]]
    /\ swept' = {}
    /\ UNCHANGED <<rowVars, disk, taskVars, media, phase, lookups, expired, unreported>>

-----------------------------------------------------------------------------

\* Steps of the event loop for job j.
Segments(j) ==
    \/ CreateTask(j) \/ Rollback(j) \/ Prepare(j) \/ PickStrategy(j) \/ StartMedia(j)
    \/ Terminate(j) \/ Report(j) \/ SaveArtifacts(j) \/ Publish(j)
    \/ FailPartial(j) \/ SavePartial(j) \/ ReleaseLease(j)

Wakeups(j) ==
    \/ Claim(j) \/ DropUnstarted(j) \/ Unwind(j) \/ MediaReturns(j) \/ Interrupted(j)
    \/ Settled(j) \/ SettleExpires(j) \/ SettleInterrupted(j) \/ TaskDone(j)

Worker(j) == WorkerWrites(j) \/ WorkerFails(j) \/ WorkerStops(j)

Process ==
    \/ BeginShutdown \/ GraceExpires \/ Crash \/ Recover \/ Serve \/ CleanupForget
    \/ \E j \in Jobs : ReportRecovered(j) \/ Age(j) \/ CleanupRemove(j)

Clients ==
    \/ \E j \in Jobs : Submit(j) \/ Cancel(j)
    \/ \E l \in Lookups : StartLookup(l) \/ EndLookup(l)
    \/ \E p \in Profiles : TakeProfile(p) \/ GiveProfileBack(p)

Next ==
    \/ Clients
    \/ Process
    \/ \E j \in Jobs : \/ Segments(j) \/ Wakeups(j) \/ Worker(j)
                       \/ StrategyReturns(j) \/ Unwound(j) \/ TimeLimit(j)

Spec == Init /\ [][Next]_vars

(* The loop finishes the segment it is in and runs every ready task (its     *)
(* ready queue is FIFO, hence strong fairness although other segments keep   *)
(* occupying the loop); timers fire.  Strategies, their cleanup and worker   *)
(* threads may hang for ever, clients may do nothing.                        *)
Fairness ==
    \A j \in Jobs : /\ WF_vars(Segments(j))
                    /\ SF_vars(Wakeups(j))
                    /\ WF_vars(TimeLimit(j))

FairSpec == Spec /\ Fairness

-----------------------------------------------------------------------------
(* Properties                                                              *)

\* A runner of a profile-bound job holds its profile until it gives the lease
\* back itself: no login, logout or second job touches the profile under it.
RunnerHoldsLease ==
    \A j \in Bound : pc[j] \in Owning => lock[ProfileOf[j]] = j

\* In a serving kernel a profile leased to a job is leased to a live runner:
\* rollback, failure, timeout and cancellation all return it.
NoLeakedLease ==
    phase = "up" =>
        \A p \in Profiles : lock[p] \in Jobs => pc[lock[p]] \in Owning

\* No lease is used by anyone but its holder, and none is held for nobody.
LeaseDiscipline == RunnerHoldsLease /\ NoLeakedLease

\* In a serving kernel every unfinished row has a runner, except a cancelled job
\* whose media drain was cut short by another cancel.
UnfinishedHasRunner ==
    phase = "up" =>
        \A j \in Jobs : status[j] \in Active =>
            \/ pc[j] \in Owning
            \/ j \in cancelReq /\ status[j] = "processing_media"

\* Jobs and lookups together never exceed MAX_ACTIVE_JOBS, counting a task until
\* its done callback has run.
CapacityBound == Cardinality(Tasks) + Cardinality(lookups) <= MaxActive

\* A succeeded job has its directory, with the manifest and the audio its rows
\* describe, until its retention has passed; after that at most the cleanup has
\* touched it, and the rows stay until the directory is gone.  No straggler, recovery,
\* failure report or cleanup spoils a success.
SuccessIsServed ==
    \A j \in Jobs : status[j] = "succeeded" =>
        /\ j \notin expired => disk[j] = "success"
        /\ j \notin expired \/ disk[j] # "none" =>
               disk[j] \in {"success", "torn"} /\ saved[j] = "success" /\ j \in audio

\* A terminal state is never left or replaced, not by recovery, by a late worker
\* or by a second handler of run_job.
TerminalIsFinal ==
    [][\A j \in Jobs : status[j] \in Terminal => status'[j] = status[j]]_vars

\* Once a cancel request has been accepted the job does not become a success.
CancelPreventsSuccess ==
    [][\A j \in cancelReq : status'[j] = "succeeded" => status[j] = "succeeded"]_vars

\* The job has ended, or is cancelled, and its profile is free of it; or the kernel stops.
Settles(j) ==
    \/ phase # "up"
    \/ /\ status[j] \in Terminal \/ j \in cancelReq
       /\ j \in Bound => lock[ProfileOf[j]] # j

\* The strategy of j is never done with its cleanup.
CleanupHangs(j) == <>[](pc[j] = "unwinding")

\* The limit of j was lost to a failing cleanup, and nothing bounds what follows.
LimitLost(j) == <>[](j \in unlimited /\ pc[j] \in {"strategy", "media"})

\* A started job ends, cancelled or not, and gives its profile back, even if its
\* strategy or its media worker hangs for ever: no client waits for ever for a job or
\* for a profile, unless the cleanup of the job's own strategy hangs or fails.
EverythingSettles ==
    \A j \in Jobs : CleanupHangs(j) \/ LimitLost(j) \/ (pc[j] = "new" ~> Settles(j))

\* STABILITY.md: the time limit covers all strategies and media processing, and
\* cleanup adds a short interval to it.
LimitCoversJob ==
    \A j \in Jobs :
        pc[j] = "new" ~> status[j] \in Terminal \/ j \in cancelReq \/ phase # "up"

\* STABILITY.md: media workers are drained before ordinary profile release.
MediaDrainedBeforeRelease ==
    phase = "up" =>
        \A j \in Bound : media[j] = "running" => lock[ProfileOf[j]] = j
=============================================================================
