---------------------------- MODULE ProfileLogin ----------------------------
(***************************************************************************)
(* One login profile: QR login sessions with their preparation and watcher *)
(* tasks, logout, cookie import, reader leases, audio jobs, shutdown,      *)
(* crash and recovery (kernel/app/profile_manager.py).                     *)
(*                                                                         *)
(* profiles.active_job_id is one lease for all of them.  A session is      *)
(* driven first by its preparation task, then by its watcher task; pc[s]   *)
(* is where the task that drives s stands.  As in KernelJobs, `loop' is    *)
(* whoever runs a loop segment of several transactions.  The code between  *)
(* acquiring and releasing _login_runtime_lock never awaits, so that lock  *)
(* is never contended.                                                     *)
(***************************************************************************)
EXTENDS Naturals, FiniteSets

CONSTANTS
    Sessions,     \* login sessions that may be started
    Logouts,      \* concurrent logout requests
    Imports,      \* concurrent cookie imports
    Readers,      \* concurrent reads with the profile's credentials
    MaxReaders,   \* reader leases per profile (4 in the code)
    Job,          \* an audio job, which uses the credentials as they are
    Nobody        \* no holder; an idle loop

Mutators == Sessions \cup Logouts \cup Imports    \* holders that change credentials

ASSUME LoginAssumption ==
    /\ MaxReaders \in Nat \ {0}
    /\ Job \notin Mutators
    /\ Nobody \notin Mutators \cup {Job}
    /\ Sessions \cap Logouts = {}
    /\ Sessions \cap Imports = {}
    /\ Logouts \cap Imports = {}
    /\ IsFiniteSet(Readers)

VARIABLES
    lock,       \* profiles.active_job_id
    readers,    \* rows of profile_readers
    login,      \* profiles.login_status
    session,    \* login_sessions.status, or "absent"
    creds,      \* does the profile directory hold an account's cookies?
    qr,         \* sessions whose qr.png exists
    pc,         \* the task driving each session; "none" = no task yet
    asked,      \* sessions whose task was cancelled: task.cancelling() > 0
    intr,       \* sessions whose task has a CancelledError to deliver
    open,       \* sessions whose browser or request context is open
    runtimes,   \* keys of _LOGIN_RUNTIMES
    lo,         \* where each logout request stands
    snap,       \* the sessions a logout found
    im,         \* where each import stands
    loop,       \* who is inside a loop segment
    phase       \* lifecycle of the kernel process

leaseVars == <<lock, readers>>
rowVars   == <<login, session>>
fileVars  == <<creds, qr>>
taskVars  == <<pc, asked, intr>>
memVars   == <<open, runtimes>>
reqVars   == <<lo, snap, im>>
hostVars  == <<loop, phase>>
loginVars      == <<leaseVars, rowVars, fileVars, taskVars, memVars, reqVars, hostVars>>

Preparing == {"new", "opening", "qr", "prep_closing", "prep_release", "prep_profile", "prep_session"}
Watching  == {"unstarted", "poll", "verify", "record_login", "record_expired", "record_failed",
              "invalidate", "closing"}
Ended     == {"done", "aborted"}     \* "aborted": cancelled before its cleanup could finish
SessionStatus == {"pending", "logged_in", "expired", "logged_out"}

LoginTypeOK ==
    /\ lock \in Mutators \cup {Job, Nobody}
    /\ readers \subseteq Readers
    /\ login \in {"unknown", "pending", "logged_in", "logged_out"}
    /\ session \in [Sessions -> SessionStatus \cup {"absent"}]
    /\ creds \in BOOLEAN
    /\ qr \subseteq Sessions
    /\ pc \in [Sessions -> Preparing \cup Watching \cup Ended \cup {"none"}]
    /\ asked \subseteq Sessions
    /\ intr \subseteq asked
    /\ open \subseteq Sessions
    /\ runtimes \subseteq Sessions
    /\ lo \in [Logouts -> {"idle", "waiting", "closing", "clear", "metadata", "sessions", "release"}]
    /\ snap \in [Logouts -> SUBSET Sessions]
    /\ im \in [Imports -> {"idle", "open", "written", "closing"}]
    /\ loop \in Sessions \cup Logouts \cup {Nobody}
    /\ phase \in {"up", "draining", "down", "recovering"}

LoginInit ==
    /\ lock = Nobody /\ readers = {}
    /\ login = "unknown" /\ session = [s \in Sessions |-> "absent"]
    /\ creds = FALSE /\ qr = {}
    /\ pc = [s \in Sessions |-> "none"] /\ asked = {} /\ intr = {}
    /\ open = {} /\ runtimes = {}
    /\ lo = [l \in Logouts |-> "idle"] /\ snap = [l \in Logouts |-> {}]
    /\ im = [i \in Imports |-> "idle"]
    /\ loop = Nobody /\ phase = "up"

-----------------------------------------------------------------------------
(* Helpers                                                                 *)

\* Mutant: lock_profile without the NOT EXISTS on profile_readers.
LeaseFreeOfHolders == lock = Nobody

\* The WHERE clause of lock_profile.
LeaseFree == lock = Nobody /\ readers = {}

\* Mutant: readers are admitted whoever holds the profile.
ReadableAlways == TRUE

\* acquire_profile_reader: an audio job may hold the profile, a mutator not.
Readable == lock \in {Nobody, Job}

\* release_profile_lock
Released(h) == IF lock = h THEN Nobody ELSE lock

\* Mutant: a failed preparation keeps its lease.
ReleasedByPreparationNever(s) == lock

\* The release in the except clause of _prepare_login.
ReleasedByPreparation(s) == Released(s)

\* Mutant: the lease goes back before the context has closed.
ContextClosedUnchecked(s) == TRUE

\* `await managed.close()' has drained: the context of s is closed.
ContextClosed(s) == s \notin open

\* Tasks a logout cancels: alive and not cancelled before.
CancelTargets(S) == {s \in S : pc[s] \notin Ended /\ s \notin asked}

\* Mutant: the session's row is written before the profile's.
RecordOrderSwapped(s, status) ==
    /\ session' = [session EXCEPT ![s] = "expired"]
    /\ UNCHANGED login

\* The first of the two transactions that end a session: profile, then session.
RecordProfile(s, status) ==
    /\ login' = status
    /\ UNCHANGED session

\* Rows the last UPDATE of a logout touches.
EndedByLogout == {s \in Sessions : session[s] = "pending"}

\* asyncio.wait returned with nothing pending.
WatchersGone(l) == \A s \in snap[l] : pc[s] \in Ended

\* Mutant: the wait for the cancelled tasks has no limit.
LogoutUnlimited(l) == FALSE

\* asyncio.wait(tasks, timeout=5)
LogoutTimeLimited(l) == lo[l] = "waiting"

\* Mutant: a confirmed session is no longer bound by its lifetime.
LifetimeOfUnconfirmed(s) == pc[s] = "poll"

\* `while time.monotonic() < expires_at_monotonic' covers polling and verifying.
LifetimeBound(s) == pc[s] \in {"poll", "verify"}

\* Identity is verified only after the poll has confirmed.
IdentityVerifiable(s) == pc[s] = "verify"

\* Mutant: a cancelled task does not count as cancelling().
CancelUncounted(S) == intr' = intr \cup S /\ UNCHANGED asked

\* asyncio.Task.cancel() on the tasks of S.
Cancel(S) ==
    /\ intr' = intr \cup S
    /\ asked' = asked \cup S

\* A task resumes without a CancelledError to deliver.
Runs(s) == loop = Nobody /\ s \notin intr

\* The segment of s goes on at `next', or waits (or ends) there.
Continue(s, next) == pc' = [pc EXCEPT ![s] = next] /\ loop' = s
Suspend(s, next)  == pc' = [pc EXCEPT ![s] = next] /\ loop' = Nobody

-----------------------------------------------------------------------------
(* POST .../login/start and _prepare_login                                 *)

\* A preparation in progress is shared and a live QR is returned again, both
\* without a state change.  A runtime whose lifetime is over but whose watcher
\* has not noticed does not stop a new preparation.
StartLogin(s) ==
    /\ phase = "up" /\ loop = Nobody
    /\ login # "logged_in"
    /\ \A t \in Sessions : pc[t] \notin Preparing
    /\ pc[s] = "none" /\ session[s] = "absent"
    /\ Suspend(s, "new")
    /\ UNCHANGED <<leaseVars, rowVars, fileVars, asked, intr, memVars, reqVars, phase>>

\* lock_profile, then one transaction for the session and the profile; both
\* commits precede the first await and a crash between them leaves only a lease.
Prepare(s) ==
    /\ pc[s] = "new" /\ Runs(s)
    /\ IF login # "logged_in" /\ LeaseFree
       THEN /\ lock' = s
            /\ session' = [session EXCEPT ![s] = "pending"]
            /\ login' = "pending"
            /\ Suspend(s, "opening")
       ELSE Suspend(s, "done") /\ UNCHANGED <<lock, rowVars>>
    /\ UNCHANGED <<readers, fileVars, asked, intr, memVars, reqVars, phase>>

OpenContext(s) ==
    /\ pc[s] = "opening" /\ Runs(s)
    /\ open' = open \cup {s}
    /\ Suspend(s, "qr")
    /\ UNCHANGED <<leaseVars, rowVars, fileVars, asked, intr, runtimes, reqVars, phase>>

\* create_qr returns: the runtime is registered and its watcher task created.
ShowQr(s) ==
    /\ pc[s] = "qr" /\ Runs(s)
    /\ qr' = qr \cup {s}
    /\ runtimes' = runtimes \cup {s}
    /\ Suspend(s, "unstarted")
    /\ UNCHANGED <<leaseVars, rowVars, creds, asked, intr, open, reqVars, phase>>

\* Timeout, upstream or browser failure, or the cancellation, in an await of the
\* try block; a failure after the watcher was created takes it back unstarted.
PreparationFails(s) ==
    /\ pc[s] \in {"opening", "qr"} /\ loop = Nobody
    /\ \/ UNCHANGED qr
       \/ pc[s] = "qr" /\ qr' = qr \cup {s}
    /\ intr' = intr \ {s}
    /\ IF ContextClosed(s) THEN Continue(s, "prep_release") ELSE Suspend(s, "prep_closing")
    /\ UNCHANGED <<leaseVars, rowVars, creds, asked, memVars, reqVars, phase>>

PreparationClosed(s) ==
    /\ pc[s] = "prep_closing" /\ Runs(s)
    /\ ContextClosed(s)
    /\ Continue(s, "prep_release")
    /\ UNCHANGED <<leaseVars, rowVars, fileVars, asked, intr, memVars, reqVars, phase>>

PreparationReleases(s) ==
    /\ pc[s] = "prep_release"
    /\ lock' = ReleasedByPreparation(s)
    /\ Continue(s, "prep_profile")
    /\ UNCHANGED <<readers, rowVars, fileVars, asked, intr, memVars, reqVars, phase>>

PreparationInvalidates(s) ==
    /\ pc[s] = "prep_profile"
    /\ qr' = qr \ {s}
    /\ RecordProfile(s, "logged_out")
    /\ Continue(s, "prep_session")
    /\ UNCHANGED <<leaseVars, creds, asked, intr, memVars, reqVars, phase>>

PreparationEnds(s) ==
    /\ pc[s] = "prep_session"
    /\ session' = [session EXCEPT ![s] = "logged_out"]
    /\ Suspend(s, "done")
    /\ UNCHANGED <<leaseVars, login, fileVars, asked, intr, memVars, reqVars, phase>>

-----------------------------------------------------------------------------
(* _watch_login_session                                                    *)

StartWatching(s) ==
    /\ pc[s] = "unstarted" /\ Runs(s)
    /\ Suspend(s, "poll")
    /\ UNCHANGED <<leaseVars, rowVars, fileVars, asked, intr, memVars, reqVars, phase>>

\* The poll answers "confirmed": its Set-Cookie is in the journal already.
Confirmed(s) ==
    /\ pc[s] = "poll" /\ Runs(s)
    /\ creds' = TRUE
    /\ Suspend(s, "verify")
    /\ UNCHANGED <<leaseVars, rowVars, qr, asked, intr, memVars, reqVars, phase>>

Verified(s) ==
    /\ IdentityVerifiable(s) /\ Runs(s)
    /\ RecordProfile(s, "logged_in")
    /\ Continue(s, "record_login")
    /\ UNCHANGED <<leaseVars, fileVars, asked, intr, memVars, reqVars, phase>>

\* The lifetime is over or the poll answers "expired".
Expired(s) ==
    /\ LifetimeBound(s) /\ Runs(s)
    /\ RecordProfile(s, "logged_out")
    /\ Continue(s, "record_expired")
    /\ UNCHANGED <<leaseVars, fileVars, asked, intr, memVars, reqVars, phase>>

\* A failure that is not retried; the retried ones change nothing.
VerificationFails(s) ==
    /\ pc[s] \in {"poll", "verify"} /\ Runs(s)
    /\ RecordProfile(s, "logged_out")
    /\ Continue(s, "record_failed")
    /\ UNCHANGED <<leaseVars, fileVars, asked, intr, memVars, reqVars, phase>>

\* CancelledError skips the except clause; the finally clause expires the session
\* (_expire_pending_login_runtime).  The cancelled poll may have stored cookies.
WatchCancelled(s) ==
    /\ pc[s] \in {"poll", "verify"} /\ s \in intr /\ loop = Nobody
    /\ intr' = intr \ {s}
    /\ creds' \in {creds, TRUE}
    /\ RecordProfile(s, "logged_out")
    /\ Continue(s, "record_expired")
    /\ UNCHANGED <<leaseVars, qr, asked, memVars, reqVars, phase>>

\* The second transaction.
RecordSession(s) ==
    /\ \/ pc[s] = "record_login"   /\ session' = [session EXCEPT ![s] = "logged_in"]
       \/ pc[s] = "record_expired" /\ session' = [session EXCEPT ![s] = "expired"]
       \/ pc[s] = "record_failed"  /\ session' = [session EXCEPT ![s] = "logged_out"]
    /\ Continue(s, "invalidate")
    /\ UNCHANGED <<leaseVars, login, fileVars, asked, intr, memVars, reqVars, phase>>

\* _remove_qr_artifacts, then `await runtime.managed.close()'.
Invalidate(s) ==
    /\ pc[s] = "invalidate"
    /\ qr' = qr \ {s}
    /\ Suspend(s, "closing")
    /\ UNCHANGED <<leaseVars, rowVars, creds, asked, intr, memVars, reqVars, phase>>

WatchEnds(s) ==
    /\ pc[s] = "closing" /\ Runs(s)
    /\ ContextClosed(s)
    /\ lock' = Released(s)
    /\ runtimes' = runtimes \ {s}
    /\ Suspend(s, "done")
    /\ UNCHANGED <<readers, rowVars, fileVars, asked, intr, open, reqVars, phase>>

\* A task cancelled before its first step never runs.  A CancelledError in
\* `await managed.close()' is re-raised once the context is drained, passes the
\* suppress(Exception) and skips the rest of the cleanup.
Abort(s) ==
    /\ s \in intr /\ loop = Nobody
    /\ \/ pc[s] = "new" /\ Suspend(s, "done")
       \/ pc[s] = "unstarted" /\ Suspend(s, "aborted")
       \/ /\ pc[s] \in {"prep_closing", "closing"}
          /\ ContextClosed(s)
          /\ Suspend(s, "aborted")
    /\ intr' = intr \ {s}
    /\ UNCHANGED <<leaseVars, rowVars, fileVars, asked, memVars, reqVars, phase>>

\* ManagedBrowserContext.close, started by the session's task or by a logout.
CloseContext(s) ==
    /\ s \in open
    /\ \/ pc[s] \in {"prep_closing", "closing"}
       \/ \E l \in Logouts : lo[l] = "closing" /\ s \in snap[l]
    /\ open' = open \ {s}
    /\ UNCHANGED <<leaseVars, rowVars, fileVars, taskVars, runtimes, reqVars, hostVars>>

-----------------------------------------------------------------------------
(* POST .../logout                                                         *)

Logout(l) ==
    /\ phase = "up" /\ loop = Nobody
    /\ lo[l] = "idle"
    /\ LET found == runtimes \cup {s \in Sessions : pc[s] \in Preparing}
       IN /\ snap' = [snap EXCEPT ![l] = found]
          /\ Cancel(CancelTargets(found))
    /\ lo' = [lo EXCEPT ![l] = "waiting"]
    /\ UNCHANGED <<leaseVars, rowVars, fileVars, pc, memVars, im, hostVars>>

\* All tasks are done: close what they left open ...
LogoutWaited(l) ==
    /\ lo[l] = "waiting" /\ loop = Nobody
    /\ WatchersGone(l)
    /\ lo' = [lo EXCEPT ![l] = "closing"]
    /\ UNCHANGED <<leaseVars, rowVars, fileVars, taskVars, memVars, snap, im, hostVars>>

\* ... or 409, retry shortly: tasks are still closing after five seconds, or a
\* close failed or outlasted its own limit, which it drains to its end all the same.
LogoutGivesUp(l) ==
    /\ loop = Nobody
    /\ \/ LogoutTimeLimited(l)
       \/ lo[l] = "closing" /\ \A s \in snap[l] : ContextClosed(s)
    /\ lo' = [lo EXCEPT ![l] = "idle"]
    /\ UNCHANGED <<leaseVars, rowVars, fileVars, taskVars, memVars, snap, im, hostVars>>

\* lock_profile succeeds, or the request is answered with 409.
LogoutLocks(l) ==
    /\ lo[l] = "closing" /\ loop = Nobody
    /\ \A s \in snap[l] : ContextClosed(s)
    /\ IF LeaseFree
       THEN /\ lock' = l
            /\ lo' = [lo EXCEPT ![l] = "clear"]
            /\ loop' = l
       ELSE /\ lo' = [lo EXCEPT ![l] = "idle"]
            /\ UNCHANGED <<lock, loop>>
    /\ UNCHANGED <<readers, rowVars, fileVars, taskVars, memVars, snap, im, phase>>

\* _clear_browser_profile: the whole directory goes, or nothing and the request fails.
ClearProfile(l) ==
    /\ lo[l] = "clear"
    /\ \/ /\ creds' = FALSE /\ qr' = {}
          /\ lo' = [lo EXCEPT ![l] = "metadata"]
       \/ /\ lo' = [lo EXCEPT ![l] = "release"]
          /\ UNCHANGED fileVars
    /\ UNCHANGED <<leaseVars, rowVars, taskVars, memVars, snap, im, hostVars>>

LogoutProfile(l) ==
    /\ lo[l] = "metadata"
    /\ login' = "logged_out"
    /\ lo' = [lo EXCEPT ![l] = "sessions"]
    /\ UNCHANGED <<leaseVars, session, fileVars, taskVars, memVars, snap, im, hostVars>>

LogoutSessions(l) ==
    /\ lo[l] = "sessions"
    /\ session' = [s \in Sessions |-> IF s \in EndedByLogout THEN "logged_out" ELSE session[s]]
    /\ lo' = [lo EXCEPT ![l] = "release"]
    /\ UNCHANGED <<leaseVars, login, fileVars, taskVars, memVars, snap, im, hostVars>>

LogoutReleases(l) ==
    /\ lo[l] = "release"
    /\ lock' = Released(l)
    /\ lo' = [lo EXCEPT ![l] = "idle"]
    /\ loop' = Nobody
    /\ UNCHANGED <<readers, rowVars, fileVars, taskVars, memVars, snap, im, phase>>

-----------------------------------------------------------------------------
(* POST .../cookies/import, reads and audio jobs                           *)

Import(i) ==
    /\ phase = "up" /\ loop = Nobody
    /\ im[i] = "idle" /\ LeaseFree
    /\ lock' = i
    /\ im' = [im EXCEPT ![i] = "open"]
    /\ UNCHANGED <<readers, rowVars, fileVars, taskVars, memVars, lo, snap, hostVars>>

\* add_cookies and local storage, with or without an account's cookies.
ImportWrites(i) ==
    /\ im[i] = "open" /\ loop = Nobody
    /\ creds' \in {creds, TRUE}
    /\ im' = [im EXCEPT ![i] = "written"]
    /\ UNCHANGED <<leaseVars, rowVars, qr, taskVars, memVars, lo, snap, hostVars>>

ImportVerified(i) ==
    /\ im[i] = "written" /\ loop = Nobody
    /\ login' = IF creds THEN "logged_in" ELSE "logged_out"
    /\ im' = [im EXCEPT ![i] = "closing"]
    /\ UNCHANGED <<leaseVars, session, fileVars, taskVars, memVars, lo, snap, hostVars>>

\* finally: the context closes and the lease goes back, whatever failed before.
ImportEnds(i) ==
    /\ im[i] # "idle" /\ loop = Nobody
    /\ lock' = Released(i)
    /\ im' = [im EXCEPT ![i] = "idle"]
    /\ UNCHANGED <<readers, rowVars, fileVars, taskVars, memVars, lo, snap, hostVars>>

AcquireReader(r) ==
    /\ phase = "up" /\ loop = Nobody
    /\ r \notin readers
    /\ Readable
    /\ Cardinality(readers) < MaxReaders
    /\ readers' = readers \cup {r}
    /\ UNCHANGED <<lock, rowVars, fileVars, taskVars, memVars, reqVars, hostVars>>

ReleaseReader(r) ==
    /\ r \in readers /\ loop = Nobody
    /\ readers' = readers \ {r}
    /\ UNCHANGED <<lock, rowVars, fileVars, taskVars, memVars, reqVars, hostVars>>

\* create_job does not look at the readers.
JobStarts ==
    /\ phase = "up" /\ loop = Nobody
    /\ lock = Nobody
    /\ lock' = Job
    /\ UNCHANGED <<readers, rowVars, fileVars, taskVars, memVars, reqVars, hostVars>>

JobReleases ==
    /\ lock = Job /\ loop = Nobody
    /\ lock' = Nobody
    /\ UNCHANGED <<readers, rowVars, fileVars, taskVars, memVars, reqVars, hostVars>>

-----------------------------------------------------------------------------
(* The process                                                             *)

\* shutdown_login_runtimes cancels every live task, cancelled before or not.
Shutdown ==
    /\ phase = "up" /\ loop = Nobody
    /\ phase' = "draining"
    /\ Cancel({s \in Sessions : pc[s] \in Preparing \cup Watching})
    /\ UNCHANGED <<leaseVars, rowVars, fileVars, pc, memVars, reqVars, loop>>

Crash ==
    /\ phase # "down"
    /\ phase' = "down"
    /\ pc' = [s \in Sessions |-> "none"] /\ asked' = {} /\ intr' = {}
    /\ open' = {} /\ runtimes' = {}
    /\ lo' = [l \in Logouts |-> "idle"] /\ snap' = [l \in Logouts |-> {}]
    /\ im' = [i \in Imports |-> "idle"]
    /\ loop' = Nobody
    /\ UNCHANGED <<leaseVars, rowVars, fileVars>>

\* recover_interrupted_runtime empties both leases ...
RecoverLeases ==
    /\ phase = "down"
    /\ phase' = "recovering"
    /\ lock' = Nobody /\ readers' = {}
    /\ UNCHANGED <<rowVars, fileVars, taskVars, memVars, reqVars, loop>>

\* ... recover_stale_login_sessions expires what no watcher will end.
RecoverSessions ==
    /\ phase = "recovering"
    /\ phase' = "up"
    /\ LET stale == {s \in Sessions : session[s] = "pending"}
       IN /\ session' = [s \in Sessions |-> IF s \in stale THEN "expired" ELSE session[s]]
          /\ login' = IF stale # {} /\ login = "pending" THEN "unknown" ELSE login
          /\ qr' = qr \ stale
    /\ UNCHANGED <<leaseVars, creds, taskVars, memVars, reqVars, loop>>

-----------------------------------------------------------------------------

Segments(s) ==
    \/ PreparationReleases(s) \/ PreparationInvalidates(s) \/ PreparationEnds(s)
    \/ RecordSession(s) \/ Invalidate(s)

Wakeups(s) ==
    \/ Prepare(s) \/ PreparationClosed(s) \/ StartWatching(s) \/ WatchCancelled(s)
    \/ WatchEnds(s) \/ Abort(s)

Upstream(s) == OpenContext(s) \/ ShowQr(s) \/ Confirmed(s) \/ Verified(s) \/ VerificationFails(s)

LogoutSegments(l) ==
    ClearProfile(l) \/ LogoutProfile(l) \/ LogoutSessions(l) \/ LogoutReleases(l)

LoginNext ==
    \/ \E s \in Sessions :
          \/ StartLogin(s) \/ Segments(s) \/ Wakeups(s) \/ Upstream(s)
          \/ PreparationFails(s) \/ Expired(s) \/ CloseContext(s)
    \/ \E l \in Logouts :
          \/ Logout(l) \/ LogoutWaited(l) \/ LogoutGivesUp(l) \/ LogoutLocks(l)
          \/ LogoutSegments(l)
    \/ \E i \in Imports : Import(i) \/ ImportWrites(i) \/ ImportVerified(i) \/ ImportEnds(i)
    \/ \E r \in Readers : AcquireReader(r) \/ ReleaseReader(r)
    \/ JobStarts \/ JobReleases
    \/ Shutdown \/ Crash \/ RecoverLeases \/ RecoverSessions

LoginSpec == LoginInit /\ [][LoginNext]_loginVars

(* The loop runs ready tasks and finishes segments; the preparation timeout  *)
(* and the deadline of a session fire.  Nobody has to scan, upstream may     *)
(* never confirm, and a browser may hang while it is closed.                 *)
LoopFairness ==
    /\ \A s \in Sessions :
          /\ WF_loginVars(Segments(s))
          /\ SF_loginVars(Wakeups(s) \/ PreparationFails(s) \/ Expired(s))
    /\ \A l \in Logouts :
          /\ WF_loginVars(LogoutSegments(l))
          /\ SF_loginVars(LogoutWaited(l) \/ LogoutGivesUp(l) \/ LogoutLocks(l))

LoopSpec == LoginSpec /\ LoopFairness

\* ManagedBrowserContext.close drains without a limit: what needs it to return
\* assumes that the browser does close.
ContextsClose == \A s \in Sessions : WF_loginVars(CloseContext(s))

-----------------------------------------------------------------------------
(* Properties                                                              *)

\* Credentials are never changed under a read in progress: a login, a logout or
\* an import and a reader never hold the profile together, whichever came first.
MutatorsExcludeReaders == lock \in Mutators => readers = {}

\* No browser or HTTP session of a login outlives the session's lease, so nothing
\* rewrites the profile directory behind a later holder.
ContextUnderLease == \A s \in open : lock = s

\* One user of the directory at a time, counting open browsers and sessions.
LeaseExclusion == MutatorsExcludeReaders /\ ContextUnderLease

\* In a serving kernel a lease held by a login has a live task to return it, unless
\* a cancellation cut that task's cleanup short (see CancellationClosesLease).
LoginLeaseHasTask ==
    phase = "up" =>
        \A s \in Sessions : lock = s =>
            pc[s] \in (Preparing \cup Watching) \ {"new"} \/ pc[s] = "aborted"

\* A profile is marked "pending" only while a pending session explains it: the only
\* profiles a recovery can bring out of "pending" are those of pending sessions,
\* so a crash between the two transactions must leave the session pending.
PendingIsRecoverable ==
    login = "pending" => \E s \in Sessions : session[s] = "pending"

\* Neither the lease nor the status of a profile is stuck with a login nobody runs.
LoginRecoverable == LoginLeaseHasTask /\ PendingIsRecoverable

\* The profile directory changes hands only under an exclusive lease: whoever adds
\* or removes account cookies holds the profile, with no reader and no other
\* session's context open.
CredentialsChangeUnderLease ==
    [][creds' # creds =>
          /\ lock \in Mutators
          /\ readers = {}
          /\ open \subseteq {lock}]_loginVars

\* Where browsers close every session ends without help: abandoned QR codes expire.
SessionEnds ==
    ContextsClose =>
        \A s \in Sessions :
            session[s] = "pending" ~> session[s] # "pending" \/ pc[s] = "aborted" \/ phase # "up"

\* Every logout request is answered although watchers and other holders stand in
\* its way and browsers may hang; only a context whose watcher never ran, so that
\* the request itself must close it, can hold it up.
LogoutAnswered ==
    \A l \in Logouts :
        lo[l] # "idle" ~>
            lo[l] = "idle" \/ \E s \in snap[l] : pc[s] = "aborted" /\ s \in open

\* Nobody waits for ever: neither who shows a QR code nor who logs out.
CallersAnswered == SessionEnds /\ LogoutAnswered

\* LOGIN_RELIABILITY.md: cancellation invalidates the QR and closes the lease.
CancellationClosesLease ==
    phase = "up" =>
        \A s \in asked : pc[s] \in Ended => lock # s /\ s \notin qr
=============================================================================
