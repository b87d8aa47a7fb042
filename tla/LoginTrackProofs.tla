--------------------------- MODULE LoginTrackProofs ---------------------------
(* Theorems about the profile that a job of the kernel leases and about the  *)
(* application track that it prepares, each for any numbers of sessions,     *)
(* logouts, imports, readers, jobs, requests, listeners and restarts.  The   *)
(* two share no state: the first part is about ProfileLogin, the second      *)
(* about TrackLifecycle.                                                     *)
EXTENDS ProfileLogin, TrackLifecycle, TLAPS

-----------------------------------------------------------------------------
(* The profile                                                             *)

\* Steps change only what the types allow, whatever the tasks and requests are.
LEMMA LoginTypeStep ==
    ASSUME LoginTypeOK, [LoginNext]_loginVars
    PROVE  LoginTypeOK'
<1> USE LoginAssumption DEF LoginTypeOK, Mutators, SessionStatus, Preparing, Watching, Ended, leaseVars,
        rowVars, fileVars, taskVars, memVars, reqVars, hostVars, Continue, Suspend, Runs
<1>1. ASSUME NEW s \in Sessions, StartLogin(s) PROVE LoginTypeOK'
  BY <1>1 DEF StartLogin
<1>2. ASSUME NEW s \in Sessions, Prepare(s) PROVE LoginTypeOK'
  BY <1>2 DEF Prepare, LeaseFree
<1>3. ASSUME NEW s \in Sessions, OpenContext(s) PROVE LoginTypeOK'
  BY <1>3 DEF OpenContext
<1>4. ASSUME NEW s \in Sessions, ShowQr(s) PROVE LoginTypeOK'
  BY <1>4 DEF ShowQr
<1>5. ASSUME NEW s \in Sessions, PreparationFails(s) PROVE LoginTypeOK'
  BY <1>5 DEF PreparationFails, ContextClosed
<1>6. ASSUME NEW s \in Sessions, PreparationClosed(s) PROVE LoginTypeOK'
  BY <1>6 DEF PreparationClosed, ContextClosed
<1>7. ASSUME NEW s \in Sessions, PreparationReleases(s) PROVE LoginTypeOK'
  BY <1>7 DEF PreparationReleases, ReleasedByPreparation, Released
<1>8. ASSUME NEW s \in Sessions, PreparationInvalidates(s) PROVE LoginTypeOK'
  BY <1>8 DEF PreparationInvalidates, RecordProfile
<1>9. ASSUME NEW s \in Sessions, PreparationEnds(s) PROVE LoginTypeOK'
  BY <1>9 DEF PreparationEnds
<1>10. ASSUME NEW s \in Sessions, StartWatching(s) PROVE LoginTypeOK'
  BY <1>10 DEF StartWatching
<1>11. ASSUME NEW s \in Sessions, Confirmed(s) PROVE LoginTypeOK'
  BY <1>11 DEF Confirmed
<1>12. ASSUME NEW s \in Sessions, Verified(s) PROVE LoginTypeOK'
  BY <1>12 DEF Verified, IdentityVerifiable, RecordProfile
<1>13. ASSUME NEW s \in Sessions, Expired(s) PROVE LoginTypeOK'
  BY <1>13 DEF Expired, LifetimeBound, RecordProfile
<1>14. ASSUME NEW s \in Sessions, VerificationFails(s) PROVE LoginTypeOK'
  BY <1>14 DEF VerificationFails, RecordProfile
<1>15. ASSUME NEW s \in Sessions, WatchCancelled(s) PROVE LoginTypeOK'
  BY <1>15 DEF WatchCancelled, RecordProfile
<1>16. ASSUME NEW s \in Sessions, RecordSession(s) PROVE LoginTypeOK'
  BY <1>16 DEF RecordSession
<1>17. ASSUME NEW s \in Sessions, Invalidate(s) PROVE LoginTypeOK'
  BY <1>17 DEF Invalidate
<1>18. ASSUME NEW s \in Sessions, WatchEnds(s) PROVE LoginTypeOK'
  BY <1>18 DEF WatchEnds, ContextClosed, Released
<1>19. ASSUME NEW s \in Sessions, Abort(s) PROVE LoginTypeOK'
  BY <1>19 DEF Abort, ContextClosed
<1>20. ASSUME NEW s \in Sessions, CloseContext(s) PROVE LoginTypeOK'
  BY <1>20 DEF CloseContext
<1>21. ASSUME NEW l \in Logouts, Logout(l) PROVE LoginTypeOK'
  BY <1>21 DEF Logout, Cancel, CancelTargets
<1>22. ASSUME NEW l \in Logouts, LogoutWaited(l) PROVE LoginTypeOK'
  BY <1>22 DEF LogoutWaited, WatchersGone
<1>23. ASSUME NEW l \in Logouts, LogoutGivesUp(l) PROVE LoginTypeOK'
  BY <1>23 DEF LogoutGivesUp, LogoutTimeLimited, ContextClosed
<1>24. ASSUME NEW l \in Logouts, LogoutLocks(l) PROVE LoginTypeOK'
  BY <1>24 DEF LogoutLocks, ContextClosed, LeaseFree
<1>25. ASSUME NEW l \in Logouts, ClearProfile(l) PROVE LoginTypeOK'
  BY <1>25 DEF ClearProfile
<1>26. ASSUME NEW l \in Logouts, LogoutProfile(l) PROVE LoginTypeOK'
  BY <1>26 DEF LogoutProfile
<1>27. ASSUME NEW l \in Logouts, LogoutSessions(l) PROVE LoginTypeOK'
  BY <1>27 DEF LogoutSessions, EndedByLogout
<1>28. ASSUME NEW l \in Logouts, LogoutReleases(l) PROVE LoginTypeOK'
  BY <1>28 DEF LogoutReleases, Released
<1>29. ASSUME NEW i \in Imports, Import(i) PROVE LoginTypeOK'
  BY <1>29 DEF Import, LeaseFree
<1>30. ASSUME NEW i \in Imports, ImportWrites(i) PROVE LoginTypeOK'
  BY <1>30 DEF ImportWrites
<1>31. ASSUME NEW i \in Imports, ImportVerified(i) PROVE LoginTypeOK'
  BY <1>31 DEF ImportVerified
<1>32. ASSUME NEW i \in Imports, ImportEnds(i) PROVE LoginTypeOK'
  BY <1>32 DEF ImportEnds, Released
<1>33. ASSUME NEW r \in Readers, AcquireReader(r) PROVE LoginTypeOK'
  BY <1>33 DEF AcquireReader, Readable
<1>34. ASSUME NEW r \in Readers, ReleaseReader(r) PROVE LoginTypeOK'
  BY <1>34 DEF ReleaseReader
<1>35. CASE JobStarts
  BY <1>35 DEF JobStarts
<1>36. CASE JobReleases
  BY <1>36 DEF JobReleases
<1>37. CASE Shutdown
  BY <1>37 DEF Shutdown, Cancel
<1>38. CASE Crash
  BY <1>38 DEF Crash
<1>39. CASE RecoverLeases
  BY <1>39 DEF RecoverLeases
<1>40. CASE RecoverSessions
  BY <1>40 DEF RecoverSessions
<1>41. CASE UNCHANGED loginVars
  BY <1>41 DEF loginVars
<1> QED
  BY <1>1, <1>2, <1>3, <1>4, <1>5, <1>6, <1>7, <1>8, <1>9, <1>10, <1>11, <1>12,
     <1>13, <1>14, <1>15, <1>16, <1>17, <1>18, <1>19, <1>20, <1>21, <1>22,
     <1>23, <1>24, <1>25, <1>26, <1>27, <1>28, <1>29, <1>30, <1>31, <1>32,
     <1>33, <1>34, <1>35, <1>36, <1>37, <1>38, <1>39, <1>40, <1>41
     DEF LoginNext, Segments, Wakeups, Upstream, LogoutSegments

\* Type correctness of the profile's rows, files, tasks and requests.
THEOREM LoginTypeCorrect == LoginSpec => []LoginTypeOK
<1>1. LoginInit => LoginTypeOK
  <2> SUFFICES ASSUME LoginInit PROVE LoginTypeOK
    OBVIOUS
  <2>1. /\ session \in [Sessions -> SessionStatus \cup {"absent"}]
        /\ pc \in [Sessions -> Preparing \cup Watching \cup Ended \cup {"none"}]
    BY DEF LoginInit
  <2>2. /\ lo \in [Logouts -> {"idle", "waiting", "closing", "clear", "metadata", "sessions", "release"}]
        /\ snap \in [Logouts -> SUBSET Sessions]
        /\ im \in [Imports -> {"idle", "open", "written", "closing"}]
    BY DEF LoginInit
  <2> QED
    BY <2>1, <2>2 DEF LoginInit, LoginTypeOK
<1>2. LoginTypeOK /\ [LoginNext]_loginVars => LoginTypeOK'
  BY LoginTypeStep
<1> QED
  BY <1>1, <1>2, PTL DEF LoginSpec

-----------------------------------------------------------------------------
(* The lease                                                               *)

\* Where the task of a session holds the profile: between lock_profile and the release
\* in its except or finally clause.
Holding == {"opening", "qr", "prep_closing", "prep_release", "unstarted", "poll", "verify",
            "record_login", "record_expired", "record_failed", "invalidate", "closing"}

\* Where its browser or request context may be open.
MayBeOpen == (Holding \ {"opening", "prep_release"}) \cup {"aborted"}

HoldersHold ==
    /\ \A s \in Sessions : pc[s] \in Holding => lock = s
    /\ \A l \in Logouts : lo[l] \in {"clear", "metadata", "sessions", "release"} => lock = l
    /\ \A i \in Imports : im[i] # "idle" => lock = i

OpenInv == \A s \in open : pc[s] \in MayBeOpen

\* Until the leases are recovered nothing of an earlier process is left in memory.
DownInv ==
    phase \in {"down", "recovering"} =>
        /\ open = {}
        /\ \A s \in Sessions : pc[s] = "none"
        /\ \A l \in Logouts : lo[l] = "idle"
        /\ \A i \in Imports : im[i] = "idle"

\* LeaseExclusion is not inductive: it does not say who may change or release the lease.
LoginIInv == LeaseExclusion /\ HoldersHold /\ OpenInv /\ DownInv

\* Every step keeps the lease with those who use it.
LEMMA LoginInvariantStep ==
    ASSUME LoginTypeOK, LoginIInv, [LoginNext]_loginVars
    PROVE  LoginIInv'
<1> USE LoginAssumption DEF LoginIInv, LeaseExclusion, MutatorsExcludeReaders, ContextUnderLease, HoldersHold,
        OpenInv, DownInv, Holding, MayBeOpen, LoginTypeOK, Mutators, Preparing, Watching, Ended, leaseVars,
        rowVars, fileVars, taskVars, memVars, reqVars, hostVars, Continue, Suspend, Runs
<1>1. ASSUME NEW s \in Sessions, StartLogin(s) PROVE LoginIInv'
  BY <1>1 DEF StartLogin
<1>2. ASSUME NEW s \in Sessions, Prepare(s) PROVE LoginIInv'
  BY <1>2 DEF Prepare, LeaseFree
<1>3. ASSUME NEW s \in Sessions, OpenContext(s) PROVE LoginIInv'
  BY <1>3 DEF OpenContext
<1>4. ASSUME NEW s \in Sessions, ShowQr(s) PROVE LoginIInv'
  BY <1>4 DEF ShowQr
<1>5. ASSUME NEW s \in Sessions, PreparationFails(s) PROVE LoginIInv'
  BY <1>5 DEF PreparationFails, ContextClosed
<1>6. ASSUME NEW s \in Sessions, PreparationClosed(s) PROVE LoginIInv'
  BY <1>6 DEF PreparationClosed, ContextClosed
<1>7. ASSUME NEW s \in Sessions, PreparationReleases(s) PROVE LoginIInv'
  BY <1>7 DEF PreparationReleases, ReleasedByPreparation, Released
<1>8. ASSUME NEW s \in Sessions, PreparationInvalidates(s) PROVE LoginIInv'
  BY <1>8 DEF PreparationInvalidates, RecordProfile
<1>9. ASSUME NEW s \in Sessions, PreparationEnds(s) PROVE LoginIInv'
  BY <1>9 DEF PreparationEnds
<1>10. ASSUME NEW s \in Sessions, StartWatching(s) PROVE LoginIInv'
  BY <1>10 DEF StartWatching
<1>11. ASSUME NEW s \in Sessions, Confirmed(s) PROVE LoginIInv'
  BY <1>11 DEF Confirmed
<1>12. ASSUME NEW s \in Sessions, Verified(s) PROVE LoginIInv'
  BY <1>12 DEF Verified, IdentityVerifiable, RecordProfile
<1>13. ASSUME NEW s \in Sessions, Expired(s) PROVE LoginIInv'
  BY <1>13 DEF Expired, LifetimeBound, RecordProfile
<1>14. ASSUME NEW s \in Sessions, VerificationFails(s) PROVE LoginIInv'
  BY <1>14 DEF VerificationFails, RecordProfile
<1>15. ASSUME NEW s \in Sessions, WatchCancelled(s) PROVE LoginIInv'
  BY <1>15 DEF WatchCancelled, RecordProfile
<1>16. ASSUME NEW s \in Sessions, RecordSession(s) PROVE LoginIInv'
  BY <1>16 DEF RecordSession
<1>17. ASSUME NEW s \in Sessions, Invalidate(s) PROVE LoginIInv'
  BY <1>17 DEF Invalidate
<1>18. ASSUME NEW s \in Sessions, WatchEnds(s) PROVE LoginIInv'
  BY <1>18 DEF WatchEnds, ContextClosed, Released
<1>19. ASSUME NEW s \in Sessions, Abort(s) PROVE LoginIInv'
  BY <1>19 DEF Abort, ContextClosed
<1>20. ASSUME NEW s \in Sessions, CloseContext(s) PROVE LoginIInv'
  BY <1>20 DEF CloseContext
<1>21. ASSUME NEW l \in Logouts, Logout(l) PROVE LoginIInv'
  BY <1>21 DEF Logout, Cancel, CancelTargets
<1>22. ASSUME NEW l \in Logouts, LogoutWaited(l) PROVE LoginIInv'
  BY <1>22 DEF LogoutWaited, WatchersGone
<1>23. ASSUME NEW l \in Logouts, LogoutGivesUp(l) PROVE LoginIInv'
  BY <1>23 DEF LogoutGivesUp, LogoutTimeLimited, ContextClosed
<1>24. ASSUME NEW l \in Logouts, LogoutLocks(l) PROVE LoginIInv'
  BY <1>24 DEF LogoutLocks, ContextClosed, LeaseFree
<1>25. ASSUME NEW l \in Logouts, ClearProfile(l) PROVE LoginIInv'
  BY <1>25 DEF ClearProfile
<1>26. ASSUME NEW l \in Logouts, LogoutProfile(l) PROVE LoginIInv'
  BY <1>26 DEF LogoutProfile
<1>27. ASSUME NEW l \in Logouts, LogoutSessions(l) PROVE LoginIInv'
  BY <1>27 DEF LogoutSessions, EndedByLogout
<1>28. ASSUME NEW l \in Logouts, LogoutReleases(l) PROVE LoginIInv'
  BY <1>28 DEF LogoutReleases, Released
<1>29. ASSUME NEW i \in Imports, Import(i) PROVE LoginIInv'
  BY <1>29 DEF Import, LeaseFree
<1>30. ASSUME NEW i \in Imports, ImportWrites(i) PROVE LoginIInv'
  BY <1>30 DEF ImportWrites
<1>31. ASSUME NEW i \in Imports, ImportVerified(i) PROVE LoginIInv'
  BY <1>31 DEF ImportVerified
<1>32. ASSUME NEW i \in Imports, ImportEnds(i) PROVE LoginIInv'
  BY <1>32 DEF ImportEnds, Released
<1>33. ASSUME NEW r \in Readers, AcquireReader(r) PROVE LoginIInv'
  BY <1>33 DEF AcquireReader, Readable
<1>34. ASSUME NEW r \in Readers, ReleaseReader(r) PROVE LoginIInv'
  BY <1>34 DEF ReleaseReader
<1>35. CASE JobStarts
  BY <1>35 DEF JobStarts
<1>36. CASE JobReleases
  BY <1>36 DEF JobReleases
<1>37. CASE Shutdown
  BY <1>37 DEF Shutdown, Cancel
<1>38. CASE Crash
  BY <1>38 DEF Crash
<1>39. CASE RecoverLeases
  BY <1>39 DEF RecoverLeases
<1>40. CASE RecoverSessions
  BY <1>40 DEF RecoverSessions
<1>41. CASE UNCHANGED loginVars
  BY <1>41 DEF loginVars
<1> QED
  BY <1>1, <1>2, <1>3, <1>4, <1>5, <1>6, <1>7, <1>8, <1>9, <1>10, <1>11, <1>12,
     <1>13, <1>14, <1>15, <1>16, <1>17, <1>18, <1>19, <1>20, <1>21, <1>22,
     <1>23, <1>24, <1>25, <1>26, <1>27, <1>28, <1>29, <1>30, <1>31, <1>32,
     <1>33, <1>34, <1>35, <1>36, <1>37, <1>38, <1>39, <1>40, <1>41
     DEF LoginNext, Segments, Wakeups, Upstream, LogoutSegments

\* The invariant holds in every reachable state.
THEOREM LoginInvariant == LoginSpec => []LoginIInv
<1>1. LoginInit => LoginIInv
  BY LoginAssumption DEF LoginInit, LoginIInv, LeaseExclusion, MutatorsExcludeReaders, ContextUnderLease, HoldersHold,
     OpenInv, DownInv, Holding, Mutators
<1>2. LoginTypeOK /\ LoginIInv /\ [LoginNext]_loginVars => LoginIInv'
  BY LoginInvariantStep
<1> QED
  BY <1>1, <1>2, LoginTypeCorrect, PTL DEF LoginSpec

\* Credentials have one user: no login, logout or import holds the profile while it is read,
\* and no browser or HTTP session of a login outlives the lease of the session.
THEOREM LeasesExclude == LoginSpec => []LeaseExclusion
  BY LoginInvariant, PTL DEF LoginIInv

\* Cookies of an account are written by a confirmed poll and by an import, and removed by a
\* logout, and each of them holds the profile at that moment; no other step touches them.
LEMMA CredentialsStep ==
    ASSUME LoginTypeOK, LoginIInv, [LoginNext]_loginVars, creds' # creds
    PROVE  lock \in Mutators /\ readers = {} /\ open \subseteq {lock}
<1>1. lock \in Mutators => readers = {} /\ open \subseteq {lock}
  BY DEF LoginIInv, LeaseExclusion, MutatorsExcludeReaders, ContextUnderLease
<1> USE DEF LoginIInv, HoldersHold, Holding, Mutators, fileVars
<1>2. ASSUME NEW s \in Sessions, Confirmed(s) \/ WatchCancelled(s) PROVE lock \in Mutators
  BY <1>2 DEF Confirmed, WatchCancelled
<1>3. ASSUME NEW l \in Logouts, ClearProfile(l) PROVE lock \in Mutators
  BY <1>3 DEF ClearProfile
<1>4. ASSUME NEW i \in Imports, ImportWrites(i) PROVE lock \in Mutators
  BY <1>4 DEF ImportWrites
<1>5. ASSUME NEW s \in Sessions,
             \/ StartLogin(s) \/ PreparationReleases(s) \/ PreparationInvalidates(s) \/ PreparationEnds(s)
             \/ RecordSession(s) \/ Invalidate(s) \/ Prepare(s) \/ PreparationClosed(s) \/ StartWatching(s)
             \/ WatchEnds(s) \/ Abort(s) \/ OpenContext(s) \/ ShowQr(s) \/ Verified(s) \/ VerificationFails(s)
             \/ PreparationFails(s) \/ Expired(s) \/ CloseContext(s)
      PROVE  FALSE
  BY <1>5 DEF StartLogin, PreparationReleases, PreparationInvalidates, PreparationEnds, RecordSession,
     Invalidate, Prepare, PreparationClosed, StartWatching, WatchEnds, Abort, OpenContext, ShowQr, Verified,
     VerificationFails, PreparationFails, Expired, CloseContext
<1>6. ASSUME NEW l \in Logouts,
             \/ Logout(l) \/ LogoutWaited(l) \/ LogoutGivesUp(l) \/ LogoutLocks(l)
             \/ LogoutProfile(l) \/ LogoutSessions(l) \/ LogoutReleases(l)
      PROVE  FALSE
  BY <1>6 DEF Logout, LogoutWaited, LogoutGivesUp, LogoutLocks, LogoutProfile, LogoutSessions, LogoutReleases
<1>7. ASSUME NEW i \in Imports, Import(i) \/ ImportVerified(i) \/ ImportEnds(i) PROVE FALSE
  BY <1>7 DEF Import, ImportVerified, ImportEnds
<1>8. ASSUME NEW r \in Readers, AcquireReader(r) \/ ReleaseReader(r) PROVE FALSE
  BY <1>8 DEF AcquireReader, ReleaseReader
<1>9. CASE JobStarts \/ JobReleases \/ Shutdown \/ Crash \/ RecoverLeases \/ RecoverSessions
  BY <1>9 DEF JobStarts, JobReleases, Shutdown, Crash, RecoverLeases, RecoverSessions
<1>10. CASE UNCHANGED loginVars
  BY <1>10 DEF loginVars
<1> QED
  BY <1>1, <1>2, <1>3, <1>4, <1>5, <1>6, <1>7, <1>8, <1>9, <1>10
     DEF LoginNext, Segments, Wakeups, Upstream, LogoutSegments

\* The profile directory changes hands only under an exclusive lease, whatever logins,
\* logouts, imports, reads and crashes interleave.
THEOREM CredentialsAreLeased == LoginSpec => CredentialsChangeUnderLease
<1>1. LoginTypeOK /\ LoginIInv /\ [LoginNext]_loginVars =>
        [creds' # creds => /\ lock \in Mutators
                           /\ readers = {}
                           /\ open \subseteq {lock}]_loginVars
  BY CredentialsStep
<1> QED
  BY <1>1, LoginTypeCorrect, LoginInvariant, PTL DEF LoginSpec, CredentialsChangeUnderLease

-----------------------------------------------------------------------------
(* Recovery                                                                *)

\* Once the leases are recovered, the lease of a login has a task or an aborted one.
LeaseHasTask ==
    phase # "down" => \A s \in Sessions : lock = s => pc[s] \in Holding \cup {"aborted"}

\* Segments of several transactions do not overlap.
SegmentsExclude ==
    /\ \A s \in Sessions :
          pc[s] \in {"prep_release", "prep_profile", "prep_session", "record_login", "record_expired",
                    "record_failed", "invalidate"} => loop = s
    /\ \A l \in Logouts : lo[l] \in {"clear", "metadata", "sessions", "release"} => loop = l

\* Between the two transactions that end a session its profile is not pending any more.
PendingExplained ==
    /\ \A s \in Sessions :
          pc[s] \in {"prep_session", "record_login", "record_expired", "record_failed"} => login # "pending"
    /\ \A l \in Logouts : lo[l] = "sessions" => login # "pending"

RecoveryInv == LeaseHasTask /\ SegmentsExclude /\ PendingExplained /\ PendingIsRecoverable

\* Every step keeps a pending profile explained and a login's lease in somebody's hands.
LEMMA RecoveryStep ==
    ASSUME LoginTypeOK, RecoveryInv, [LoginNext]_loginVars
    PROVE  RecoveryInv'
<1> USE LoginAssumption DEF RecoveryInv, LeaseHasTask, SegmentsExclude, PendingExplained, PendingIsRecoverable,
        Holding, LoginTypeOK, Mutators, Preparing, Watching, Ended, leaseVars, rowVars, fileVars, taskVars, memVars,
        reqVars, hostVars, Continue, Suspend, Runs
<1>1. ASSUME NEW s \in Sessions, StartLogin(s) PROVE RecoveryInv'
  BY <1>1 DEF StartLogin
<1>2. ASSUME NEW s \in Sessions, Prepare(s) PROVE RecoveryInv'
  BY <1>2 DEF Prepare, LeaseFree
<1>3. ASSUME NEW s \in Sessions, OpenContext(s) PROVE RecoveryInv'
  BY <1>3 DEF OpenContext
<1>4. ASSUME NEW s \in Sessions, ShowQr(s) PROVE RecoveryInv'
  BY <1>4 DEF ShowQr
<1>5. ASSUME NEW s \in Sessions, PreparationFails(s) PROVE RecoveryInv'
  BY <1>5 DEF PreparationFails, ContextClosed
<1>6. ASSUME NEW s \in Sessions, PreparationClosed(s) PROVE RecoveryInv'
  BY <1>6 DEF PreparationClosed, ContextClosed
<1>7. ASSUME NEW s \in Sessions, PreparationReleases(s) PROVE RecoveryInv'
  BY <1>7 DEF PreparationReleases, ReleasedByPreparation, Released
<1>8. ASSUME NEW s \in Sessions, PreparationInvalidates(s) PROVE RecoveryInv'
  BY <1>8 DEF PreparationInvalidates, RecordProfile
<1>9. ASSUME NEW s \in Sessions, PreparationEnds(s) PROVE RecoveryInv'
  BY <1>9 DEF PreparationEnds
<1>10. ASSUME NEW s \in Sessions, StartWatching(s) PROVE RecoveryInv'
  BY <1>10 DEF StartWatching
<1>11. ASSUME NEW s \in Sessions, Confirmed(s) PROVE RecoveryInv'
  BY <1>11 DEF Confirmed
<1>12. ASSUME NEW s \in Sessions, Verified(s) PROVE RecoveryInv'
  BY <1>12 DEF Verified, IdentityVerifiable, RecordProfile
<1>13. ASSUME NEW s \in Sessions, Expired(s) PROVE RecoveryInv'
  BY <1>13 DEF Expired, LifetimeBound, RecordProfile
<1>14. ASSUME NEW s \in Sessions, VerificationFails(s) PROVE RecoveryInv'
  BY <1>14 DEF VerificationFails, RecordProfile
<1>15. ASSUME NEW s \in Sessions, WatchCancelled(s) PROVE RecoveryInv'
  BY <1>15 DEF WatchCancelled, RecordProfile
<1>16. ASSUME NEW s \in Sessions, RecordSession(s) PROVE RecoveryInv'
  BY <1>16 DEF RecordSession
<1>17. ASSUME NEW s \in Sessions, Invalidate(s) PROVE RecoveryInv'
  BY <1>17 DEF Invalidate
<1>18. ASSUME NEW s \in Sessions, WatchEnds(s) PROVE RecoveryInv'
  BY <1>18 DEF WatchEnds, ContextClosed, Released
<1>19. ASSUME NEW s \in Sessions, Abort(s) PROVE RecoveryInv'
  BY <1>19 DEF Abort, ContextClosed
<1>20. ASSUME NEW s \in Sessions, CloseContext(s) PROVE RecoveryInv'
  BY <1>20 DEF CloseContext
<1>21. ASSUME NEW l \in Logouts, Logout(l) PROVE RecoveryInv'
  BY <1>21 DEF Logout, Cancel, CancelTargets
<1>22. ASSUME NEW l \in Logouts, LogoutWaited(l) PROVE RecoveryInv'
  BY <1>22 DEF LogoutWaited, WatchersGone
<1>23. ASSUME NEW l \in Logouts, LogoutGivesUp(l) PROVE RecoveryInv'
  BY <1>23 DEF LogoutGivesUp, LogoutTimeLimited, ContextClosed
<1>24. ASSUME NEW l \in Logouts, LogoutLocks(l) PROVE RecoveryInv'
  BY <1>24 DEF LogoutLocks, ContextClosed, LeaseFree
<1>25. ASSUME NEW l \in Logouts, ClearProfile(l) PROVE RecoveryInv'
  BY <1>25 DEF ClearProfile
<1>26. ASSUME NEW l \in Logouts, LogoutProfile(l) PROVE RecoveryInv'
  BY <1>26 DEF LogoutProfile
<1>27. ASSUME NEW l \in Logouts, LogoutSessions(l) PROVE RecoveryInv'
  BY <1>27 DEF LogoutSessions, EndedByLogout
<1>28. ASSUME NEW l \in Logouts, LogoutReleases(l) PROVE RecoveryInv'
  BY <1>28 DEF LogoutReleases, Released
<1>29. ASSUME NEW i \in Imports, Import(i) PROVE RecoveryInv'
  BY <1>29 DEF Import, LeaseFree
<1>30. ASSUME NEW i \in Imports, ImportWrites(i) PROVE RecoveryInv'
  BY <1>30 DEF ImportWrites
<1>31. ASSUME NEW i \in Imports, ImportVerified(i) PROVE RecoveryInv'
  BY <1>31 DEF ImportVerified
<1>32. ASSUME NEW i \in Imports, ImportEnds(i) PROVE RecoveryInv'
  BY <1>32 DEF ImportEnds, Released
<1>33. ASSUME NEW r \in Readers, AcquireReader(r) PROVE RecoveryInv'
  BY <1>33 DEF AcquireReader, Readable
<1>34. ASSUME NEW r \in Readers, ReleaseReader(r) PROVE RecoveryInv'
  BY <1>34 DEF ReleaseReader
<1>35. CASE JobStarts
  BY <1>35 DEF JobStarts
<1>36. CASE JobReleases
  BY <1>36 DEF JobReleases
<1>37. CASE Shutdown
  BY <1>37 DEF Shutdown, Cancel
<1>38. CASE Crash
  BY <1>38 DEF Crash
<1>39. CASE RecoverLeases
  BY <1>39 DEF RecoverLeases
<1>40. CASE RecoverSessions
  BY <1>40 DEF RecoverSessions
<1>41. CASE UNCHANGED loginVars
  BY <1>41 DEF loginVars
<1> QED
  BY <1>1, <1>2, <1>3, <1>4, <1>5, <1>6, <1>7, <1>8, <1>9, <1>10, <1>11, <1>12,
     <1>13, <1>14, <1>15, <1>16, <1>17, <1>18, <1>19, <1>20, <1>21, <1>22,
     <1>23, <1>24, <1>25, <1>26, <1>27, <1>28, <1>29, <1>30, <1>31, <1>32,
     <1>33, <1>34, <1>35, <1>36, <1>37, <1>38, <1>39, <1>40, <1>41
     DEF LoginNext, Segments, Wakeups, Upstream, LogoutSegments

\* A kernel that stops anywhere can always be recovered: no lease and no pending profile is
\* left that neither a live task nor the next start puts in order.
THEOREM LoginsAreRecoverable == LoginSpec => []LoginRecoverable
<1>1. LoginInit => RecoveryInv
  BY LoginAssumption DEF LoginInit, RecoveryInv, LeaseHasTask, SegmentsExclude, PendingExplained,
     PendingIsRecoverable, Mutators
<1>2. LoginTypeOK /\ RecoveryInv /\ [LoginNext]_loginVars => RecoveryInv'
  BY RecoveryStep
<1>3. RecoveryInv => LoginRecoverable
  BY DEF RecoveryInv, LeaseHasTask, LoginRecoverable, LoginLeaseHasTask, Holding, Preparing, Watching
<1> QED
  BY <1>1, <1>2, <1>3, LoginTypeCorrect, PTL DEF LoginSpec

-----------------------------------------------------------------------------
(* The track                                                               *)

\* What a request awaits is of its type at each of its stages.
LEMMA CallFacts ==
    /\ Free \in Calls
    /\ Awaits("profile", FALSE, None) \in Calls /\ Awaits("profile", TRUE, None) \in Calls
    /\ \A f \in BOOLEAN, j \in Jobs : Awaits("submit", f, j) \in Calls
    /\ \A x \in Calls : x.force \in BOOLEAN /\ (x.stage = "submit" => x.job \in Jobs)
<1>1. Free \in Calls
  BY DEF Calls
<1>2. ASSUME NEW f \in BOOLEAN PROVE Awaits("profile", f, None) \in Calls
  BY Zenon DEF Awaits, Calls
<1>3. ASSUME NEW f \in BOOLEAN, NEW j \in Jobs PROVE Awaits("submit", f, j) \in Calls
  BY Zenon DEF Awaits, Calls
<1>4. ASSUME NEW x \in Calls PROVE x.force \in BOOLEAN /\ (x.stage = "submit" => x.job \in Jobs)
  <2>1. CASE x \in [stage : {"profile"}, force : BOOLEAN, job : {None}]
    BY <2>1
  <2>2. CASE x \in [stage : {"submit"}, force : BOOLEAN, job : Jobs]
    BY <2>2
  <2>3. CASE x = Free
    <3>1. x.force = FALSE
      BY <2>3 DEF Free, Awaits
    <3>2. x.stage # "submit"
      BY <2>3 DEF Free, Awaits
    <3> QED
      BY <3>1, <3>2
  <2> QED
    BY <1>4, <2>1, <2>2, <2>3 DEF Calls
<1> QED
  BY <1>1, <1>2, <1>3, <1>4

\* Every handler writes only what the columns and the kernel's answers allow.
LEMMA TypeStep ==
    ASSUME TypeOK, [Next]_vars
    PROVE  TypeOK'
<1> USE TrackAssumption DEF TypeOK, Rows, NoRow, Idle, Seen, schemaVars, trackVars, kernelVars
<1>1. ASSUME NEW c \in Callers, PrepareAsked(c) PROVE TypeOK'
  <2>1. call' \in [Callers -> Calls]
    BY <1>1, CallFacts DEF PrepareAsked
  <2> QED
    BY <1>1, <2>1 DEF PrepareAsked, Fresh, UnderWay
<1>2. ASSUME NEW c \in Callers, RefreshAsked(c) PROVE TypeOK'
  <2>1. call' \in [Callers -> Calls]
    BY <1>2, CallFacts DEF RefreshAsked
  <2>2. UNCHANGED <<trackVars, post, sync, stream, restarts, kernelVars>>
    BY <1>2 DEF RefreshAsked
  <2> QED
    BY <2>1, <2>2
<1>3. ASSUME NEW c \in Callers, NEW j \in Jobs, Claim(c, j) PROVE TypeOK'
  BY <1>3, CallFacts DEF Claim, Claimed, Submitted, Claims, UnderWay
<1>4. ASSUME NEW c \in Callers, Reuse(c) PROVE TypeOK'
  <2>1. call' \in [Callers -> Calls]
    BY <1>4, CallFacts DEF Reuse
  <2> QED
    BY <1>4, <2>1 DEF Reuse, Fresh
<1>5. ASSUME NEW c \in Callers, SubmissionAnswered(c) PROVE TypeOK'
  <2>1. call' \in [Callers -> Calls]
    BY <1>5, CallFacts DEF SubmissionAnswered
  <2>2. status' \in {"absent", "preparing", "ready", "failed", "expired"}
    BY <1>5 DEF SubmissionAnswered
  <2>3. due' \in BOOLEAN
    BY <1>5 DEF SubmissionAnswered
  <2>4. UNCHANGED <<job, art, schemaVars, post, sync, stream, restarts, kernelVars>>
    BY <1>5 DEF SubmissionAnswered
  <2> QED
    BY <2>1, <2>2, <2>3, <2>4
<1>6. ASSUME NEW c \in Callers, SubmissionUnknown(c) PROVE TypeOK'
  BY <1>6, CallFacts DEF SubmissionUnknown
<1>7. CASE StartSync
  BY <1>7 DEF StartSync, Unsettled, UnderWay
<1>8. CASE JobAnswered
  BY <1>8 DEF JobAnswered
<1>9. CASE ArtifactsAnswered
  BY <1>9 DEF ArtifactsAnswered
<1>10. CASE SyncUnanswered
  BY <1>10 DEF SyncUnanswered
<1>11. CASE ApplySync
  <2>1. sync.job \in Jobs
    BY <1>11 DEF ApplySync
  <2>2. /\ status' \in {"ready", "failed", "preparing"}
        /\ due' \in BOOLEAN
        /\ job' \in Jobs \cup {None} /\ art' \in Jobs \cup {None}
    BY <1>11, <2>1 DEF ApplySync, PublishArtifact
  <2>3. sync' = Idle /\ UNCHANGED <<schemaVars, post, call, stream, restarts, kernelVars>>
    BY <1>11 DEF ApplySync
  <2> QED
    BY <2>2, <2>3
<1>12. CASE TimePasses
  BY <1>12 DEF TimePasses
<1>13. CASE Expire
  BY <1>13 DEF Expire, Fresh
<1>14. CASE Restart
  <2>1. call' \in [Callers -> Calls]
    BY <1>14, CallFacts DEF Restart
  <2> QED
    BY <1>14, <2>1 DEF Restart
<1>15. ASSUME NEW m \in Streams, Stream(m) PROVE TypeOK'
  BY <1>15 DEF Stream
<1>16. ASSUME NEW m \in Streams, FileAnswered(m) PROVE TypeOK'
  BY <1>16 DEF FileAnswered
<1>17. ASSUME NEW m \in Streams, StreamEnds(m) PROVE TypeOK'
  BY <1>17 DEF StreamEnds
<1>18. ASSUME NEW m \in Streams, ApplyMissingFile(m) PROVE TypeOK'
  BY <1>18 DEF ApplyMissingFile
<1>19. CASE RenameTracks
  BY <1>19 DEF RenameTracks
<1>20. CASE CopyTracks
  BY <1>20 DEF CopyTracks
<1>21. CASE StopInBetween
  BY <1>21 DEF StopInBetween
<1>22. ASSUME NEW j \in Jobs, Accept(j) PROVE TypeOK'
  BY <1>22 DEF Accept
<1>23. ASSUME NEW j \in Jobs, Refuse(j) PROVE TypeOK'
  BY <1>23 DEF Refuse
<1>24. ASSUME NEW j \in Jobs, Lose(j) PROVE TypeOK'
  BY <1>24 DEF Lose
<1>25. ASSUME NEW j \in Jobs, JobEnds(j) PROVE TypeOK'
  BY <1>25 DEF JobEnds
<1>26. ASSUME NEW j \in Jobs, CleanUp(j) PROVE TypeOK'
  BY <1>26 DEF CleanUp
<1>27. CASE UNCHANGED vars
  BY <1>27 DEF vars
<1> QED
  BY <1>1, <1>2, <1>3, <1>4, <1>5, <1>6, <1>7, <1>8, <1>9, <1>10, <1>11, <1>12,
     <1>13, <1>14, <1>15, <1>16, <1>17, <1>18, <1>19, <1>20, <1>21, <1>22,
     <1>23, <1>24, <1>25, <1>26, <1>27
     DEF Next, Application, MigrateTracksToOwners, Kernel

\* Type correctness of the row, the requests under way and the kernel's jobs.
THEOREM TypeCorrect == Spec => []TypeOK
<1>1. ASSUME Init PROVE TypeOK
  <2>1. /\ status \in {"absent", "preparing", "ready", "failed", "expired"}
        /\ {job, art} \subseteq Jobs \cup {None} /\ due \in BOOLEAN
    BY <1>1 DEF Init, RowIs
  <2>2. /\ post \in [Jobs -> {"unused", "sent", "accepted", "refused", "lost"}]
        /\ kjob \in [Jobs -> {"absent", "active", "succeeded", "failed"}]
        /\ files \subseteq Jobs
    BY <1>1, TrackAssumption DEF Init, KernelHas
  <2>3. renamed \in Rows /\ schema \in {"old", "renamed", "new"}
    BY <1>1 DEF Init, Rows, NoRow
  <2>4. call \in [Callers -> Calls] /\ restarts \in 0 .. MaxRestarts
    BY <1>1, CallFacts, TrackAssumption DEF Init
  <2> QED
    BY <1>1, <2>1, <2>2, <2>3, <2>4 DEF Init, TypeOK
<1>2. TypeOK /\ [Next]_vars => TypeOK'
  BY TypeStep
<1> QED
  BY <1>1, <1>2, PTL DEF Spec

-----------------------------------------------------------------------------
(* A ready track is playable                                               *)

\* A row that says "ready" describes the artifact of its job, which succeeded.
Playable(row) ==
    row.status = "ready" => row.job # None /\ row.art = row.job /\ kjob[row.job] = "succeeded"

\* The kernel knows only the jobs it accepted, so a late POST begins a job anew.
KernelInv == \A j \in Jobs : post[j] # "accepted" => kjob[j] = "absent"

\* What a synchronisation saw of a job that succeeded stays true until it is applied.
SyncInv == sync.seen \in {"listing", "audio"} => kjob[sync.job] = "succeeded"

\* The file and the checksum of a media request were read from one row.
StreamInv == \A m \in Streams : stream[m].sum = stream[m].job \/ stream[m] = Idle

IInv ==
    /\ Playable([status |-> status, job |-> job, art |-> art])
    /\ Playable(renamed)
    /\ KernelInv /\ SyncInv /\ StreamInv

\* Every step keeps row, renamed row, synchronisation and kernel together.
LEMMA InvariantStep ==
    ASSUME TypeOK, IInv, [Next]_vars
    PROVE  IInv'
<1> USE TrackAssumption DEF IInv, Playable, KernelInv, SyncInv, StreamInv, TypeOK, Rows, NoRow, Idle, Seen,
        Free, Awaits, schemaVars, trackVars, kernelVars
<1>1. ASSUME NEW c \in Callers, PrepareAsked(c) PROVE IInv'
  BY <1>1 DEF PrepareAsked, Fresh, UnderWay
<1>2. ASSUME NEW c \in Callers, RefreshAsked(c) PROVE IInv'
  BY <1>2 DEF RefreshAsked
<1>3. ASSUME NEW c \in Callers, NEW j \in Jobs, Claim(c, j) PROVE IInv'
  BY <1>3 DEF Claim, Claimed, Submitted, Claims, UnderWay
<1>4. ASSUME NEW c \in Callers, Reuse(c) PROVE IInv'
  BY <1>4 DEF Reuse, Fresh
<1>5. ASSUME NEW c \in Callers, SubmissionAnswered(c) PROVE IInv'
  BY <1>5 DEF SubmissionAnswered
<1>6. ASSUME NEW c \in Callers, SubmissionUnknown(c) PROVE IInv'
  BY <1>6 DEF SubmissionUnknown
<1>7. CASE StartSync
  BY <1>7 DEF StartSync, Unsettled, UnderWay
<1>8. CASE JobAnswered
  BY <1>8 DEF JobAnswered
<1>9. CASE ArtifactsAnswered
  BY <1>9 DEF ArtifactsAnswered
<1>10. CASE SyncUnanswered
  BY <1>10 DEF SyncUnanswered
<1>11. CASE ApplySync
  BY <1>11 DEF ApplySync, PublishArtifact, FailedAnswers
<1>12. CASE TimePasses
  BY <1>12 DEF TimePasses
<1>13. CASE Expire
  BY <1>13 DEF Expire, Fresh
<1>14. CASE Restart
  BY <1>14 DEF Restart
<1>15. ASSUME NEW m \in Streams, Stream(m) PROVE IInv'
  BY <1>15 DEF Stream
<1>16. ASSUME NEW m \in Streams, FileAnswered(m) PROVE IInv'
  BY <1>16 DEF FileAnswered
<1>17. ASSUME NEW m \in Streams, StreamEnds(m) PROVE IInv'
  BY <1>17 DEF StreamEnds
<1>18. ASSUME NEW m \in Streams, ApplyMissingFile(m) PROVE IInv'
  BY <1>18 DEF ApplyMissingFile
<1>19. CASE RenameTracks
  BY <1>19 DEF RenameTracks
<1>20. CASE CopyTracks
  BY <1>20 DEF CopyTracks
<1>21. CASE StopInBetween
  BY <1>21 DEF StopInBetween
<1>22. ASSUME NEW j \in Jobs, Accept(j) PROVE IInv'
  BY <1>22 DEF Accept
<1>23. ASSUME NEW j \in Jobs, Refuse(j) PROVE IInv'
  BY <1>23 DEF Refuse
<1>24. ASSUME NEW j \in Jobs, Lose(j) PROVE IInv'
  BY <1>24 DEF Lose
<1>25. ASSUME NEW j \in Jobs, JobEnds(j) PROVE IInv'
  BY <1>25 DEF JobEnds
<1>26. ASSUME NEW j \in Jobs, CleanUp(j) PROVE IInv'
  BY <1>26 DEF CleanUp
<1>27. CASE UNCHANGED vars
  BY <1>27 DEF vars
<1> QED
  BY <1>1, <1>2, <1>3, <1>4, <1>5, <1>6, <1>7, <1>8, <1>9, <1>10, <1>11, <1>12,
     <1>13, <1>14, <1>15, <1>16, <1>17, <1>18, <1>19, <1>20, <1>21, <1>22,
     <1>23, <1>24, <1>25, <1>26, <1>27
     DEF Next, Application, MigrateTracksToOwners, Kernel

\* The invariant holds in every reachable state.
THEOREM Invariant == Spec => []IInv
<1>1. Init => IInv
  BY TrackAssumption DEF Init, IInv, Playable, KernelInv, SyncInv, StreamInv, NoRow, Idle, RowIs, KernelHas
<1>2. TypeOK /\ IInv /\ [Next]_vars => IInv'
  BY InvariantStep
<1> QED
  BY <1>1, <1>2, TypeCorrect, PTL DEF Spec

\* A ready track names the succeeded job its artifact columns describe, and listeners get
\* the file whose checksum is announced, in any interleaving of answers and restarts.
THEOREM ReadyTracksPlay == Spec => []ReadyIsPlayable
<1>1. TypeOK /\ IInv => ReadyIsPlayable
  BY TrackAssumption DEF TypeOK, IInv, Playable, StreamInv, Idle, ReadyIsPlayable
<1> QED
  BY <1>1, TypeCorrect, Invariant, PTL

-----------------------------------------------------------------------------
(* A preparation is not taken over                                         *)

\* Only an answer about a job that succeeded replaces the job of a preparing track.
LEMMA ClaimStep ==
    ASSUME TypeOK, [Next]_vars, UnderWay, schema = "new", job' # job
    PROVE  sync.seen = "audio" /\ job' = sync.job
<1> USE TrackAssumption DEF TypeOK, schemaVars, trackVars
<1>1. ASSUME NEW c \in Callers, PrepareAsked(c) PROVE sync.seen = "audio" /\ job' = sync.job
  BY <1>1 DEF PrepareAsked, Fresh, UnderWay
<1>2. ASSUME NEW c \in Callers, RefreshAsked(c) PROVE sync.seen = "audio" /\ job' = sync.job
  BY <1>2 DEF RefreshAsked
<1>3. ASSUME NEW c \in Callers, NEW j \in Jobs, Claim(c, j) PROVE sync.seen = "audio" /\ job' = sync.job
  BY <1>3 DEF Claim, Claimed, Submitted, Claims, UnderWay
<1>4. ASSUME NEW c \in Callers, Reuse(c) PROVE sync.seen = "audio" /\ job' = sync.job
  BY <1>4 DEF Reuse, Fresh
<1>5. ASSUME NEW c \in Callers, SubmissionAnswered(c) PROVE sync.seen = "audio" /\ job' = sync.job
  BY <1>5 DEF SubmissionAnswered
<1>6. ASSUME NEW c \in Callers, SubmissionUnknown(c) PROVE sync.seen = "audio" /\ job' = sync.job
  BY <1>6 DEF SubmissionUnknown
<1>7. CASE StartSync
  BY <1>7 DEF StartSync, Unsettled, UnderWay
<1>8. CASE JobAnswered
  BY <1>8 DEF JobAnswered
<1>9. CASE ArtifactsAnswered
  BY <1>9 DEF ArtifactsAnswered
<1>10. CASE SyncUnanswered
  BY <1>10 DEF SyncUnanswered
<1>11. CASE ApplySync
  BY <1>11 DEF ApplySync, PublishArtifact, FailedAnswers
<1>12. CASE TimePasses
  BY <1>12 DEF TimePasses
<1>13. CASE Expire
  BY <1>13 DEF Expire, Fresh
<1>14. CASE Restart
  BY <1>14 DEF Restart
<1>15. ASSUME NEW m \in Streams, Stream(m) PROVE sync.seen = "audio" /\ job' = sync.job
  BY <1>15 DEF Stream
<1>16. ASSUME NEW m \in Streams, FileAnswered(m) PROVE sync.seen = "audio" /\ job' = sync.job
  BY <1>16 DEF FileAnswered
<1>17. ASSUME NEW m \in Streams, StreamEnds(m) PROVE sync.seen = "audio" /\ job' = sync.job
  BY <1>17 DEF StreamEnds
<1>18. ASSUME NEW m \in Streams, ApplyMissingFile(m) PROVE sync.seen = "audio" /\ job' = sync.job
  BY <1>18 DEF ApplyMissingFile
<1>19. CASE RenameTracks
  BY <1>19 DEF RenameTracks
<1>20. CASE CopyTracks
  BY <1>20 DEF CopyTracks
<1>21. CASE StopInBetween
  BY <1>21 DEF StopInBetween
<1>22. ASSUME NEW j \in Jobs, Accept(j) PROVE sync.seen = "audio" /\ job' = sync.job
  BY <1>22 DEF Accept
<1>23. ASSUME NEW j \in Jobs, Refuse(j) PROVE sync.seen = "audio" /\ job' = sync.job
  BY <1>23 DEF Refuse
<1>24. ASSUME NEW j \in Jobs, Lose(j) PROVE sync.seen = "audio" /\ job' = sync.job
  BY <1>24 DEF Lose
<1>25. ASSUME NEW j \in Jobs, JobEnds(j) PROVE sync.seen = "audio" /\ job' = sync.job
  BY <1>25 DEF JobEnds
<1>26. ASSUME NEW j \in Jobs, CleanUp(j) PROVE sync.seen = "audio" /\ job' = sync.job
  BY <1>26 DEF CleanUp
<1>27. CASE UNCHANGED vars
  BY <1>27 DEF vars
<1> QED
  BY <1>1, <1>2, <1>3, <1>4, <1>5, <1>6, <1>7, <1>8, <1>9, <1>10, <1>11, <1>12,
     <1>13, <1>14, <1>15, <1>16, <1>17, <1>18, <1>19, <1>20, <1>21, <1>22,
     <1>23, <1>24, <1>25, <1>26, <1>27
     DEF Next, Application, MigrateTracksToOwners, Kernel

\* Concurrent, repeated and late prepare and refresh requests leave a preparation alone.
THEOREM ClaimsAreExclusive == Spec => ClaimIsExclusive
<1>1. TypeOK /\ [Next]_vars =>
        [UnderWay /\ schema = "new" /\ job' # job => sync.seen = "audio" /\ job' = sync.job]_vars
  BY ClaimStep
<1> QED
  BY <1>1, TypeCorrect, PTL DEF Spec, ClaimIsExclusive
=============================================================================
