--------------------------- MODULE TrackLifecycle ---------------------------
(***************************************************************************)
(* One track of the application and the kernel jobs it submits             *)
(* (bili-music-app/src/lib/tracks.ts, db.ts, kernelClient.ts,              *)
(* trackMediaProxy.ts, app/api/tracks).  Code between two awaits of a Node *)
(* handler is one step; every answer of the kernel is applied later than   *)
(* it was given, a request or its answer may be lost or late, and the      *)
(* application may be restarted, which ends every handler at its await.    *)
(***************************************************************************)
EXTENDS Naturals, FiniteSets

CONSTANTS
    Jobs,       \* kernel job ids this track may come to use
    Callers,    \* concurrent prepare and refresh requests
    Streams,    \* concurrent media requests of listeners
    MaxRestarts,    \* bound: restarts of the application
    None        \* a NULL column

ASSUME TrackAssumption == None \notin Jobs /\ MaxRestarts \in Nat

VARIABLES
    status,     \* tracks.status, "absent" without a row
    job,        \* tracks.kernel_job_id
    art,        \* the job whose audio artifact_name and artifact_sha256 describe
    due,        \* whether tracks.expires_at has passed
    schema,     \* the table of tracks: "old" (of an earlier version), "renamed" or "new"
    renamed,    \* the row in the renamed table
    post,       \* the POST of each job: "unused", on its way, or its answer
    call,       \* what each prepare or refresh request awaits
    sync,       \* the one synchronisation in flight: its job and what it has seen
    stream,     \* the job each media request was sent for, the checksum it read, the answer
    restarts,
    kjob,       \* kernel: jobs.status, "absent" without a row
    files       \* kernel: jobs whose audio file exists

schemaVars == <<schema, renamed>>
trackVars  == <<status, job, art, due, schemaVars>>
kernelVars == <<kjob, files>>
vars       == <<trackVars, post, call, sync, stream, restarts, kernelVars>>

Rows == [status : {"absent", "preparing", "ready", "failed", "expired"}, job : Jobs \cup {None}, art : Jobs \cup {None}]
NoRow == [status |-> "absent", job |-> None, art |-> None]

\* Nothing in flight.
Idle == [job |-> None, seen |-> "idle"]
Seen == {"asked", "missing", "active", "failed", "listing", "audio", "silent", "error"}

\* A request awaits the kernel profile, or the submission of its job.
Awaits(stage, force, j) == [stage |-> stage, force |-> force, job |-> j]
Free == Awaits("free", FALSE, None)
Calls ==
    [stage : {"profile"}, force : BOOLEAN, job : {None}] \cup [stage : {"submit"}, force : BOOLEAN, job : Jobs] \cup {Free}

TypeOK ==
    /\ status \in {"absent", "preparing", "ready", "failed", "expired"}
    /\ {job, art} \subseteq Jobs \cup {None} /\ due \in BOOLEAN
    /\ schema \in {"old", "renamed", "new"} /\ renamed \in Rows
    /\ post \in [Jobs -> {"unused", "sent", "accepted", "refused", "lost"}]
    /\ call \in [Callers -> Calls]
    /\ sync \in [job : Jobs, seen : Seen] \cup {Idle}
    /\ stream \in [Streams -> [job : Jobs, sum : Jobs, seen : {"asked", "missing", "served"}] \cup {Idle}]
    /\ restarts \in 0 .. MaxRestarts
    /\ kjob \in [Jobs -> {"absent", "active", "succeeded", "failed"}]
    /\ files \subseteq Jobs

\* The row of an earlier version: none, or one whose job the kernel knows.
RowIs(s, j, a) == status = s /\ job = j /\ art = a /\ due = FALSE

KernelHas(j, state) ==
    /\ post = [k \in Jobs |-> IF k = j THEN "accepted" ELSE "unused"]
    /\ kjob = [k \in Jobs |-> IF k = j THEN state ELSE "absent"]
    /\ files = IF state = "succeeded" THEN {j} ELSE {}

Init ==
    /\ \/ schema = "new" /\ RowIs("absent", None, None) /\ KernelHas(None, "absent")
       \/ /\ schema = "old"
          /\ \E j \in Jobs :
                \/ RowIs("preparing", j, None) /\ KernelHas(j, "active")
                \/ RowIs("ready", j, j) /\ KernelHas(j, "succeeded")
                \/ RowIs("failed", j, None) /\ KernelHas(j, "failed")
    /\ renamed = NoRow
    /\ call = [c \in Callers |-> Free] /\ sync = Idle
    /\ stream = [m \in Streams |-> Idle]
    /\ restarts = 0

-----------------------------------------------------------------------------
(* Helpers                                                                 *)

\* expireIfNeeded: what a handler that reads the row makes of its status.
Fresh == IF status = "ready" /\ due THEN "expired" ELSE status

\* A track that is being prepared, which nobody prepares again.
UnderWay == status = "preparing" /\ job # None

\* Mutant: the look at the track before the profile was awaited is trusted.
ClaimsTrusted(force) == TRUE

\* The early returns of prepareTrack and the WHERE clause of claimTrackPreparation.
Claims(force) == ~UnderWay /\ (force \/ Fresh # "ready")

\* Mutant: every track is synchronised.
UnsettledAlways == TRUE

\* The tracks getSyncedTrack asks the kernel about.
Unsettled == UnderWay

\* Mutant: a cancelled or failed job counts as unfinished.
FailedAnswersNone == {"missing", "silent"}

\* Answers of the kernel that settle the job as failed.
FailedAnswers == {"failed", "missing", "silent"}

\* Mutant: the artifact columns are written without the job they belong to.
PublishArtifactOnly(j) == art' = j /\ UNCHANGED job

\* syncSucceededJob writes the job and its artifact in one UPDATE.
PublishArtifact(j) == art' = j /\ job' = j

-----------------------------------------------------------------------------
(* prepareTrack and refreshTrack                                           *)

\* POST tracks/prepare: a track that is ready or under way is the answer at once ...
PrepareAsked(c) ==
    /\ call[c] = Free
    /\ status' = Fresh
    /\ IF Fresh = "ready" \/ UnderWay THEN UNCHANGED call
       ELSE call' = [call EXCEPT ![c] = Awaits("profile", FALSE, None)]
    /\ UNCHANGED <<job, art, due, schemaVars, post, sync, stream, restarts, kernelVars>>

\* ... and POST tracks/{id}/refresh: it prepares a ready track anew.
RefreshAsked(c) ==
    /\ call[c] = Free /\ status # "absent"
    /\ call' = [call EXCEPT ![c] = Awaits("profile", TRUE, None)]
    /\ UNCHANGED <<trackVars, post, sync, stream, restarts, kernelVars>>

\* claimTrackPreparation; createOrReuseTrack made the row, if there was none.
Claimed(j) == status' = "preparing" /\ job' = j /\ art' = None /\ due' = FALSE

\* submitKernelAudioJob: the POST, with the job id and the kernel profile, is on its way.
Submitted(j) == post' = [post EXCEPT ![j] = "sent"]

\* The kernel names the profile: prepareTrack looks at the row again, claims the track
\* and sends the POST.
Claim(c, j) ==
    /\ call[c].stage = "profile" /\ Claims(call[c].force)
    /\ post[j] = "unused"
    /\ Claimed(j)
    /\ Submitted(j)
    /\ call' = [call EXCEPT ![c] = Awaits("submit", call[c].force, j)]
    /\ UNCHANGED <<schemaVars, sync, stream, restarts, kernelVars>>

\* There is nothing to prepare any more; or the kernel does not answer.
Reuse(c) ==
    /\ call[c].stage = "profile"
    /\ \/ ~Claims(call[c].force) /\ status' = Fresh
       \/ UNCHANGED status
    /\ call' = [call EXCEPT ![c] = Free]
    /\ UNCHANGED <<job, art, due, schemaVars, post, sync, stream, restarts, kernelVars>>

\* The answer to the POST: accepted, or definitively rejected ...
SubmissionAnswered(c) ==
    /\ call[c].stage = "submit"
    /\ \/ post[call[c].job] = "accepted" /\ UNCHANGED <<status, due>>
       \/ post[call[c].job] = "refused" /\ status' = "failed" /\ due' = FALSE
    /\ call' = [call EXCEPT ![c] = Free]
    /\ UNCHANGED <<job, art, schemaVars, post, sync, stream, restarts, kernelVars>>

\* ... or none: the outcome is unknown and the track is "preparing".
SubmissionUnknown(c) ==
    /\ call[c].stage = "submit"
    /\ status' = "preparing" /\ due' = FALSE
    /\ call' = [call EXCEPT ![c] = Free]
    /\ UNCHANGED <<job, art, schemaVars, post, sync, stream, restarts, kernelVars>>

-----------------------------------------------------------------------------
(* getSyncedTrack                                                          *)

\* The first who asks for the status of the track, alone, in a batch or in a list; the
\* others wait for the same answer.
StartSync ==
    /\ sync = Idle
    /\ Unsettled
    /\ sync' = [job |-> job, seen |-> "asked"]
    /\ UNCHANGED <<trackVars, post, call, stream, restarts, kernelVars>>

\* GET /v1/jobs/{id}; a succeeded job leads to a second request for its artifacts.
JobAnswered ==
    /\ sync.seen = "asked"
    /\ sync' = [sync EXCEPT !.seen =
                  CASE kjob[sync.job] = "absent"    -> "missing"
                    [] kjob[sync.job] = "succeeded" -> "listing"
                    [] OTHER                        -> kjob[sync.job]]
    /\ UNCHANGED <<trackVars, post, call, stream, restarts, kernelVars>>

ArtifactsAnswered ==
    /\ sync.seen = "listing"
    /\ sync' = [sync EXCEPT !.seen = IF sync.job \in files THEN "audio" ELSE "silent"]
    /\ UNCHANGED <<trackVars, post, call, stream, restarts, kernelVars>>

\* Network errors, timeouts and the other retryable answers.
SyncUnanswered ==
    /\ sync.seen \in {"asked", "listing"}
    /\ sync' = [sync EXCEPT !.seen = "error"]
    /\ UNCHANGED <<trackVars, post, call, stream, restarts, kernelVars>>

\* The row is updated whatever it says by now.
ApplySync ==
    /\ sync.seen \notin {"idle", "asked", "listing"}
    /\ CASE sync.seen = "audio"          -> status' = "ready" /\ due' = FALSE /\ PublishArtifact(sync.job)
         [] sync.seen \in FailedAnswers  -> status' = "failed" /\ due' = FALSE /\ UNCHANGED <<job, art>>
         [] OTHER                        -> status' = "preparing" /\ UNCHANGED <<job, art, due>>
    /\ sync' = Idle
    /\ UNCHANGED <<schemaVars, post, call, stream, restarts, kernelVars>>

-----------------------------------------------------------------------------
(* Expiry and media                                                        *)

\* TRACK_ARTIFACT_TTL_SECONDS have passed.
TimePasses ==
    /\ status = "ready" /\ ~due /\ due' = TRUE
    /\ UNCHANGED <<status, job, art, schemaVars, post, call, sync, stream, restarts, kernelVars>>

\* Whoever reads the status, and markExpiredReadyTracks for the list.
Expire ==
    /\ status # Fresh /\ status' = Fresh
    /\ UNCHANGED <<job, art, due, schemaVars, post, call, sync, stream, restarts, kernelVars>>

\* proxyTrackMedia: the row is read once, for the file to fetch and for the headers.
Stream(m) ==
    /\ stream[m] = Idle
    /\ status = "ready" /\ job # None /\ art # None
    /\ IF due THEN status' = "expired" /\ UNCHANGED stream
       ELSE stream' = [stream EXCEPT ![m] = [job |-> job, sum |-> art, seen |-> "asked"]] /\ UNCHANGED status
    /\ UNCHANGED <<job, art, due, schemaVars, post, call, sync, restarts, kernelVars>>

\* The listener gets the file with its checksum, or the kernel has it no more.
FileAnswered(m) ==
    /\ stream[m].seen = "asked"
    /\ stream' = [stream EXCEPT ![m].seen = IF stream[m].job \in files THEN "served" ELSE "missing"]
    /\ UNCHANGED <<trackVars, post, call, sync, restarts, kernelVars>>

\* The body ends, the listener leaves, or another error that changes nothing.
StreamEnds(m) ==
    /\ stream[m].seen \in {"asked", "served"}
    /\ stream' = [stream EXCEPT ![m] = Idle]
    /\ UNCHANGED <<trackVars, post, call, sync, restarts, kernelVars>>

ApplyMissingFile(m) ==
    /\ stream[m].seen = "missing"
    /\ status' = "expired"
    /\ stream' = [stream EXCEPT ![m] = Idle]
    /\ UNCHANGED <<job, art, due, schemaVars, post, call, sync, restarts, kernelVars>>

\* The process ends and starts again: only the row is left.
Restart ==
    /\ restarts < MaxRestarts /\ restarts' = restarts + 1
    /\ call' = [c \in Callers |-> Free] /\ sync' = Idle /\ stream' = [m \in Streams |-> Idle]
    /\ UNCHANGED <<trackVars, post, kernelVars>>

-----------------------------------------------------------------------------
(* The first start after an update: migrateTracksToOwners, before any      *)
(* request.  Each statement is committed by itself.                        *)

RenameTracks ==
    /\ schema = "old" /\ schema' = "renamed"
    /\ renamed' = [status |-> status, job |-> job, art |-> art]
    /\ status' = "absent" /\ job' = None /\ art' = None
    /\ UNCHANGED <<due, post, call, sync, stream, restarts, kernelVars>>

CopyTracks ==
    /\ schema = "renamed" /\ schema' = "new"
    /\ status' = renamed.status /\ job' = renamed.job /\ art' = renamed.art
    /\ renamed' = NoRow
    /\ UNCHANGED <<due, post, call, sync, stream, restarts, kernelVars>>

\* The process ends in between: the next start makes a new table and copies nothing.
StopInBetween ==
    /\ schema = "renamed" /\ schema' = "new"
    /\ restarts < MaxRestarts /\ restarts' = restarts + 1
    /\ UNCHANGED <<status, job, art, due, renamed, post, call, sync, stream, kernelVars>>

-----------------------------------------------------------------------------
(* The kernel, as routers/jobs.py answers                                  *)

Accept(j) ==
    /\ post[j] = "sent"
    /\ post' = [post EXCEPT ![j] = "accepted"]
    /\ kjob' = [kjob EXCEPT ![j] = "active"]
    /\ UNCHANGED <<trackVars, call, sync, stream, restarts, files>>

\* Busy, profile leased, invalid: answered without a job.
Refuse(j) ==
    /\ post[j] = "sent"
    /\ post' = [post EXCEPT ![j] = "refused"]
    /\ UNCHANGED <<trackVars, call, sync, stream, restarts, kernelVars>>

Lose(j) ==
    /\ post[j] = "sent"
    /\ post' = [post EXCEPT ![j] = "lost"]
    /\ UNCHANGED <<trackVars, call, sync, stream, restarts, kernelVars>>

JobEnds(j) ==
    /\ kjob[j] = "active"
    /\ \/ kjob' = [kjob EXCEPT ![j] = "succeeded"] /\ files' = files \cup {j}
       \/ kjob' = [kjob EXCEPT ![j] = "failed"] /\ UNCHANGED files
    /\ UNCHANGED <<trackVars, post, call, sync, stream, restarts>>

\* cleanup_old_artifacts
CleanUp(j) ==
    /\ j \in files
    /\ files' = files \ {j}
    /\ UNCHANGED <<trackVars, post, call, sync, stream, restarts, kjob>>

-----------------------------------------------------------------------------

Application ==
    /\ schema = "new"
    /\ \/ \E c \in Callers :
             \/ PrepareAsked(c) \/ RefreshAsked(c) \/ (\E j \in Jobs : Claim(c, j)) \/ Reuse(c)
             \/ SubmissionAnswered(c) \/ SubmissionUnknown(c)
       \/ StartSync \/ JobAnswered \/ ArtifactsAnswered \/ SyncUnanswered \/ ApplySync
       \/ TimePasses \/ Expire \/ Restart
       \/ \E m \in Streams : Stream(m) \/ FileAnswered(m) \/ StreamEnds(m) \/ ApplyMissingFile(m)

MigrateTracksToOwners == RenameTracks \/ CopyTracks \/ StopInBetween

Kernel == \E j \in Jobs : Accept(j) \/ Refuse(j) \/ Lose(j) \/ JobEnds(j) \/ CleanUp(j)

Next == Application \/ MigrateTracksToOwners \/ Kernel

Spec == Init /\ [][Next]_vars

(* A call of the kernel ends after its time limit (readKernelJson); clients  *)
(* keep polling a preparing track, the kernel answers again and again, and   *)
(* its jobs end (KernelJobs!EverythingSettles).                              *)
Fairness ==
    /\ \A c \in Callers :
          /\ WF_vars((\E j \in Jobs : Claim(c, j)) \/ Reuse(c))
          /\ WF_vars(SubmissionAnswered(c) \/ SubmissionUnknown(c))
    /\ \A j \in Jobs :
          /\ WF_vars(Accept(j) \/ Refuse(j) \/ Lose(j))
          /\ WF_vars(JobEnds(j))
    /\ WF_vars(MigrateTracksToOwners)
    /\ WF_vars(StartSync /\ schema = "new") /\ WF_vars(ApplySync)
    /\ SF_vars(JobAnswered) /\ SF_vars(ArtifactsAnswered)

FairSpec == Spec /\ Fairness

-----------------------------------------------------------------------------
(* Properties                                                              *)

\* A ready track names the succeeded job whose artifact its columns describe, and a
\* listener gets the file whose checksum the headers announce, even when answers about an
\* older job arrive after the track was claimed again or the application was restarted.
ReadyIsPlayable ==
    /\ status = "ready" => job # None /\ art = job /\ kjob[job] = "succeeded"
    /\ \A m \in Streams : stream[m].seen = "served" => stream[m].sum = stream[m].job

\* The job of a preparing track is replaced by another one only by an answer about a
\* job that succeeded: concurrent and repeated prepare and refresh requests, each of which
\* looks at the track before and after an await, never take a preparation over.
ClaimIsExclusive ==
    [][UnderWay /\ schema = "new" /\ job' # job => sync.seen = "audio" /\ job' = sync.job]_vars

\* A track does not stay "preparing" for ever, whatever requests were lost and whenever
\* the application was restarted, and every request is answered.
TrackSettles ==
    /\ status = "preparing" ~> status # "preparing"
    /\ \A c \in Callers : call[c] # Free ~> call[c] = Free

\* API_USAGE.md: repeated prepare and refresh requests reuse the job in progress.  Not so
\* when a submission whose answer was lost is accepted after the track was claimed again.
OneJobInProgress == Cardinality({j \in Jobs : kjob[j] = "active"}) <= 1
=============================================================================
