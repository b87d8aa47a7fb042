# B-Music: TLA+ models, model checks and proofs

B-Music plays the audio of Bilibili and Douyin videos for a handful of listeners
on a small host. A browser talks to a Next.js application
(`src/bili-music-app`), the application talks over HTTP to a FastAPI kernel
(`src/kernel/app`), and a cron script on the host (`src/deploy/priority-guard.py`)
stops and restarts both containers when a more important service needs the
memory. This directory models the parts of that system whose correctness depends
on the order in which things happen, checks them with TLC on small instances and
proves the central facts of the kernel, of a login profile, of a track, of the library, of
the kept searches, of the player and of the guard with TLAPS for instances of any size.

Paths below are relative to `src/kernel/app` (kernel) and
`src/bili-music-app/src` (application) unless they start with `src/`.

## 1. The system: components, state, operations

| Component | State | Operations | Interacts with | Module |
|---|---|---|---|---|
| Job manager (`job_manager.py`, `routers/jobs.py`) | `jobs`, `artifacts` rows, job directories, set of runner tasks, media threads | submit, run, cancel, time limit, shutdown, startup recovery, hourly cleanup | profile leases, strategies, lookups (shared budget), the application (HTTP polling) | `KernelJobs` |
| Profiles and login (`profile_manager.py`, `routers/profiles.py`) | `profiles.active_job_id`, `profile_readers`, `login_sessions`, live login runtimes, QR files | start login, watch QR, expire, logout, cookie import, reader leases, recovery | job manager (same lease column), browser contexts, Bilibili passport API | `ProfileLogin` |
| Browser contexts (`browser/context_manager.py`, `browser/http_state.py`) | per-profile browser state, Chromium profile on disk, private cookie journal | open browser context, open request context, persist cookies, hand-over, shutdown | strategies, login, profile reads | `BrowserJar` |
| Douyin lookups (`douyin/detail.py`, `routers/douyin.py`) | browser slot semaphore, waiting count, 120 s detail cache | resolve link, fetch detail, retry | job manager budget, `douyin_music` strategy | `DouyinLookup` |
| Extraction strategies (`strategies/*.py`, `strategy_selector.py`) | files in the job directory | api_dash, browser_network, mse_sourcebuffer, douyin_music; mirrors and ranges | job manager, browser contexts | a call in `KernelJobs` |
| Media pipeline and artifacts (`media_pipeline.py`, `artifact_manager.py`) | files, manifest | probe, remux, transcode, atomic JSON writes | job manager | a thread in `KernelJobs` |
| Kernel search and read routes (`bilibili/*.py`, `routers/search.py`, `routers/videos.py`) | WBI key cache | search, favourites, video data | profile readers, request contexts | none |
| Application tracks (`lib/tracks.ts`, `lib/trackMediaProxy.ts`, `app/api/tracks`) | `tracks` rows, in-flight synchronisations | prepare, refresh, poll, media, expiry, rebuild of the table | kernel jobs over HTTP | `TrackLifecycle` |
| Application search (`lib/search/*`, `app/api/search`) | search sessions with frozen pages, provider calls under way | search, page, expire, evict | kernel search, candidates | `Search` |
| Playlists, library, ranges (`lib/playlists.ts`, `db.ts`, `playbackRanges.ts`, `interactions.ts`, `accountLibrary.ts`, `apiIdempotency.ts`) | playlists and entries, favourites, creators, interactions, ranges with revisions, receipts, candidates | add, remove, reorder, delete, save a range, replay, move the legacy library, rebuild a table | browser client, retries | `Library` |
| Account of a tab (`lib/accountClient.ts`, `accountRequest.ts`, `appOwner.ts`, `KernelLoginPanel.tsx`, `SearchBox.tsx`, `PlaylistDetailView.tsx`) | the account the tab knows, shared status poll, results and marks on screen | poll, log in and out, search, page, mark, edit, reload | kernel login, all API routes | `AccountTab` |
| Player (`components/PlayerDock.tsx`, `lib/clientPlayback.ts`, `playback*.ts`) | audio element, queue, preparing request, range in force | play, next, previous, modes, queue edits, wait for a prepared track, resume | track API, ranges, account | `Player` |
| Priority guard (`src/deploy/priority-guard.py`) | JSON state file, container states, memory ceiling | pause, resume, adjust memory | Docker | `PriorityGuard`, `KernelMemory` |
| Pages, OpenAPI, nginx, compose | none that changes in several steps | | | none |

## 2. Hard behaviours, and what makes each component correct

* **Job manager.** One event loop interleaves runners at their awaits; media work
  runs in threads that cannot be killed; cancel, time limit and shutdown all use
  `Task.cancel()` and can hit the same await; each handler commits several
  transactions and the process may die between them. Correct means: a lease is
  held for as long as the runner lives and returned afterwards, a terminal state
  is final, an accepted cancel excludes a success, an unfinished row has a
  runner, the shared budget is respected, a job that starts ends unless the cleanup
  of its strategy hangs, a success is served until its retention has passed.
* **Profiles and login.** One column is the lease of audio jobs and of every
  credential change; a login watcher task, a logout request, readers and recovery
  race for it. Correct means: credentials never change under a reader or a job,
  every lease is returned, no profile is stuck in a login nobody runs, no live
  browser outlives its session.
* **Browser contexts.** A cookie jar moves between a browser and an HTTP client
  with a journal on disk. Correct means: one owner at a time, and a crash at any
  point loses no acknowledged cookie.
* **Douyin lookups.** Bounded waiting for a browser slot, a cache with eviction,
  crash and timeout of the browser. Correct means: slots are returned, the queue
  bound holds, and what a lookup reports is what the page showed.
* **Application tracks.** The application learns the fate of a job only by
  polling; requests are lost, answers arrive late, a track is prepared again
  while an old answer is under way, the application restarts while it waits.
  Correct means: a ready track plays the job it names, a preparation is not taken
  over, and it ends.
* **Application search.** A search freezes its pages as they are visited; pages are
  fetched concurrently while sessions expire and are evicted. Correct means: a page
  once recorded does not change, no video is on two pages, no page is fetched
  twice at a time.
* **Library.** Requests arrive late, twice and from clients with an old view; cached
  candidates go away under the entries that link them; a legacy library moves to
  the first account. Correct means: links and positions stay consistent, a key
  makes one object, nothing an owner keeps changes without that owner's request,
  a range is saved only over the one its sender saw.
* **Account of a tab.** Other devices change the one login of the kernel at any
  time while requests of the tab are under way. Correct means: nothing of another account is
  shown or written, and the tab catches up.
* **Player.** Every handler awaits something, and the listener goes on pressing
  buttons. Correct means: track, range, sound and button belong to the current
  item, and the player does not stay busy.
* **Priority guard.** A script that may die between a Docker command and the
  write of its state file must still restart what it stopped, and nothing else (it does not
  always: section 7).

## 3. Modules

| Module | Models | Status |
|---|---|---|
| `KernelJobs` | job manager: admission, `run_job`, media worker, cancel, limit, shutdown, crash, recovery, cleanup | modelled but for database failures inside a step |
| `JobContract`, `KernelJobsRefinement` | what the kernel promises the application about jobs and leases, and the mapping that shows `KernelJobs` implements it | modelled |
| `KernelJobsProofs` | theorems about `KernelJobs` | proved |
| `ProfileLogin` | one profile: login sessions, logout, import, readers, recovery | partly: creation, listing and verification of profiles are left out |
| `BrowserJar` | the cookie jar of a profile: browser and HTTP contexts, journal, crash | modelled |
| `BrowserJarProofs` | theorems about `BrowserJar` | proved |
| `DouyinLookup` | pool of lookup browsers, cache, page callbacks, retry | partly: not links, parsing and downloads |
| `TrackLifecycle` | one application track against the kernel's jobs, over an unreliable link, with restarts and the rebuild of the table | partly: not strategies, byte ranges, lists |
| `LoginTrackProofs` | theorems about `ProfileLogin` and `TrackLifecycle`, which share nothing | proved |
| `Library` | the application's tables for its owners over the shared candidates | partly: not names, paging |
| `LibraryProofs` | theorems about `Library` | proved |
| `Search` | search sessions with frozen pages, provider calls, links, eviction | partly: not the order of videos and marks |
| `SearchProofs` | theorems about `Search` | proved |
| `Player` | the player of a tab | partly: not volume, history, seeking |
| `PlayerProofs` | theorems about `Player` | proved |
| `AccountTab` | the account of a tab and four users of it: login panel, search page, favourite mark, playlist page | partly: not cookies, rate limits, further pages |
| `LookupTabProofs` | theorems about `DouyinLookup` and `AccountTab`, which share lemmas about sequences without repetition | proved |
| `PriorityGuard` | the guard's pause and resume logic with its state file, beside an operator | partly: not the measurements and the event log |
| `KernelMemory` | the kernel's memory ceiling moved by the guard | modelled |
| `GuardProofs` | theorems about `PriorityGuard` and `KernelMemory` | proved |
| `MCKernelJobs`, `MCKernelMemory` | instances for TLC | |

The modules meet at named places. `ProfileLogin` and `KernelJobs` model the same
column `profiles.active_job_id` from its two sides: in `KernelJobs` the other side
is the constant `Mutator`, in `ProfileLogin` it is `Job`. `DouyinLookup` shares the
admission budget with `KernelJobs` (`Lookups` there). `TrackLifecycle` sees of the
kernel what `JobContract` promises. `BrowserJar` is what `ProfileLogin` calls an
open context. `AccountTab` sees of a login what its status request reports, and its
server side is the owner check in front of every request of `Library` and `Search`.
Both guard modules model one script; what couples them is only the order within a
run.

Definitions whose comment says "Mutant" are deliberate bugs: each is a variant of the
definition that follows it and is used by no specification. With the variant in
the place of the original, the property it belongs to is violated; that is how
we know the property depends on the code.

### 3.1 KernelJobs

`status`, `cancelReq` and `lock` are the columns `jobs.status`,
`jobs.cancel_requested` and `profiles.active_job_id`; `audio`, `saved` and `disk`
the artifact rows and the job directory. `pc[j]` is where the `run_job` coroutine
stands, `loop` the coroutine inside a loop segment, `intr[j]` a `CancelledError`
that is still to be delivered, `media[j]` the worker thread. The unit of a step is
one committed transaction: a segment between two awaits is not interleaved with
other segments, but a crash, a thread or the cleanup may come between its
transactions. An interrupted strategy first closes its browser and drains its
threads (`Unwind`, then `unwinding`), which has no limit and may fail, so that the
interruption is lost (`Unwound`; `unlimited` are the jobs whose limit was spent that way).
`expired` are the jobs whose retention has passed; `CleanupRemove` removes all of a
directory or a part of it (`torn`). `Submit`/`CreateTask`/`Rollback` are `create_job` and the route;
`Claim` .. `Publish` the happy path of `run_job`; `TimeLimit`, `Unwind`, `Unwound`, `Interrupted`,
`Settled`, `SettleExpires`, `SettleInterrupted`, `Terminate` its handlers;
`ReleaseLease` and `TaskDone` the `finally` clause and the done callback;
`Crash`, `Recover`, `ReportRecovered`, `Serve` a restart.

### 3.2 ProfileLogin

`pc[s]` is the preparation task of session `s`, then its watcher; `lo[l]` and
`im[i]` are logout and import requests; `open` the sessions whose managed context
is open; `login`, `session`, `readers`, `lock` the rows; `creds` and `qr` the files.
The end of a login writes the session's and the profile's status in two
transactions (`RecordSession`, `RecordProfile`); recovery looks at pending
sessions only, which is why `PendingIsRecoverable` matters.

### 3.3 BrowserJar

A cookie set is a version number, every change a server makes a new one. `op` is
what the holder of the profile's condition lock awaits (`load`, `launch`, `clear`,
`add`, `mark`, `hook`, `cookies`, `quit`, `save`, `request`, `storage`, `dump`), with
the snapshot it carries. `chrome` and `journal` survive a crash, `jar` does not.
`told` is history: the newest version a caller was told of.

### 3.4 DouyinLookup

`queue`, `free` and `waiting` are asyncio's semaphore and the counter beside it;
`look[c]` holds the locals of `_capture_detail` (the future, the latest payload) and
how the attempt will end; `shown` is history. A response handler checks whether the
lookup is over, then awaits the body, so `Response` may act after the future is
done and while the context closes. `chrome` are live browsers, `stray` browsers
left behind by a cancelled `browser.close()`. An entry of the cache vanishes when
it expires: the code drops it at the next look or insertion and never uses it.

### 3.5 TrackLifecycle

`status`, `job`, `art` and `due` are columns of a `tracks` row, `post[j]` the
submission of job `j` and its answer, `call[c]` what a prepare or refresh request
awaits (the profile, then the submission), `sync` the one synchronisation in flight
(the application shares it per track, so who joins it takes no step), `stream` the
media proxy's requests, `kjob` and `files` the kernel's side. Every answer is
applied in a later step than it was given. A request looks at the row, awaits the
profile, looks again and claims the row (`Claim`) or finds it taken (`Reuse`).
`Restart` ends every handler at its await. `RenameTracks`, `CopyTracks` and
`StopInBetween` are the three commits of `migrateTracksToOwners` at the first start
after an update, and a stop between them; until the table is rebuilt
no request is served, so `ClaimIsExclusive` speaks of the new table. A stop between rename and
copy leaves the rows in the renamed table, and the track is simply absent afterwards.

### 3.6 Library

SQLite calls are synchronous in Node, so a handler is one step. The requests of
clients are enabled whenever their arguments exist: that stands for late, repeated
and reordered ones. `cand` are the candidates every table links to, with the last
id handed out; `favorites`, `creators`, `lists`/`items`, `interactions`, `ranges`,
`receipts` are the tables. The tables meet only in the candidates, so `focus` picks
one of them for a behaviour; this keeps the state space in reach without hiding a
step. `edits` are ranges that clients send, each with the range it saw, so that
`NoBlindOverwrite` can speak about a sender's knowledge. `made` is history.
`MigrateLegacyLibrary` follows `accountLibrary.ts`; `RenameOld`,
`CreateFavoriteVideosTable`, `CopyOld`, `RestartInBetween` the rebuild of the
favourites table in three commits. `LibraryKept` speaks of the rows wherever the rebuild has
put them (`Kept`: the table, or while it is rebuilt the renamed one), so a copy that drops or
mixes up rows violates it; only a stop in between (`RestartInBetween`) is counted out, and
`UpgradeComplete` shows what that one costs (section 7). `Guests` keep a library too, take no
part in the migration and act in account mode without one (`currentAppOwnerId`). What the
model also shows: a migration can take an account over the limit of playlists, and
a repeated creation is answered with a list that has been deleted since (as the
receipt promises).

### 3.7 Search

`sessions` are rows of `search_sessions` with their recorded pages, `calls` provider
calls under way (`pendingPages` of `cache.ts`), `waiting` the requests that await one.
A request reads the session, its page and its local pool in one step, and records
the answer in a later one, when the session may have expired or been evicted.
Over-approximated: any client asks for any page of any search, the account of a
request and the rows of candidates are choices at each step. A request for a
recorded page changes nothing and is a stutter.

### 3.8 Player

`requests` are the loops of `waitForPreparedTrack`, each with its item and whether its
abort signal still lives; `waiting` is the newest press that awaits the account;
`track`, `range`, `busy`, `isPlaying` are what the screen shows, `audio` and `sounding`
the audio element, `autoPlay` the ref read when metadata arrives. What local storage
returns at a restore is any queue, since other tabs write it. `resumes` are the
requests for the latest range that presses on "play" have sent, each with whether the
player has left its item since (`Left`). Three history variables, which no guard reads, let the
properties speak exactly: `chosen` is the item that was last asked to be played, `cutOff`
says that appending a playlist has since cut the queue in front of the current position,
and `overridden` that the answer to a press that was left has since taken effect.
Both can happen in the program, in the run `Player` and under every theorem.
`ScreenIsConsistent` ties track, request and busy flag to `chosen` in every state, and
`chosen` to the queue while nothing is cut off; `SoundIsCurrent` does the same for what
sounds and the range in force until one of the two has happened. A new item asked for
ends both.

### 3.9 AccountTab

`login` is the one login of the kernel, changed by `LoginChanges` at any time;
`current` what the tab knows, `poll` the status request that all callers share, `own`
the panel's. A request carries the `sessionKey` the tab knew when it was sent;
`ContextHolds` is the server's comparison, made when the request arrives.
`user` picks which part of the tab a behaviour follows: `panel`, `search`, `dock` or
`list`; the parts share nothing but the account. `result`, `requests`, `latest`,
`loading`, `failure` are the search page with its aborts and retries; `write`, `dock`,
`details` the favourite mark; `playlist`, `page`, `edit` the playlist page, whose edit is a
request followed by a refresh. `stale`, `doubt` and `behind` are history: the result was
restored by a reload (and stays so when the account becomes known), the answer to a write was lost, the
playlist changed since it was last read. `masked` is the panel after somebody asked for
a QR code while another device's account is logged in; the next status repairs it.

### 3.10 PriorityGuard and KernelMemory

A run of the guard is `Run` (inspection and decision), a `DockerCall` per container,
and `RecordPause`/`RecordResume` (the write of the state file); `DockerFails` ends a
run anywhere. `calm`, `restarts`, `shaken` and `blind` are history: for how many runs the host has
been roomy, the restarts completed, a call that failed or an operator who acted during a run, until
a run makes containers and state file agree again, and a recorded streak that a held, latched
or failed run went past. Time is counted in runs: `Aged` makes every instant in the state
file one run older. `KernelMemory` has the arithmetic of the ceiling with the
script's numbers. A run takes three steps there, because the script takes seconds over
them: `ReadHost` (`/proc/meminfo`, `:205`), then, after the primary's health check,
`ReadKernel` (`docker stats`, `:159`) and `Update` (`docker update`, `:162`), or
`GiveUp` where it ends early. The host and the kernel's use change at any moment, also
between those steps. `avail`, `usage` and `stage` are the run's local variables;
`held`, `settled`, `grown` and `basis` are history, by which the properties say
how far a kernel that grows in between may carry the ceiling.

## 4. Runs, bounds and what they show

| Run | Instance | Properties | Shows |
|---|---|---|---|
| `KernelJobs` | two Bilibili jobs of one profile, one strategy each, one lookup, budget 2, workers may straggle; fairness | `LeaseDiscipline`, `UnfinishedHasRunner`, `CapacityBound`, `SuccessIsServed`, `Contract`, `EverythingSettles` | leases, runners, budget, served files; the refinement of `JobContract`; jobs end and leases return though strategies and workers hang, unless a strategy's own cleanup does or fails |
| `ProfileLogin` | two sessions, a logout, an import, a reader, one reader lease | `LeaseExclusion`, `LoginRecoverable`, `CredentialsChangeUnderLease`, `CallersAnswered` | exclusion, no stuck profile after a crash, every session and logout ends |
| `BrowserJar` | three clients, two changes of cookies | `JarKept`, `OpenersServed` | one jar, nothing acknowledged is forgotten, nobody waits for ever |
| `DouyinLookup` | a job and two requests, one browser, one waiter, two items, cache of one | `LookupSound`, `LookupEnds` | pool, truth of outcomes, every lookup ends |
| `TrackLifecycle` | two jobs, two callers, one media request, one restart | `ReadyIsPlayable`, `ClaimIsExclusive`, `TrackSettles` | ready tracks are playable, preparations are exclusive and end |
| `Library` | two videos, a legacy owner and two accounts, one key, 1 playlist, 2 items, 2 receipts, two edits of a range | `LibraryConsistent`, `DoneOnce`, `LibraryKept`, `NoBlindOverwrite` | consistent links and positions, at-most-once creation, nothing lost, no blind overwrite |
| `Search` | two videos, a guest and an account, two pages of one video, one session per owner, two in all, three searches, two requests | `SearchSound`, `PagesAreFixed` | no video twice, no page twice, recorded pages stay |
| `Player` | two items, two accounts, sequence and shuffle, queue of one | `ScreenIsConsistent`, `SoundIsCurrent`, `PressesSettle` | screen, range, sound and button belong to the item asked for, also when the queue grows over its limit and is cut; busy ends |
| `Player_late` | two items, one account, sequence mode, queue of two | expects `RangeIsCurrent` to be violated | the disagreement that opens section 7 |
| `AccountTab` | an account and the guest, two changes elsewhere, two pages, two requests, two entries | `TabSound`, `WritesGoToSender`, `EventuallyCurrent` | nothing of another account is shown, but for what a reload restores, nor written; the tab catches up |
| `PriorityGuard` | stable period 2, window 10, 2 restarts | `RestartsBounded`, `GuardStopRemembered`, `StartsAfterCalm`, `GuardStopsEnd` | bounded restarts, remembered stops, calm before a restart, the pause ends |
| `KernelMemory` | six amounts of memory around the thresholds, four amounts in use, changes between the three calls of a run | `GrowthLeavesReserve`, `SafeMoves` | reserve, hysteresis, sparing a kernel with swap left |

Every module's type invariant is checked as well, on its own or as the first conjunct of the
module's main invariant.

Why these sizes are enough to be interesting: the lease of a profile is contended
as soon as two holders exist, and a third kind of holder (`Mutator`, `Job`) is
always present; two jobs also allow one job to disturb another's `finally`
clause. Every interruption (cancel, limit, shutdown) can arrive twice. Three
clients let one browser user, one opener and one HTTP reader wait for each other.
Two lookups compete for one browser, with one waiter and one that is refused.
Two callers of a track pass the first look together, and an answer about the first
job can arrive when the second is under way. With a limit of one playlist and two
items the limits of the library are met, with two accounts and a legacy owner both the
account that receives the legacy library and one that comes too late exist, and
one key used twice is a retry. Two pages with two videos let the later page answer
first; one session per owner makes every further search an eviction (by
owner: that of all owners together removes nothing more here, and is left to the proof). Two items of a
queue let every answer belong to the item before; with a limit of one the second item
played exceeds it and the next list cuts it off (that items added later move into the
place it had, and lists of more than one item, need more of both and are left to the proofs,
which hold for any number of items and any limit). With two items the modes that repeat lead
nowhere that shuffling and a press on an item do not; two accounts let the queue be
replaced under a request. A job has one strategy in the run, and the library no guest: the
step to the next strategy and the library of the guest are covered by the safety proofs alone,
and so is what a limit that was lost lets the next strategy do. Two changes of the login let a device log in as
somebody else and back while one answer is under way. Two restarts in a
ten-run window reach the latch and let old restarts age out. The amounts of
memory are spaced so that every comparison is met on both sides and off the
16 MiB grain.

Bounds that are not in the code: `MaxTries` (strategies of a job), `MaxVersion` (changes
of cookies), `MaxRestarts`, `MaxListId`, `MaxItemId`, `MaxCandidateId`, `MaxEdits`,
`MaxRevision`, `MaxSearches`, `MaxRequests`, `MaxChanges`. Each stops the
behaviours that need more and changes no other step.

Symmetry is used in `Library` (accounts, videos) and `Search` (videos), which check no
liveness. Deadlock is not checked where the system may come to rest: after all jobs
of the instance ended (`KernelJobs`), when every session of the instance is used up
(`ProfileLogin`), when all jobs of a track are used up (`TrackLifecycle`), when the
ids or the searches of the instance are used up (`Library`, `Search`).

## 5. Fairness

* `KernelJobs`: the event loop runs ready segments (`WF` of `Segments`), delivers a
  `CancelledError` or a result that is repeatedly deliverable (`SF` of `Wakeups`), and
  `asyncio.timeout` fires (`WF` of `TimeLimit`). Strategies, their
  cleanup and workers get no fairness: they may hang for ever, and the total limit bounds the
  first and the last but not the cleanup (`CleanupHangs` in `EverythingSettles`). A cleanup that
  fails may lose the limit, which does not fire twice (`LimitLost`).
* `ProfileLogin`: the same for the tasks of a session and for logout requests,
  with the QR life time and the five-second limit of a logout. `SessionEnds`
  assumes in addition that browsers close (`ContextsClose`), because
  `ManagedBrowserContext.close` drains without a limit; `LogoutAnswered` does not.
* `BrowserJar`: whoever holds the lock goes on (every awaited call ends, if only
  with an error), the lock is served in order of arrival, and clients release their leases.
* `DouyinLookup`: awaits with a limit return. `LookupEnds` assumes in addition
  that Playwright's unlimited calls (`new_context`, `close`, `stop`) return.
* `TrackLifecycle`: calls of the kernel have time limits (`readKernelJson`), a kernel job
  ends (`KernelJobs!EverythingSettles`, which says when it does not), a preparing track that a client looks at is polled
  again (`WF` of `StartSync`), and not every poll fails (`SF` of the two answers). The
  rebuild of the table is synchronous code at a start.
* `Player`: a loop of `waitForPreparedTrack` ends with an answer or with its limit (`Settle`).
* `AccountTab`: the tab is visible, so its timer asks again (`WF` of
  `RefreshClientAccount`); a server that is asked again and again answers now and then
  (`SF` of `PollAnswered`); the panel publishes what it has read; a request of the search
  page ends after 45 seconds at the latest.
* `PriorityGuard`: the systemd timer fires and a run that started ends.

`Library`, `Search` and `KernelMemory` state no liveness: in the first a handler is
one step, in the second a provider may hang for as long as its time limit allows, and the third
does nothing by itself.

## 6. Proofs

All theorems hold for every value of the constants that satisfies the module's
named assumption.

**KernelJobsProofs.** `TypeCorrect` first, with the strengthening
`StrategyCounted` (a strategy that runs is counted), without which the counter of
strategies might leave the naturals. `RunnerHoldsLease`, `NoLeakedLease` and
`UnfinishedHasRunner` are not inductive: from a state in which two segments
overlap, or in which a runner's position and its row disagree, a step breaks
them. `IInv` adds `LoopInv` (the loop is busy exactly with the job inside a
segment), `DownInv` (no tasks while the process is down), `RowInv` (the position
determines the row), `IntrInv` (an interruption has a cause) and `LeaseInv`. The
step lemma has one step per action. From `IInv` and the typing follow the
invariants `LeaseDiscipline` and `UnfinishedHasRunner`, the action properties
`TerminalIsFinal` (no terminal state is left or replaced) and
`CancelPreventsSuccess` (a job with an accepted cancel request never becomes a
success), and `ImplementsContract`: every step of the job manager is a
step of `JobContract` under the mapping of `KernelJobsRefinement`, or a stutter.
`CapacityRespected` counts: tasks and lookups are finite sets, admission adds one member to
one of them only while the sum of their cardinalities is below the budget, and every other
step shrinks them. `SuccessesAreServed` needs two more facts of `disk`, `saved` and
`audio`: what a runner has written by the time it publishes, and that a straggler of a
job whose row is terminal can no longer write. That an expired job has no task or worker any
more is the assumption on the retention in `Age`.

**LoginTrackProofs** has a part for each of two modules. For `ProfileLogin` the assumption is that ids of sessions, logouts and imports
are distinct (the code makes them from uuids with a prefix per kind). `LeaseExclusion` is
not inductive: a lease may be taken and given back correctly by tasks whose
position says nothing about it. `LoginIInv` adds `HoldersHold` (a session, logout or import that
stands where only a holder may stand holds the lease), `OpenInv` (a context is open only
under a task that will close it) and `DownInv` (nothing is in memory before recovery).
`CredentialsStep` then shows for each of the steps that write cookies that its actor
holds the lease, from which `CredentialsChangeUnderLease` follows. `LoginRecoverable` has
an invariant of its own, `RecoveryInv`: the lease of a login belongs to a task at one of
the positions in `Holding` (`LeaseHasTask`), segments of several transactions do not overlap
(`SegmentsExclude`), and between the two transactions that end a session its profile is not
pending any more (`PendingExplained`).

For `TrackLifecycle`, answers are applied after they were given, so the invariant
says what an answer in flight may be relied on for: a listing or an artifact that was seen
belongs to a succeeded job (`SyncInv`), a job whose submission was not accepted is
unknown to the kernel (`KernelInv`), and the headers of a media request carry the
checksum of its own job (`StreamInv`); `Playable` holds of the row and of the row in the
renamed table. It is inductive because a succeeded job stays succeeded, and gives `ReadyIsPlayable`.
`ClaimIsExclusive` needs only the typing: every other writer of `job` looks at the status
in the same step.

**BrowserJarProofs.** The assumption is that the tasks on a profile are finitely many.
`JarKept` is proved whole. `IInv` follows the holder of the condition lock: who may be at
which stage (`RoleInv`), which jar is open there (`StageInv`), and that the cookies carried from one
stage to the next are the newest a client was told of (`SnapInv`), with the journal naming
Chrome while it is in use (`JournalInv`); `OneJar` and `NothingForgotten` follow for a crash
at every step. That no jar is closed under a lease needs the counters: `CountInv` says that
`browser_waiters` and the two counts of leases are the numbers of clients that wait or hold a
lease, short of a shutdown, and `DownInv` that after the shutdown has begun nobody else holds
the lock. Its step compares cardinalities before and after the move of one client (`Moved`).

**LibraryProofs.** `Frames` says which handlers touch ranges and receipts at all. For
`NoBlindOverwrite` the invariant is `RangeInv`: a request under way carries a revision no
newer than the row's, and at the same revision the range its sender saw (`RevisionsTell`).
That fails for the legacy owner once its library has been moved, which is why
`OwnersInTurn` is needed: before the move no account sends, afterwards the legacy owner never
acts; the guest is not concerned. For `DoneOnce` the invariant is `ReceiptsTell`: what a key has made is counted at most
once, and its receipt is there.
`LibraryStaysConsistent` and `LibrariesAreKept` need to know that ids are new when they are
handed out, that removing a candidate unlinks what named it, and that before the favourites
are copied there are no accounts and every row to copy has its candidate (`CopySource`: the
copy is a join): `LibraryInv` is the conjunction of `FavoriteInv`, `ListInv` and `RestTyped`, one for each
group of tables, so that a handler of one group is disposed of for the others by a frame
lemma. The position of a new entry is one more than the greatest of its list, which exists
because the lists are finite (`GreatestBelow`, by well-founded induction on the order of the
naturals); a reorder is a permutation (`Reordered`). `NullAssumption` says that `None` is no
row: in the database NULL is none.

**GuardProofs** holds the theorems about both halves of the script. For `PriorityGuard`, `IInv` is `TypeOK` with `Remembered`: every restart the
history counts within the window is in the state file, or is about to be written
by the run in progress. Together with the guard of `Resume` it bounds the
restarts, which is `RestartsStayBounded`. `GuardStopsAreRemembered` follows a run from the
first stop to the write that records the pause: whatever was broken before, a run that comes that
far undisturbed has every container behind it (`PauseKept`); and `RestartsWaitForCalm` relates the
history variable `calm` to `healthy_since` in the file and to the decision the run carries.

For `KernelMemory`, `MemoryInv` is `MemoryTypeOK`, `LimitFollowsBasis` (the limit is the
rounded target of what the last run that moved it had read), `ReadingsStand` (what a run in
progress has read is above the pause line and, on an unchanged host, adds up to what is
spare; a run that goes on to move the limit has found the change large enough) and
`GrowthLeavesReserve` (`ReserveKept`). `MovesAreSafe` proves `SafeMoves` from two
step lemmas: `MovesStep` compares the new target with the old basis, `LoweringStep`
compares it with what the kernel holds by the time of the update.

**PlayerProofs.** The queue lemmas say what appending, removing and cutting do to a sequence of
distinct items. `CoreInv` is the typing, `QueueInv` (unless something was cut off, the position
is one of the queue and the item last asked for is the one there; the queue is
empty before the first status) and `ScreenInv` (track and live request are of the item last asked
for). That item is the hinge: answers touch the screen only, edits of the
queue only the position, so that neither half needs the other. `SoundStaysCurrent` uses
`SoundInv`: a finished track is in the element and nothing else is being prepared;
what sounds is that track, unless the answer to a press that was left started it; and a press
that was not left asks about that track. It is needed because the old resource
stays in the element after a switch: that it does not start again follows only from the
screen being empty until the element has loaded the next. Neither theorem has a hypothesis:
queues may exceed the limit, and the answers to presses may come as late as they like.

**SearchProofs.** The assumptions are that the videos are finitely many, the limits positive, and
that `None` is no pool (`NullAssumption`). `SessionsInv` says of the kept sessions what holds
between any two steps: ids are handed out once, no video is on two pages of one, the page count
of a local search is known together with its pool, and no owner has more than `KeepOwner`.
`CallsInv` and `WaitInv` tie the calls under way to them: a call is for a page that is not
recorded, of a session of a provider (a late answer finds its page empty or its session gone),
at most one per page, and whoever waits has one. `IInv` is their conjunction and gives
`SearchSound`; TLC checked it on the instance of run `Search` before it was proved. Each step lemma proves
`IInv'` together with `Fixed`, which is what `PagesAreFixed` says of a step that is not a stutter.
The hard step is a new search (`OneAdded`): what `LIMIT -1 OFFSET n` deletes are the oldest, so that
exactly `n` newer ones are left beside each that goes (`Evicted`, by well-founded induction on
the ids), and the two deletions, of the owner and of all, do not get in each other's way.

**LookupTabProofs** holds the theorems about the lookups and about the tab. For `DouyinLookup` the assumptions are that jobs and requests are finitely many and apart and
that the bounds are positive. The pool is a matter of counting: `Pooled(p, q, f, w)` says of
positions, queue, semaphore and counter that the queue lists exactly the callers that wait, each
once, that slots held, granted and free add up to `MaxBrowsers`, and that the counter is the number of
callers that wait or were granted a slot and have not run yet. The lemmas `MovesWithin`, `SlotTaken`,
`Joins`, `GoesOn`, `GivesUp` and `SlotReturned` prove it kept by the six ways in which a caller meets the pool;
the last is `semaphore.release`, which moves a second caller. What a lookup reports is
local to it: `LookOk(l, at)` says that the future and the latest payload of a lookup agree with what
page and browser did (`ShownTrue`), and that an end once decided is true (`EndTrue`) until the browser
is closed. It is needed because the answer is read before the context closes and reported after:
`OutcomeIsTrue` alone says nothing of a lookup that is still watching. `LookupInv` adds that
only a caller at one of the awaits in `Browsing` has a browser; it was checked on the instance of run
`DouyinLookup` before it was proved. `StepKeeps` and `GivingBackKeeps` reduce
most actions to what they do to one caller.

For `AccountTab` the assumptions are that the entries are finitely many and that `None` is no
login, write or edit. `IInv` has one part for each part of the tab, and a step of one leaves the
others alone unless it publishes an account (`PublishKeeps`) or asks for one (`RefusalAsks`).
`SearchInv` adds to `TabSound` that who listens is the *latest* request: otherwise
the finally clause of an aborted one could clear the flag of another (`EndedFacts`), and that a
failure is shown only while nothing is loaded, since its retry asks for what failed. `DockInv`
says that an answer about details which still counts tells what the library has unless a write
is done and not yet received (`Steady`), and that the owner read for a write is the one it
was sent for, whoever is logged in when it is done. `ListInv` follows an edit through its
refresh: what the refresh read is the order the server has unless somebody edited it since.
`TabStaysSound` and `WritesReachTheirSender` follow from `IInv`.

Only model-checked: all liveness, which is out of the prover's reach.

## 7. Where the code and its documents disagree

`Player_late` ends in a counterexample. A press on "play" asks for the latest
playback range and awaits it without an abort signal (`components/PlayerDock.tsx:349`). If
the listener goes to the next item meanwhile, the answer puts the range (and the autoplay
flag) of the item before in force for the new one. `docs/PROJECT_POLISH.md:32` says that old
requests are cancelled when items change, and that an old answer never overrides the
current item.

Nine more disagreements are stated as definitions that no run checks, since TLC refutes
them on the instance of their module's run:

* `KernelJobs!LimitCoversJob`: `STABILITY.md:10` says that `JOB_TIMEOUT_SECONDS` covers all
  strategies and media processing, and that cleanup may add a short interval. An interrupted
  strategy waits for its browser to close without a limit, and every further cancel is
  swallowed meanwhile (`browser/context_manager.py:51`, `async_work.py:22`): the job, its row
  and its profile then outlive every limit until the kernel restarts. An error of the cleanup
  can also take the place of the interruption, which then counts as a failed attempt; the next
  strategy runs without a limit (`LimitLost`).
* `ProfileLogin!CancellationClosesLease`: `LOGIN_RELIABILITY.md:44` says that cancellation
  invalidates the QR and closes the lease. A watcher that is cancelled before its first step
  (`profile_manager.py:252`) never enters its `try`: the QR stays in force and the lease is
  kept until the kernel restarts.
* `PriorityGuard!EveryStopEnds`: the guard records a pause after both containers are stopped
  (`:213`). A stop that fails, or is killed with the unit, leaves stopped what no pause covers;
  no later run starts it, though the docstring (`:14`) promises a restart once the host is
  healthy. `GuardStopRemembered` and `GuardStopsEnd` say what holds: all is well again from the
  next stop or restart that comes to its record undisturbed.
* `PriorityGuard!EveryStartAfterCalm`: the docstring (`:14`) promises five healthy minutes
  before a restart, but `healthy_since` survives a run that is held or latched (`:228`) and one
  that sees pressure and dies in its stop. `StartsAfterCalm` says what holds for all other streaks.
* `Library!UpgradeComplete`: the favourites table of an old version is renamed, created anew and
  copied in separate commits (`db.ts:969`). A start that is stopped in between leaves the rows in
  the renamed table, and every later start finds a table of the new form and is content (`:963`):
  all favourites are gone from the application, though `CHANGELOG.md:95` counts them into the
  migration. `LibraryKept` says that each of the steps by itself keeps them.
* `Player!AppendingKeepsQueue`: a single play appends to the queue without a limit
  (`components/PlayerDock.tsx:217`, and the history at `:814`), while an appended
  playlist slices the merged queue to 200 (`:234`). From a queue of 201 items this
  cuts off the last one, which is the one that was just played: the position lies behind
  the end, nothing is current while the track plays on, and the message (`:238`) counts "-1" added
  tracks. The application's `README.md:86` says a playlist is appended to the queue.
* `AccountTab!RestoredIsCurrent`: a reload of the search page restores the saved result before an
  account is known (`SearchBox.tsx:69`), and the first account that becomes known is announced as
  no change (`accountClient.ts:17`). If another account has logged in meanwhile, the search of the
  one before stays on screen until the listener searches anew. `API_USAGE.md:155`
  asks for a new search after a change of account, and so does the page itself, when it
  notices (`SearchBox.tsx:87`). `stale` marks such a result; `TabSound` and `EventuallyCurrent`
  speak of all others.
* `KernelJobs!MediaDrainedBeforeRelease`: `src/kernel/docs/STABILITY.md` says media workers
  are drained before the profile is released. A second cancel during the drain interrupts it:
  `job_manager.py` goes straight to the `finally` clause, the profile is released
  under a running worker, and the row stays in `processing_media` until the next
  start of the kernel.
* `TrackLifecycle!OneJobInProgress`: `API_USAGE.md` says repeated prepare and refresh
  requests reuse the job in progress. A submission whose answer was lost may be accepted
  after the track failed and was claimed again; the kernel then runs two jobs for it.

A tenth, `AccountTab!PanelAgrees`, is not promised anywhere: the login panel can stay on
"logged out" while the tab has an account, when another device logs in before the
answer to a logout arrives (the status that follows is no news to the panel).

Others were met while modelling, are described by the actions and are left out of
the properties by their conditions:

* A crash after `_save_artifacts` and before the job is marked `succeeded` leaves audio rows
  under a job that recovery marks failed (`job_manager.py:307`, `:415`).
* A crash of a logout between clearing the directory and updating the profile leaves
  a profile that says `logged_in` without credentials (`profile_manager.py:268`).
* A logout request compares the account and then logs out whoever is logged in when
  the kernel gets to it (`AccountTab`; the comparison cannot be atomic with the kernel).
* Two items with the same media URL leave the player's autoplay flag set; a change of the
  range while playing reloads the element with the button on "pause"; a change of strategy at
  the start drops a press that waits.
* At the end of a pause `src/deploy/priority-guard.py:247` starts every B-Music container that is
  not running, also one the operator stopped before or during the pause; the
  docstring (`:15`) says that containers stopped by an operator are never started.
* A restart that fails after the kernel has started leaves the application down: the next run
  finds something running under a recorded pause, takes it for an operator's start and
  clears the pause (`:219`).
* The state file is truncated before it is written (`:179`): a run that is killed there
  leaves an empty file, which the next run reads as no state.
* The memory ceiling does not always leave the 300 MiB it names (`:148`):
  `GrowthLeavesReserve` states what it does leave. A kernel that grows between the reading of
  the host (`:205`) and its own (`:159`) is counted twice until the next run.
* Lowering the ceiling can kill a kernel that holds 397 MiB or more of its 512 MiB swap
  (`:161`), and one with more swap left when it has grown since its use was read
  (`:159`): `SafeMoves` states the bound.
* A Douyin lookup whose browser dies during `new_context` or the navigation reports
  the generic error of Playwright, not `DOUYIN_BROWSER_CRASHED` (`douyin/detail.py:287`,
  `:295`; `src/kernel/docs/STRATEGY_POLICY.md` says it fails with that code).
* A job cancelled while it awaits `browser.close()` skips `playwright.stop()` (`:218`):
  its browser may outlive its slot, so for a moment more than `DOUYIN_MAX_BROWSERS`
  run (`stray`; `PoolBounded` counts the others).

## 8. Not modelled, and why

* The extraction strategies, the media pipeline and artifact files: in
  `KernelJobs` they are calls that succeed, fail, hang or straggle. Their own logic
  (mirrors, ranges, byte limits) is sequential per job.
* Kernel search and read routes: stateless but for a key cache.
* Pages other than the search and playlist pages, OpenAPI documents, nginx and compose files: no state
  that changes in several steps. The lists of creators and of the home page load without an abort
  signal, so an older answer can replace a newer list; they are not modelled.
* `TrackLifecycle`: the choice of a strategy, byte ranges and response headers but
  the checksum, the pages of the list. The status `pending` is never visible between steps.
* `Library`: names and descriptions (`editPlaylist`), paging, the contents of snapshots,
  The web page sends no idempotency key; other clients do. No code but the tests removes
  cached candidates; the model lets them go at any time, as the schema provides for it.
* `Search`: the order of videos, favourite marks, limits chosen per search, the mock
  provider, the local library mode. A status that cannot be read is an error before anything
  is selected. Whether the kernel searches as the account whose status was read
  a moment before is not visible to the application.
* `Player`: volume, history, seeking, layout; times and volumes in local storage.
* `AccountTab`: countdown and picture of the QR code, cookies, rate limits, hidden tabs;
  more than one favourite write at a time; a server render of the playlist page that
  arrives after a newer refresh; an edit that is still under way when the page is
  opened again.
* Process crash in `DouyinLookup`: everything it keeps is in memory, and a restart is
  its initial state.

## 9. Plan

1. A composition of `ProfileLogin` with the lease side of `KernelJobs`, with one
   abstract lease that both implement.
2. The order of strategies and their downloads: mirrors, ranged parts, cancellation; a
   refinement of the strategy step of `KernelJobs`.
3. The lists of creators and of the home page as further users of `AccountTab`.
