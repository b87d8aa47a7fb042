---------------------------- MODULE DouyinLookup ----------------------------
(***************************************************************************)
(* Reading one public Douyin item (kernel/app/douyin/detail.py): a lookup  *)
(* is answered from a short cache or waits for one of a few browsers,      *)
(* opens the item's page and listens for the answer the page itself        *)
(* requests, while the page or the browser may die.  Links resolved for a  *)
(* client look once; extraction jobs look twice and can be cancelled at    *)
(* every await.  Response and crash callbacks run between the awaits.      *)
(***************************************************************************)
EXTENDS FiniteSets, SequencesExt, Integers

CONSTANTS
    Jobs,        \* extraction jobs
    Resolves,    \* POST /v1/douyin/resolve requests
    Items,       \* Douyin items
    NoItem,      \* no item
    MaxActive,   \* MAX_ACTIVE_JOBS
    MaxBrowsers, \* DOUYIN_MAX_BROWSERS
    MaxWaiting,  \* MAX_WAITING_LOOKUPS
    MaxCached    \* DETAIL_CACHE_MAX_ITEMS

ASSUME LookupAssumption ==
    /\ IsFiniteSet(Jobs) /\ IsFiniteSet(Resolves) /\ Jobs \cap Resolves = {}
    /\ NoItem \notin Items
    /\ {MaxActive, MaxBrowsers, MaxCached} \subseteq Nat \ {0}
    /\ MaxWaiting \in Nat

Callers == Jobs \cup Resolves

VARIABLES
    pc,      \* the await each caller is in
    look,    \* what each caller's lookup knows
    queue,   \* callers waiting for a browser, first come first served
    free,    \* value of the semaphore
    waiting, \* _Slots.waiting
    chrome,  \* callers whose lookup browser is alive
    stray,   \* callers whose browser outlived a lookup cut short while closing it
    sandbox, \* _sandbox_state: it is not known to fail
    cache    \* _DETAIL_CACHE in order of insertion

pool == <<queue, free, waiting>>
lookupVars == <<pc, look, queue, free, waiting, chrome, stray, sandbox, cache>>

\* item, attempt: of the lookup; found: the future; last: the latest payload;
\* end: how the attempt ends; shown: history, what page and browser did in it.
Blank == [item |-> NoItem, attempt |-> 0, found |-> "pending", last |-> "none", end |-> "open", shown |-> {}]
Ends  == {"ok", "unavailable", "timeout", "busy", "crashed", "error", "cancelled"}

Holding == {"starting", "sandboxed", "fallback", "plain", "context", "preparing", "loading", "watching",
            "leaving", "closing", "stopping"}
Holders == {c \in Callers : pc[c] \in Holding}
Granted == {c \in Callers : pc[c] = "granted"}

LookupTypeOK ==
    /\ pc \in [Callers -> {"idle", "linking", "waiting", "granted", "sleeping", "downloading"} \cup Holding]
    /\ look \in [Callers -> [item : Items \cup {NoItem}, attempt : 0 .. 1,
                             found : {"pending", "item", "crash"}, last : {"none", "refusal", "item"},
                             end : Ends \cup {"open"}, shown : SUBSET {"refusal", "item", "crash"}]]
    /\ queue \in SeqOf(Callers, Cardinality(Callers)) /\ free \in 0 .. MaxBrowsers /\ waiting \in Nat
    /\ chrome \subseteq Callers /\ stray \subseteq Jobs
    /\ sandbox \in BOOLEAN
    /\ cache \in SeqOf(Items, MaxCached)
    /\ IsInjective(cache)

LookupInit ==
    /\ pc = [c \in Callers |-> "idle"]
    /\ look = [c \in Callers |-> Blank]
    /\ queue = <<>> /\ free = MaxBrowsers /\ waiting = 0
    /\ chrome = {} /\ stray = {}
    /\ sandbox = TRUE
    /\ cache = <<>>

-----------------------------------------------------------------------------
(* The detail cache                                                        *)

Cached(i) == Contains(cache, i)

\* Mutant: nothing makes room for a new entry.
NoRoomMade(s) == s

\* The oldest entry goes when the cache is full, whether or not the item is in it.
MakeRoom(s) == IF Len(s) >= MaxCached THEN Tail(s) ELSE s

\* An item in it keeps its place.
Remember(i) ==
    LET kept == MakeRoom(cache)
    IN  IF Contains(kept, i) THEN kept ELSE Append(kept, i)

\* An entry is no longer used once it is too old; whoever meets it drops it.
Expire ==
    /\ \E i \in ToSet(cache) : cache' = RemoveFirst(cache, i)
    /\ UNCHANGED <<pc, look, pool, chrome, stray, sandbox>>

-----------------------------------------------------------------------------
(* The pool of browsers                                                    *)

\* Mutant: a slot comes back but nobody waiting is told.
KeepQueued(p) == pc' = p /\ free' = free + 1 /\ UNCHANGED queue

\* semaphore.release: the slot goes to the first waiter; p is pc but for the caller.
Release(p) ==
    IF queue = <<>>
    THEN pc' = p /\ free' = free + 1 /\ UNCHANGED queue
    ELSE pc' = [p EXCEPT ![Head(queue)] = "granted"] /\ queue' = Tail(queue) /\ UNCHANGED free

\* Mutant: leaving the queue gives back a slot that was never acquired.
WithdrawReleasing(c) ==
    /\ queue' = RemoveFirst(queue, c) /\ free' = free + 1
    /\ pc' = [pc EXCEPT ![c] = "idle"]

\* A cancelled waiter leaves the queue.
Withdraw(c) ==
    /\ queue' = RemoveFirst(queue, c)
    /\ pc' = [pc EXCEPT ![c] = "idle"]
    /\ UNCHANGED free

\* semaphore.locked: no slot, or somebody before us.
Locked == free = 0 \/ queue # <<>> \/ Granted # {}

-----------------------------------------------------------------------------
(* What a caller does with the end of an attempt                           *)

Retryable == {"timeout", "busy", "crashed", "error"}

\* A job tries once more after a pause, or goes on to download; a request answers.
After(c, end) ==
    CASE c \in Jobs /\ end = "ok" -> "downloading"
      [] c \in Jobs /\ end \in Retryable /\ look[c].attempt = 0 -> "sleeping"
      [] OTHER -> "idle"

\* What a caller knows of its lookup from then on.
Kept(c, to) == IF to = "sleeping" THEN [Blank EXCEPT !.item = look[c].item] ELSE Blank

\* The attempt of c ends without a slot.
EndsUnslotted(c, end) ==
    LET to == After(c, end)
    IN  /\ pc' = [pc EXCEPT ![c] = to]
        /\ look' = [look EXCEPT ![c] = Kept(c, to)]

\* The attempt of c ends and its slot is released.
EndsSlotted(c, end) ==
    LET to == After(c, end)
    IN  /\ Release([pc EXCEPT ![c] = to])
        /\ look' = [look EXCEPT ![c] = Kept(c, to)]

Moves(c, to) == pc' = [pc EXCEPT ![c] = to] /\ UNCHANGED look

\* From now on the attempt can only end like this, whatever it still hears.
Fails(c, to, as) ==
    /\ pc' = [pc EXCEPT ![c] = to]
    /\ look' = [look EXCEPT ![c] = [Blank EXCEPT !.item = look[c].item, !.attempt = look[c].attempt, !.end = as]]

-----------------------------------------------------------------------------
(* Admission, cache and slot                                               *)

\* Jobs and resolve requests share one budget.
Admit(c, i) ==
    /\ pc[c] = "idle"
    /\ Cardinality({d \in Callers : pc[d] # "idle"}) < MaxActive
    /\ pc' = [pc EXCEPT ![c] = "linking"]
    /\ look' = [look EXCEPT ![c] = [Blank EXCEPT !.item = i]]
    /\ UNCHANGED <<pool, chrome, stray, sandbox, cache>>

LinkFails(c) ==
    /\ pc[c] = "linking"
    /\ pc' = [pc EXCEPT ![c] = "idle"]
    /\ look' = [look EXCEPT ![c] = Blank]
    /\ UNCHANGED <<pool, chrome, stray, sandbox, cache>>

\* fetch_aweme_detail up to its first await, for a first or a second attempt.
Look(c, n) ==
    \/ /\ Cached(look[c].item)
       /\ EndsUnslotted(c, "ok")
       /\ UNCHANGED pool
    \/ /\ ~Cached(look[c].item)
       /\ \/ /\ Locked /\ waiting >= MaxWaiting
             /\ pc' = [pc EXCEPT ![c] = IF c \in Jobs /\ n = 0 THEN "sleeping" ELSE "idle"]
             /\ look' = [look EXCEPT ![c] = IF c \in Jobs /\ n = 0 THEN @ ELSE Blank]
             /\ UNCHANGED pool
          \/ /\ Locked /\ waiting < MaxWaiting
             /\ pc' = [pc EXCEPT ![c] = "waiting"]
             /\ queue' = Append(queue, c) /\ waiting' = waiting + 1
             /\ look' = [look EXCEPT ![c].attempt = n]
             /\ UNCHANGED free
          \/ /\ ~Locked
             /\ pc' = [pc EXCEPT ![c] = "starting"]
             /\ free' = free - 1
             /\ look' = [look EXCEPT ![c].attempt = n]
             /\ UNCHANGED <<queue, waiting>>

FirstLook(c) ==
    /\ pc[c] = "linking"
    /\ Look(c, 0)
    /\ UNCHANGED <<chrome, stray, sandbox, cache>>

SecondLook(c) ==
    /\ pc[c] = "sleeping"
    /\ Look(c, 1)
    /\ UNCHANGED <<chrome, stray, sandbox, cache>>

Acquire(c) ==
    /\ pc[c] = "granted"
    /\ waiting' = waiting - 1
    /\ Moves(c, "starting")
    /\ UNCHANGED <<queue, free, chrome, stray, sandbox, cache>>

-----------------------------------------------------------------------------
(* _launch_browser                                                         *)

\* The Playwright driver is up, or could not start.
Started(c) ==
    /\ pc[c] = "starting"
    /\ Moves(c, IF sandbox THEN "sandboxed" ELSE "plain")
    /\ UNCHANGED <<pool, chrome, stray, sandbox, cache>>

StartFails(c) ==
    /\ pc[c] = "starting"
    /\ EndsSlotted(c, "error")
    /\ UNCHANGED <<waiting, chrome, stray, sandbox, cache>>

Launched(c) ==
    /\ pc[c] = "sandboxed"
    /\ chrome' = chrome \cup {c} /\ sandbox' = TRUE
    /\ Moves(c, "context")
    /\ UNCHANGED <<pool, stray, cache>>

SandboxFails(c) ==
    /\ pc[c] = "sandboxed"
    /\ Moves(c, "fallback")
    /\ UNCHANGED <<pool, chrome, stray, sandbox, cache>>

LaunchedPlain(c) ==
    /\ pc[c] \in {"plain", "fallback"}
    /\ chrome' = chrome \cup {c}
    /\ sandbox' = (sandbox /\ pc[c] # "fallback")
    /\ Moves(c, "context")
    /\ UNCHANGED <<pool, stray, cache>>

LaunchFails(c) ==
    /\ pc[c] \in {"plain", "fallback"}
    /\ Fails(c, "stopping", "error")
    /\ UNCHANGED <<pool, chrome, stray, sandbox, cache>>

-----------------------------------------------------------------------------
(* _capture_detail                                                         *)

\* new_context, then the routes and the page, then the navigation.
Following(c) == CASE pc[c] = "context" -> "preparing" [] pc[c] = "preparing" -> "loading" [] pc[c] = "loading" -> "watching"

Opens(c) ==
    /\ pc[c] \in {"context", "preparing", "loading"}
    /\ c \in chrome /\ look[c].found # "crash"
    /\ Moves(c, Following(c))
    /\ UNCHANGED <<pool, chrome, stray, sandbox, cache>>

\* Playwright raises: before there is a context there is none to close.
OpenFails(c) ==
    /\ pc[c] \in {"context", "preparing", "loading"}
    /\ Fails(c, IF pc[c] = "context" THEN "closing" ELSE "leaving", "error")
    /\ UNCHANGED <<pool, chrome, stray, sandbox, cache>>

\* on_response has read an answer.  It looked whether the lookup was over before it
\* read, so the answer may be processed after that, and until the context is closed.
Response(c, answer) ==
    /\ pc[c] \in {"loading", "watching", "leaving"} /\ c \in chrome /\ look[c].end = "open"
    /\ look' = [look EXCEPT ![c].last = answer,
                            ![c].shown = @ \cup {answer},
                            ![c].found = IF answer = "item" /\ @ = "pending" THEN "item" ELSE @]
    /\ UNCHANGED <<pc, pool, chrome, stray, sandbox, cache>>

Crashed(c) == look' = [look EXCEPT ![c].shown = @ \cup {"crash"},
                                   ![c].found = IF @ = "pending" THEN "crash" ELSE @]

PageCrashes(c) ==
    /\ pc[c] \in {"loading", "watching", "leaving"} /\ c \in chrome /\ look[c].end = "open"
    /\ Crashed(c)
    /\ UNCHANGED <<pc, pool, chrome, stray, sandbox, cache>>

\* The browser is killed; on_crash listens from new_context to the end of the watch.
BrowserDies(c) ==
    /\ c \in chrome /\ pc[c] \in Holding
    /\ chrome' = chrome \ {c}
    /\ IF pc[c] \in {"preparing", "loading", "watching"} THEN Crashed(c) ELSE UNCHANGED look
    /\ UNCHANGED <<pc, pool, stray, sandbox, cache>>

\* The future is done, the time is up, or the grace after a refusal is over.
StopWatching(c) ==
    /\ pc[c] = "watching"
    /\ Moves(c, "leaving")
    /\ UNCHANGED <<pool, chrome, stray, sandbox, cache>>

\* Mutant: the latest payload is looked at before the future.
OutcomeByPayload(c) ==
    IF look[c].last = "item" THEN "ok"
    ELSE IF look[c].last = "refusal" THEN "unavailable"
    ELSE IF look[c].found = "crash" THEN "crashed"
    ELSE "timeout"

\* What the attempt found, once its context is closed.
Outcome(c) ==
    IF look[c].found = "item" THEN "ok"
    ELSE IF look[c].found = "crash" THEN "crashed"
    ELSE IF look[c].last = "refusal" THEN "unavailable"
    ELSE "timeout"

ContextClosed(c) ==
    /\ pc[c] = "leaving"
    /\ IF look[c].end = "open"
       THEN pc' = [pc EXCEPT ![c] = "closing"] /\ look' = [look EXCEPT ![c].end = Outcome(c)]
       ELSE Moves(c, "closing")
    /\ UNCHANGED <<pool, chrome, stray, sandbox, cache>>

-----------------------------------------------------------------------------
(* Closing the browser and what follows                                    *)

\* browser.close returned or raised; if it raised the browser may be alive.
Closed(c) ==
    /\ pc[c] = "closing"
    /\ chrome' \in {chrome, chrome \ {c}}
    /\ Fails(c, "stopping", look[c].end)
    /\ UNCHANGED <<pool, stray, sandbox, cache>>

\* playwright.stop ends the driver and any browser it still has.
Stopped(c) ==
    /\ pc[c] = "stopping"
    /\ chrome' = chrome \ {c}
    /\ EndsSlotted(c, look[c].end)
    /\ cache' = IF look[c].end = "ok" THEN Remember(look[c].item) ELSE cache
    /\ UNCHANGED <<waiting, stray, sandbox>>

Downloaded(c) ==
    /\ pc[c] = "downloading"
    /\ Moves(c, "idle")
    /\ UNCHANGED <<pool, chrome, stray, sandbox, cache>>

StrayExits(c) ==
    /\ c \in stray
    /\ stray' = stray \ {c}
    /\ UNCHANGED <<pc, look, pool, chrome, sandbox, cache>>

-----------------------------------------------------------------------------
(* A job is cancelled, or runs out of time, at one of its awaits           *)

CancelUnslotted(c) ==
    /\ pc[c] \in {"linking", "sleeping", "downloading"}
    /\ pc' = [pc EXCEPT ![c] = "idle"]
    /\ look' = [look EXCEPT ![c] = Blank]
    /\ UNCHANGED <<pool, chrome, stray, sandbox, cache>>

CancelWaiting(c) ==
    /\ \/ pc[c] = "waiting" /\ Withdraw(c)
       \/ pc[c] = "granted" /\ Release([pc EXCEPT ![c] = "idle"])
    /\ waiting' = waiting - 1
    /\ look' = [look EXCEPT ![c] = Blank]
    /\ UNCHANGED <<chrome, stray, sandbox, cache>>

\* The clean-up that remains is still run, on the way out.
CancelOpen(c) ==
    /\ \/ pc[c] \in {"sandboxed", "plain", "fallback"} /\ Fails(c, "stopping", "cancelled")
       \/ pc[c] \in {"context", "leaving"} /\ Fails(c, "closing", "cancelled")
       \/ pc[c] \in {"preparing", "loading", "watching"} /\ Fails(c, "leaving", "cancelled")
    /\ UNCHANGED <<pool, chrome, stray, sandbox, cache>>

\* Nothing is left to run: what was not closed is left behind, and the slot released.
CancelLast(c) ==
    /\ pc[c] \in {"starting", "closing", "stopping"}
    /\ EndsSlotted(c, "cancelled")
    /\ chrome' = chrome \ {c}
    /\ stray' = IF c \in chrome THEN stray \cup {c} ELSE stray
    /\ UNCHANGED <<waiting, sandbox, cache>>

CancelJob(c) ==
    /\ c \in Jobs
    /\ CancelUnslotted(c) \/ CancelWaiting(c) \/ CancelOpen(c) \/ CancelLast(c)

-----------------------------------------------------------------------------

\* Calls to Playwright this code puts no time limit on.
BrowserCall(c) == (pc[c] \in {"starting", "context", "preparing", "leaving", "closing", "stopping"})
    /\ (Started(c) \/ StartFails(c) \/ Opens(c) \/ OpenFails(c) \/ ContextClosed(c) \/ Closed(c) \/ Stopped(c))

\* Steps that return in time.
Prompt(c) ==
    \/ LinkFails(c) \/ FirstLook(c) \/ SecondLook(c) \/ Acquire(c)
    \/ Launched(c) \/ SandboxFails(c) \/ LaunchedPlain(c) \/ LaunchFails(c)
    \/ (pc[c] = "loading" /\ (Opens(c) \/ OpenFails(c)))
    \/ StopWatching(c) \/ Downloaded(c)

LookupNext ==
    \/ \E c \in Callers :
          \/ \E i \in Items : Admit(c, i)
          \/ Prompt(c) \/ BrowserCall(c)
          \/ \E answer \in {"refusal", "item"} : Response(c, answer)
          \/ PageCrashes(c) \/ BrowserDies(c) \/ StrayExits(c) \/ CancelJob(c)
    \/ Expire

LookupSpec == LookupInit /\ [][LookupNext]_lookupVars

\* Awaits with a time limit return: the kernel's event loop runs.
FairSpec == LookupSpec /\ \A c \in Callers : WF_lookupVars(Prompt(c))

\* Playwright answers every call, if only with an error.
BrowsersAnswer == \A c \in Callers : WF_lookupVars(BrowserCall(c))

-----------------------------------------------------------------------------
(* Properties                                                              *)

\* No more lookup browsers run, and no more lookups wait, than configured, and every
\* slot is held, on its way to a waiter, or free, whatever fails or is cancelled.
\* Browsers left by a cancelled close are the exception (stray).
PoolBounded ==
    /\ chrome \subseteq Holders
    /\ free + Cardinality(Holders) + Cardinality(Granted) = MaxBrowsers
    /\ waiting = Len(queue) + Cardinality(Granted) /\ waiting <= MaxWaiting

\* An attempt reports what happened in it: an item only if the page showed it, a
\* refusal only if nothing else came, a crash only if there was one, and a timeout
\* only if nothing at all came, also when answers arrive while it is closing.
OutcomeIsTrue ==
    \A c \in {d \in Callers : pc[d] = "closing"} :
        LET l == look[c]
        IN  /\ l.end = "ok"          => "item" \in l.shown
            /\ l.end = "unavailable" => l.shown = {"refusal"}
            /\ l.end = "timeout"     => l.shown = {}
            /\ l.end = "crashed"     => "crash" \in l.shown

\* The pool stays within its bounds and what it answers is true.
LookupSound == LookupTypeOK /\ PoolBounded /\ OutcomeIsTrue

\* If Playwright answers, every lookup ends: nobody waits for ever for a browser.
LookupEnds ==
    BrowsersAnswer => \A c \in Callers : (pc[c] # "idle") ~> (pc[c] = "idle")
=============================================================================
