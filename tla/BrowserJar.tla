----------------------------- MODULE BrowserJar -----------------------------
(***************************************************************************)
(* The cookie jar of one kernel profile (kernel/app/browser/               *)
(* context_manager.py, http_state.py): at any time either an HTTP-only     *)
(* request context or a persistent Chrome owns the cookies, and a journal  *)
(* beside the profile says which one to trust after a crash.  Cookies are  *)
(* versions: every change a server makes is a new one.  The condition lock *)
(* is held over awaits; op is what its holder is doing.                    *)
(***************************************************************************)
EXTENDS Integers, FiniteSets

CONSTANTS
    Clients,    \* tasks that open browser or request contexts of the profile
    Runtime,    \* shutdown_browser_contexts
    None,       \* nobody, nothing
    MaxVersion  \* bound on the changes servers make

ASSUME JarAssumption ==
    /\ Runtime \notin Clients /\ None \notin Clients \cup {Runtime}
    /\ None \notin Int /\ IsFiniteSet(Clients)
    /\ None \notin [source : {"http", "browser"}, ver : Int]
    /\ MaxVersion \in Nat \ {0}

VARIABLES
    pc,           \* where each client is
    op,           \* what the holder of the lock awaits
    waiters,      \* browser_waiters
    users,        \* leases of the browser
    requestUsers, \* leases of the request context
    context,      \* the browser is published to clients
    request,      \* the request context is published to clients
    jar,          \* cookies of the request context
    down,         \* shutting_down
    chromeUp,     \* a Chrome process runs on the profile
    chrome,       \* cookies in Chrome's persistent profile
    files,        \* has_browser_files
    journal,      \* http-session.json
    top,          \* history: the newest cookies any server issued
    told          \* history: the newest cookies a client may rely on

volatile == <<pc, op, waiters, users, requestUsers, context, request, jar, down, chromeUp>>
durable  == <<chrome, files, journal>>
vars     == <<volatile, durable, top, told>>

Versions == 0 .. MaxVersion
Stages   == {"load", "launch", "clear", "add", "mark", "hook",
             "cookies", "quit", "save", "request", "storage", "dump"}
Free     == [by |-> None, at |-> "free", snap |-> None, ok |-> TRUE]

TypeOK ==
    /\ pc \in [Clients -> {"idle", "waitB", "wokenB", "waitH", "wokenH", "openB", "openH",
                           "leaseB", "leaseH", "getting", "answered", "closing"}]
    /\ op \in [by : Clients \cup {Runtime}, at : Stages, snap : Versions \cup {None}, ok : BOOLEAN] \cup {Free}
    /\ waiters \in Nat /\ users \in Nat /\ requestUsers \in Nat
    /\ {context, request, down, chromeUp, files} \subseteq BOOLEAN
    /\ jar \in Versions /\ chrome \in Versions
    /\ journal \in [source : {"http", "browser"}, ver : Versions] \cup {None}
    /\ top \in Versions /\ told \in 0 .. top

\* A new profile, or one of a release that kept its cookies only in Chrome.
Init ==
    /\ pc = [c \in Clients |-> "idle"]
    /\ op = Free
    /\ waiters = 0 /\ users = 0 /\ requestUsers = 0
    /\ context = FALSE /\ request = FALSE /\ down = FALSE /\ chromeUp = FALSE
    /\ jar = 0
    /\ journal = None
    /\ \/ files = FALSE /\ chrome = 0
       \/ files = TRUE /\ chrome = 1
    /\ top = chrome /\ told = chrome

-----------------------------------------------------------------------------
(* Helpers                                                                 *)

Locked == op # Free
Role   == IF op.by = Runtime THEN "shutdown" ELSE pc[op.by]

\* Mutant: the release of the last request lease wakes nobody.
NotifyNobody(p) == p

\* condition.notify_all: waiters look again when they get the lock.
NotifyAll(p) ==
    [c \in Clients |-> CASE p[c] = "waitB" -> "wokenB"
                         [] p[c] = "waitH" -> "wokenH"
                         [] OTHER          -> p[c]]

Goto(c, at, snap) == op' = [by |-> c, at |-> at, snap |-> snap, ok |-> TRUE]
Proceed(at)       == op' = [op EXCEPT !.at = at]
Done(to)          == op' = Free /\ pc' = [pc EXCEPT ![op.by] = to]
DoneNotify(to)    == op' = Free /\ pc' = NotifyAll([pc EXCEPT ![op.by] = to])

\* Mutant: a browser opens while request leases are out.
DrainedAnyway == TRUE

\* The HTTP readers a browser must wait for have finished.
Drained == requestUsers = 0

\* The cookies Chrome has to take over: those of the journal if HTTP owned them.
Transfer == IF journal # None /\ journal.source = "http" THEN journal.ver ELSE None

\* Mutant: Chrome is cleared whether or not there are cookies to put in.
ClearFirst(snap) == "clear"

\* Chrome takes over the cookies of an HTTP session, deletions too, or keeps its own.
TakeOver(snap) == IF snap = None THEN "mark" ELSE "clear"

\* Mutant: only a profile without a journal is migrated.
OwnedByLegacyChrome == journal = None /\ files

\* Chrome holds newer cookies than the journal: a legacy or interrupted profile.
OwnedByChrome == IF journal = None THEN files ELSE journal.source = "browser"

\* asyncio.Lock serves in order of arrival: whoever was woken goes before a newcomer.
MayArrive == \A c \in Clients : pc[c] \notin {"wokenB", "wokenH"}

-----------------------------------------------------------------------------
(* open_context and open_request_context up to their first await           *)

\* With the lock, w waiters counted: wait, give up, share the browser, or start it.
BrowserTurn(c, w) ==
    \/ /\ ~Drained /\ ~down
       /\ pc' = [pc EXCEPT ![c] = "waitB"]
       /\ waiters' = w
       /\ UNCHANGED <<op, users>>
    \/ /\ down
       /\ pc' = NotifyAll([pc EXCEPT ![c] = "idle"])
       /\ waiters' = w - 1
       /\ UNCHANGED <<op, users>>
    \/ /\ Drained /\ ~down /\ context
       /\ pc' = NotifyAll([pc EXCEPT ![c] = "leaseB"])
       /\ waiters' = w - 1 /\ users' = users + 1
       /\ UNCHANGED op
    \/ /\ Drained /\ ~down /\ ~context
       /\ pc' = [pc EXCEPT ![c] = "openB"]
       /\ Goto(c, "load", None)
       /\ waiters' = w
       /\ UNCHANGED users

OpenContext(c) ==
    /\ pc[c] = "idle" /\ ~Locked /\ ~down /\ MayArrive
    /\ BrowserTurn(c, waiters + 1)
    /\ UNCHANGED <<requestUsers, context, request, jar, down, chromeUp, durable, top, told>>

BrowserWoken(c) ==
    /\ pc[c] = "wokenB" /\ ~Locked
    /\ BrowserTurn(c, waiters)
    /\ UNCHANGED <<requestUsers, context, request, jar, down, chromeUp, durable, top, told>>

RequestTurn(c) ==
    \/ /\ waiters > 0 /\ ~context /\ ~down
       /\ pc' = [pc EXCEPT ![c] = "waitH"]
       /\ UNCHANGED <<op, users, requestUsers>>
    \/ /\ down
       /\ pc' = [pc EXCEPT ![c] = "idle"]
       /\ UNCHANGED <<op, users, requestUsers>>
    \/ /\ context /\ ~down
       /\ pc' = [pc EXCEPT ![c] = "leaseB"]
       /\ users' = users + 1
       /\ UNCHANGED <<op, requestUsers>>
    \/ /\ waiters = 0 /\ ~context /\ ~down /\ request
       /\ pc' = [pc EXCEPT ![c] = "leaseH"]
       /\ requestUsers' = requestUsers + 1
       /\ UNCHANGED <<op, users>>
    \/ /\ waiters = 0 /\ ~context /\ ~down /\ ~request
       /\ pc' = [pc EXCEPT ![c] = "openH"]
       /\ Goto(c, "load", None)
       /\ UNCHANGED <<users, requestUsers>>

OpenRequestContext(c) ==
    /\ ~Locked
    /\ \/ pc[c] = "idle" /\ ~down /\ MayArrive
       \/ pc[c] = "wokenH"
    /\ RequestTurn(c)
    /\ UNCHANGED <<waiters, context, request, jar, down, chromeUp, durable, top, told>>

\* A cancelled waiter takes the lock once more to leave.
CancelWait(c) ==
    /\ ~Locked
    /\ \/ /\ pc[c] \in {"waitB", "wokenB"}
          /\ pc' = NotifyAll([pc EXCEPT ![c] = "idle"])
          /\ waiters' = waiters - 1
       \/ /\ pc[c] \in {"waitH", "wokenH"}
          /\ pc' = [pc EXCEPT ![c] = "idle"]
          /\ UNCHANGED waiters
    /\ UNCHANGED <<op, users, requestUsers, context, request, jar, down, chromeUp, durable, top, told>>

-----------------------------------------------------------------------------
(* _start_browser                                                          *)

Load ==
    /\ op.at = "load"
    /\ IF Role = "openB" \/ OwnedByChrome
       THEN op' = [op EXCEPT !.at = "launch", !.snap = Transfer]
       ELSE op' = [op EXCEPT !.at = "request", !.snap = IF journal = None THEN 0 ELSE journal.ver]
    /\ UNCHANGED <<pc, waiters, users, requestUsers, context, request, jar, down, chromeUp, durable, top, told>>

Launch ==
    /\ op.at = "launch"
    /\ chromeUp' = TRUE /\ files' = TRUE
    /\ Proceed(TakeOver(op.snap))
    /\ UNCHANGED <<pc, waiters, users, requestUsers, context, request, jar, down, chrome, journal, top, told>>

ClearCookies ==
    /\ op.at = "clear"
    /\ chrome' = 0
    /\ Proceed("add")
    /\ UNCHANGED <<pc, waiters, users, requestUsers, context, request, jar, down, chromeUp, files, journal, top, told>>

AddCookies ==
    /\ op.at = "add"
    /\ chrome' = op.snap
    /\ Proceed("mark")
    /\ UNCHANGED <<pc, waiters, users, requestUsers, context, request, jar, down, chromeUp, files, journal, top, told>>

\* store.save("browser"): from now on a crash recovers Chrome's own cookies.  A
\* migration closes the browser it started at once.
Mark ==
    /\ op.at = "mark"
    /\ journal' = [source |-> "browser", ver |-> chrome]
    /\ context' = TRUE
    /\ Proceed(IF Role = "openB" THEN "hook" ELSE "cookies")
    /\ UNCHANGED <<pc, waiters, users, requestUsers, request, jar, down, chromeUp, chrome, files, top, told>>

\* add_init_script, then the first lease.
Hook ==
    /\ op.at = "hook"
    /\ users' = users + 1 /\ waiters' = waiters - 1
    /\ DoneNotify("leaseB")
    /\ UNCHANGED <<requestUsers, context, request, jar, down, chromeUp, durable, top, told>>

\* A failure or a cancellation while the browser starts; the journal may be written.
StartFails ==
    /\ op.at \in {"load", "launch", "clear", "add", "mark", "request"}
    /\ chromeUp' = FALSE
    /\ \/ UNCHANGED journal
       \/ op.at = "mark" /\ journal' = [source |-> "browser", ver |-> chrome]
    /\ IF Role = "openB"
       THEN DoneNotify("idle") /\ waiters' = waiters - 1
       ELSE Done("idle") /\ UNCHANGED waiters
    /\ UNCHANGED <<users, requestUsers, context, request, jar, down, chrome, files, top, told>>

\* The hook fails before the first lease: the browser is closed again.
HookFails ==
    /\ op.at = "hook"
    /\ op' = [op EXCEPT !.at = "cookies", !.ok = FALSE]
    /\ UNCHANGED <<pc, waiters, users, requestUsers, context, request, jar, down, chromeUp, durable, top, told>>

-----------------------------------------------------------------------------
(* _close_browser                                                          *)

\* What follows once the browser is closed, and whether everything went well.
BrowserClosed(ok) ==
    /\ context' = FALSE /\ users' = 0
    /\ CASE Role = "openB"    -> DoneNotify("idle") /\ waiters' = waiters - 1
         [] Role = "openH"    -> IF ok THEN Goto(op.by, "load", None) /\ UNCHANGED <<pc, waiters>>
                                 ELSE Done("idle") /\ UNCHANGED waiters
         [] Role = "closing"  -> DoneNotify("idle") /\ UNCHANGED waiters
         [] Role = "shutdown" -> op' = Free /\ pc' = NotifyAll(pc) /\ UNCHANGED waiters

ReadCookies ==
    /\ op.at = "cookies"
    /\ \/ op' = [op EXCEPT !.at = "quit", !.snap = chrome]
       \/ op' = [op EXCEPT !.at = "quit", !.snap = None, !.ok = FALSE]
    /\ UNCHANGED <<pc, waiters, users, requestUsers, context, request, jar, down, chromeUp, durable, top, told>>

\* Without cookies to save the journal goes on naming Chrome.
Quit ==
    /\ op.at = "quit"
    /\ chromeUp' = FALSE
    /\ IF op.snap = None
       THEN BrowserClosed(FALSE)
       ELSE Proceed("save") /\ UNCHANGED <<pc, waiters, users, context>>
    /\ UNCHANGED <<requestUsers, request, jar, down, durable, top, told>>

SaveCookies ==
    /\ op.at = "save"
    /\ \/ /\ journal' = [source |-> "http", ver |-> op.snap]
          /\ BrowserClosed(op.ok)
       \/ /\ \/ UNCHANGED journal
             \/ journal' = [source |-> "http", ver |-> op.snap]
          /\ BrowserClosed(FALSE)
    /\ UNCHANGED <<requestUsers, request, jar, down, chromeUp, chrome, files, top, told>>

-----------------------------------------------------------------------------
(* The request context: launch, GETs, persistence, close                   *)

LaunchRequest ==
    /\ op.at = "request"
    /\ request' = TRUE /\ jar' = op.snap
    /\ requestUsers' = requestUsers + 1
    /\ Done("leaseH")
    /\ UNCHANGED <<waiters, users, context, down, chromeUp, durable, top, told>>

Get(c) ==
    /\ pc[c] = "leaseH" /\ ~Locked /\ ~down /\ request
    /\ pc' = [pc EXCEPT ![c] = "getting"]
    /\ UNCHANGED <<op, waiters, users, requestUsers, context, request, jar, down, chromeUp, durable, top, told>>

\* The response is in; its Set-Cookie may have changed the jar.
Response(c) ==
    /\ pc[c] = "getting"
    /\ \/ UNCHANGED <<jar, top>>
       \/ request /\ top < MaxVersion /\ jar' = top + 1 /\ top' = top + 1
    /\ pc' = [pc EXCEPT ![c] = IF request THEN "answered" ELSE "leaseH"]
    /\ UNCHANGED <<op, waiters, users, requestUsers, context, request, down, chromeUp, durable, told>>

Persist(c) ==
    /\ pc[c] = "answered" /\ ~Locked
    /\ IF request
       THEN Goto(c, "storage", None) /\ UNCHANGED pc
       ELSE pc' = [pc EXCEPT ![c] = "leaseH"] /\ UNCHANGED op
    /\ UNCHANGED <<waiters, users, requestUsers, context, request, jar, down, chromeUp, durable, top, told>>

\* What follows when a GET or a close has written the journal, or failed to.
RequestSaved(ok) ==
    IF Role = "answered"
    THEN /\ Done("leaseH")
         /\ told' = IF ok /\ op.snap > told THEN op.snap ELSE told
         /\ UNCHANGED <<request, requestUsers, jar>>
    ELSE /\ request' = FALSE /\ requestUsers' = 0 /\ jar' = 0
         /\ op' = Free
         /\ pc' = NotifyAll(IF Role = "shutdown" THEN pc ELSE [pc EXCEPT ![op.by] = "idle"])
         /\ UNCHANGED told

Storage ==
    /\ op.at = "storage"
    /\ \/ op' = [op EXCEPT !.at = "dump", !.snap = jar] /\ UNCHANGED <<pc, request, requestUsers, jar, told>>
       \/ RequestSaved(FALSE)
    /\ UNCHANGED <<waiters, users, context, down, chromeUp, durable, top>>

Dump ==
    /\ op.at = "dump"
    /\ \/ journal' = [source |-> "http", ver |-> op.snap] /\ RequestSaved(TRUE)
       \/ /\ \/ UNCHANGED journal
             \/ journal' = [source |-> "http", ver |-> op.snap]
          /\ RequestSaved(FALSE)
    /\ UNCHANGED <<waiters, users, context, down, chromeUp, chrome, files, top>>

-----------------------------------------------------------------------------
(* Releasing leases, Chrome, crash and shutdown                            *)

\* Mutant: every release closes what it leased.
LastAlways(n) == TRUE

\* The released lease was the last one.
Last(n) == n = 1

ReleaseBrowser(c) ==
    /\ pc[c] = "leaseB" /\ ~Locked
    /\ users' = IF context THEN users - 1 ELSE users
    /\ IF context /\ Last(users)
       THEN pc' = [pc EXCEPT ![c] = "closing"] /\ Goto(c, "cookies", None)
       ELSE pc' = [pc EXCEPT ![c] = "idle"] /\ UNCHANGED op
    /\ UNCHANGED <<waiters, requestUsers, context, request, jar, down, chromeUp, durable, top, told>>

ReleaseRequest(c) ==
    /\ pc[c] = "leaseH" /\ ~Locked
    /\ requestUsers' = IF request THEN requestUsers - 1 ELSE requestUsers
    /\ IF request /\ Last(requestUsers)
       THEN pc' = [pc EXCEPT ![c] = "closing"] /\ Goto(c, "storage", None)
       ELSE pc' = [pc EXCEPT ![c] = "idle"] /\ UNCHANGED op
    /\ UNCHANGED <<waiters, users, context, request, jar, down, chromeUp, durable, top, told>>

\* A page, or a request through the browser, gets new cookies; Chrome keeps them.
ChromeChanges ==
    /\ context /\ users > 0 /\ ~down /\ top < MaxVersion
    /\ chrome' = top + 1 /\ top' = top + 1 /\ told' = top + 1
    /\ UNCHANGED <<volatile, files, journal>>

Shutdown ==
    /\ ~Locked
    /\ down' = TRUE
    /\ IF context THEN Goto(Runtime, "cookies", None) /\ UNCHANGED pc
       ELSE IF request THEN Goto(Runtime, "storage", None) /\ UNCHANGED pc
       ELSE pc' = NotifyAll(pc) /\ UNCHANGED op
    /\ UNCHANGED <<waiters, users, requestUsers, context, request, jar, chromeUp, durable, top, told>>

\* The process dies at any moment, or a stopped one is started again.
Crash ==
    /\ pc' = [c \in Clients |-> "idle"]
    /\ op' = Free
    /\ waiters' = 0 /\ users' = 0 /\ requestUsers' = 0
    /\ context' = FALSE /\ request' = FALSE /\ down' = FALSE /\ chromeUp' = FALSE
    /\ jar' = 0
    /\ UNCHANGED <<durable, top, told>>

-----------------------------------------------------------------------------

Step ==
    \/ Load \/ Launch \/ ClearCookies \/ AddCookies \/ Mark \/ Hook \/ StartFails \/ HookFails
    \/ ReadCookies \/ Quit \/ SaveCookies \/ LaunchRequest \/ Storage \/ Dump

Next ==
    \/ Step
    \/ \E c \in Clients :
          \/ OpenContext(c) \/ BrowserWoken(c) \/ OpenRequestContext(c) \/ CancelWait(c)
          \/ Get(c) \/ Response(c) \/ Persist(c) \/ ReleaseBrowser(c) \/ ReleaseRequest(c)
    \/ ChromeChanges \/ Shutdown \/ Crash

Spec == Init /\ [][Next]_vars

\* What a client does without deciding anything.
Turn(c) ==
    \/ BrowserWoken(c)
    \/ pc[c] = "wokenH" /\ OpenRequestContext(c)
    \/ Response(c) \/ Persist(c)

\* The lock's holder goes on; asyncio serves the lock in order; leases are released.
FairSpec ==
    /\ Spec
    /\ WF_vars(Step)
    /\ \A c \in Clients :
          /\ SF_vars(Turn(c))
          /\ SF_vars(ReleaseBrowser(c) \/ ReleaseRequest(c))

-----------------------------------------------------------------------------
(* Properties                                                              *)

\* Chrome and an HTTP-only session never hold cookies of the profile at the same time.
OneJar == ~(chromeUp /\ request)

\* The cookies a process started now would trust, and those of the open jar, are never
\* older than the newest a client was told of: a hand-over interrupted at any point
\* does not bring old cookies back.
NothingForgotten ==
    /\ context => chrome >= told
    /\ request => jar >= told
    /\ IF journal # None /\ journal.source = "http" THEN journal.ver >= told ELSE chrome >= told

\* A jar is not closed under a client that holds a lease on it, short of a shutdown.
LeaseIsLive ==
    \A c \in Clients :
        /\ pc[c] = "leaseB" => context \/ down
        /\ pc[c] \in {"leaseH", "getting", "answered"} => request \/ down

\* One jar, the newest cookies in it, and no lease on a closed one.
JarKept == TypeOK /\ OneJar /\ NothingForgotten /\ LeaseIsLive

\* Whoever opens a context gets a lease or an error, although browsers and HTTP readers
\* wait for each other.
OpenersServed ==
    \A c \in Clients :
        pc[c] \in {"waitB", "wokenB", "waitH", "wokenH", "openB", "openH"}
            ~> pc[c] \in {"leaseB", "leaseH", "idle"}
=============================================================================
