--------------------------- MODULE BrowserJarProofs ---------------------------
(* Theorems about the cookie jar, for any number of clients and changes.     *)
EXTENDS BrowserJar, FiniteSetTheorems, TLAPS

Actors == Clients \cup {Runtime}
Places == {"idle", "waitB", "wokenB", "waitH", "wokenH", "openB", "openH",
           "leaseB", "leaseH", "getting", "answered", "closing"}
Snaps  == Versions \cup {None}
Held   == [by : Actors, at : Stages, snap : Snaps, ok : BOOLEAN]

\* The types, without the counters being natural.
Typed ==
    /\ pc \in [Clients -> Places]
    /\ op \in Held \cup {Free}
    /\ waiters \in Int /\ users \in Int /\ requestUsers \in Nat
    /\ jar \in Versions /\ chrome \in Versions
    /\ journal \in [source : {"http", "browser"}, ver : Versions] \cup {None}
    /\ top \in Versions /\ told \in Versions

\* Who works with the lock is in a state of its own, and knows what for.
RoleInv ==
    /\ \A c \in Clients : pc[c] \in {"openB", "openH", "closing"} => op.by = c
    /\ op.at \in {"load", "launch", "clear", "add", "mark"} => Role \in {"openB", "openH"}
    /\ op.at = "hook" => Role = "openB"
    /\ op.at = "request" => Role = "openH"
    /\ op.at \in {"cookies", "quit", "save"} => Role \in {"openB", "openH", "closing", "shutdown"}
    /\ op.at \in {"storage", "dump"} => Role \in {"answered", "closing", "shutdown"}

\* Which jar is open at each stage.
StageInv ==
    /\ op.at \in {"load", "launch", "clear", "add", "mark", "request"} => ~context /\ ~request
    /\ op.at \in {"hook", "cookies", "quit", "save"} => context /\ (users = 0 \/ down)
    /\ op.at = "save" => ~chromeUp
    /\ op.at \in {"storage", "dump"} => request
    /\ context => ~request
    /\ chromeUp => context \/ op.at \in {"clear", "add", "mark"}
    /\ request => requestUsers >= 1 \/ (op.at \in {"storage", "dump"} /\ Role # "answered")
    /\ ~context => users = 0

\* The journal names the HTTP session.
Http == journal # None /\ journal.source = "http"

\* What the owner of the lock carries between two stages is what it should hand over.
SnapInv ==
    /\ op.at = "launch" => IF op.snap = None THEN ~Http ELSE Http /\ journal.ver = op.snap
    /\ op.at \in {"clear", "add"} => op.snap # None /\ Http /\ journal.ver = op.snap
    /\ op.at = "mark" => chrome >= told
    /\ op.at = "quit" /\ op.snap # None => op.snap >= told
    /\ op.at \in {"save", "request", "dump"} => op.snap # None /\ op.snap >= told
    /\ op.at = "dump" => op.snap <= jar

\* Nothing is newer than what a server issued.
NewestInv ==
    /\ told <= top /\ jar <= top /\ chrome <= top
    /\ journal # None => journal.ver <= top
    /\ op.snap # None => op.snap <= top

\* While Chrome is in use the journal names it, and an unused profile has no cookies.
JournalInv ==
    /\ context => journal # None /\ journal.source = "browser"
    /\ journal = None /\ ~files => told = 0

IInv == Typed /\ RoleInv /\ StageInv /\ SnapInv /\ NewestInv /\ JournalInv /\ NothingForgotten

\* What the lock's holder does next is of its type.
LEMMA HeldFacts ==
    /\ \A c \in Actors, a \in Stages, v \in Snaps : [by |-> c, at |-> a, snap |-> v, ok |-> TRUE] \in Held
    /\ \A x \in Held, a \in Stages : [x EXCEPT !.at = a] \in Held
    /\ \A x \in Held, a \in Stages, v \in Snaps : [x EXCEPT !.at = a, !.snap = v] \in Held
    /\ \A x \in Held, a \in Stages : [x EXCEPT !.at = a, !.ok = FALSE] \in Held
    /\ \A x \in Held, a \in Stages, v \in Snaps : [x EXCEPT !.at = a, !.snap = v, !.ok = FALSE] \in Held
<1>1. ASSUME NEW c \in Actors, NEW a \in Stages, NEW v \in Snaps
      PROVE  [by |-> c, at |-> a, snap |-> v, ok |-> TRUE] \in Held
  BY Zenon DEF Held
<1>2. ASSUME NEW x \in Held, NEW a \in Stages PROVE [x EXCEPT !.at = a] \in Held
  BY DEF Held
<1>3. ASSUME NEW x \in Held, NEW a \in Stages, NEW v \in Snaps PROVE [x EXCEPT !.at = a, !.snap = v] \in Held
  BY DEF Held
<1>4. ASSUME NEW x \in Held, NEW a \in Stages PROVE [x EXCEPT !.at = a, !.ok = FALSE] \in Held
  BY DEF Held
<1>5. ASSUME NEW x \in Held, NEW a \in Stages, NEW v \in Snaps
      PROVE  [x EXCEPT !.at = a, !.snap = v, !.ok = FALSE] \in Held
  BY DEF Held
<1> QED
  BY <1>1, <1>2, <1>3, <1>4, <1>5

\* The lock's holder is a client or the shutdown, at a stage.
LEMMA HolderFacts ==
    ASSUME Typed, op.at # "free"
    PROVE  op \in Held /\ op.by \in Actors /\ op.at \in Stages /\ op.snap \in Snaps
BY DEF Typed, Held, Free

\* The lock passes from stage to stage, to a client or the shutdown, or is free.
LEMMA HeldStep ==
    ASSUME Typed, RoleInv, [Next]_vars
    PROVE  op' \in Held \cup {Free}
<1>1. {"load", "launch", "clear", "add", "mark", "hook", "cookies", "quit", "save", "request",
       "storage", "dump"} \subseteq Stages /\ None \in Snaps /\ Clients \subseteq Actors /\ Runtime \in Actors
  BY DEF Stages, Snaps, Actors
<1>2. jar \in Snaps /\ chrome \in Snaps /\ 0 \in Snaps /\ (journal # None => journal.ver \in Snaps)
  BY JarAssumption DEF Typed, Snaps, Versions
<1>3. op \in Held \cup {Free}
  BY DEF Typed
<1>4. CASE Load
  <2>1. op \in Held
    BY <1>4, HolderFacts DEF Load
  <2>2. Transfer \in Snaps /\ (IF journal = None THEN 0 ELSE journal.ver) \in Snaps
    BY <1>1, <1>2 DEF Transfer
  <2> QED
    <3>1. CASE op' = [op EXCEPT !.at = "launch", !.snap = Transfer]
      BY <1>1, <2>1, <2>2, <3>1, HeldFacts, Zenon
    <3>2. CASE op' = [op EXCEPT !.at = "request", !.snap = IF journal = None THEN 0 ELSE journal.ver]
      BY <1>1, <2>1, <2>2, <3>2, HeldFacts, Zenon
    <3> QED
      BY <1>4, <3>1, <3>2 DEF Load
<1>5. CASE Launch \/ ClearCookies \/ AddCookies \/ Mark
  <2>1. op \in Held
    BY <1>5, HolderFacts DEF Launch, ClearCookies, AddCookies, Mark
  <2>2. \E a \in Stages : op' = [op EXCEPT !.at = a]
    BY <1>1, <1>5 DEF Launch, ClearCookies, AddCookies, Mark, Proceed, TakeOver
  <2> QED
    BY <2>1, <2>2, HeldFacts
<1>6. CASE Hook \/ StartFails \/ LaunchRequest \/ Crash
  BY <1>6 DEF Hook, StartFails, LaunchRequest, Crash, DoneNotify, Done
<1>7. CASE HookFails
  <2>1. op \in Held
    BY <1>7, HolderFacts DEF HookFails
  <2>2. op' = [op EXCEPT !.at = "cookies", !.ok = FALSE]
    BY <1>7 DEF HookFails
  <2> QED
    BY <1>1, <2>1, <2>2, HeldFacts
<1>8. CASE ReadCookies
  <2>1. op \in Held
    BY <1>8, HolderFacts DEF ReadCookies
  <2> QED
    <3>1. CASE op' = [op EXCEPT !.at = "quit", !.snap = chrome]
      BY <1>1, <1>2, <2>1, <3>1, HeldFacts, Zenon
    <3>2. CASE op' = [op EXCEPT !.at = "quit", !.snap = None, !.ok = FALSE]
      BY <1>1, <2>1, <3>2, HeldFacts, Zenon
    <3> QED
      BY <1>8, <3>1, <3>2 DEF ReadCookies
<1>9. CASE Quit \/ SaveCookies
  <2>1. op \in Held /\ op.by \in Actors
    BY <1>9, HolderFacts DEF Quit, SaveCookies
  <2>2. \/ op' = Free \/ op' = [op EXCEPT !.at = "save"]
        \/ op' = [by |-> op.by, at |-> "load", snap |-> None, ok |-> TRUE]
    <3>1. ASSUME NEW b, BrowserClosed(b), op.at \in {"quit", "save"}
          PROVE  op' = Free \/ op' = [by |-> op.by, at |-> "load", snap |-> None, ok |-> TRUE]
      <4>1. Role \in {"openB", "openH", "closing", "shutdown"}
        BY <3>1 DEF RoleInv
      <4> QED
        BY <3>1, <4>1 DEF BrowserClosed, DoneNotify, Done, Goto
    <3> QED
      BY <1>9, <3>1 DEF Quit, SaveCookies, Proceed
  <2> QED
    <3>1. CASE op' = [op EXCEPT !.at = "save"]
      BY <1>1, <2>1, <3>1, HeldFacts, Zenon
    <3>2. CASE op' = [by |-> op.by, at |-> "load", snap |-> None, ok |-> TRUE]
      BY <1>1, <2>1, <3>2, HeldFacts, Zenon
    <3> QED
      BY <2>2, <3>1, <3>2
<1>10. CASE Storage \/ Dump
  <2>1. op \in Held
    BY <1>10, HolderFacts DEF Storage, Dump
  <2>2. op' = Free \/ op' = [op EXCEPT !.at = "dump", !.snap = jar]
    BY <1>10 DEF Storage, Dump, RequestSaved, Done
  <2>3. CASE op' = [op EXCEPT !.at = "dump", !.snap = jar]
    BY <1>1, <1>2, <2>1, <2>3, HeldFacts, Zenon
  <2> QED
    BY <2>2, <2>3
<1>11. ASSUME NEW c \in Clients,
              \/ OpenContext(c) \/ BrowserWoken(c) \/ OpenRequestContext(c) \/ CancelWait(c) \/ Get(c)
              \/ Response(c) \/ Persist(c) \/ ReleaseBrowser(c) \/ ReleaseRequest(c)
       PROVE  op' \in Held \cup {Free}
  <2>1. \/ op' = op
        \/ \E a \in {"load", "storage", "cookies"} : op' = [by |-> c, at |-> a, snap |-> None, ok |-> TRUE]
    BY <1>11 DEF OpenContext, BrowserWoken, OpenRequestContext, BrowserTurn, RequestTurn, CancelWait, Get,
       Response, Persist, ReleaseBrowser, ReleaseRequest, Goto
  <2>2. ASSUME NEW a \in {"load", "storage", "cookies"} PROVE a \in Stages /\ c \in Actors
    BY <1>1
  <2>3. \A a \in {"load", "storage", "cookies"} : [by |-> c, at |-> a, snap |-> None, ok |-> TRUE] \in Held
    BY <1>1, <2>2, HeldFacts, Zenon
  <2> QED
    BY <1>3, <2>1, <2>3, Zenon
<1>12. CASE Shutdown
  <2>1. \/ op' = op
        \/ \E a \in {"storage", "cookies"} : op' = [by |-> Runtime, at |-> a, snap |-> None, ok |-> TRUE]
    BY <1>12 DEF Shutdown, Goto
  <2>2. ASSUME NEW a \in {"storage", "cookies"} PROVE a \in Stages
    BY <1>1
  <2>3. \A a \in {"storage", "cookies"} : [by |-> Runtime, at |-> a, snap |-> None, ok |-> TRUE] \in Held
    BY <1>1, <2>2, HeldFacts, Zenon
  <2> QED
    BY <1>3, <2>1, <2>3, Zenon
<1>13. CASE ChromeChanges \/ UNCHANGED vars
  BY <1>3, <1>13 DEF ChromeChanges, vars, volatile
<1> QED
  BY <1>4, <1>5, <1>6, <1>7, <1>8, <1>9, <1>10, <1>11, <1>12, <1>13 DEF Next, Step

\* Who is in the middle of an opening or a close; nobody, once the lock is released.
Busy == {"openB", "openH", "closing"}
AllIdle == op' = Free /\ \A c \in Clients : pc'[c] \notin Busy

\* What is left when a browser is closed, and when a journal is written.
Closed ==
    /\ context' = FALSE /\ users' = 0 /\ waiters' \in Int
    /\ pc' \in [Clients -> Places]
    /\ \/ AllIdle
       \/ op' = [by |-> op.by, at |-> "load", snap |-> None, ok |-> TRUE] /\ UNCHANGED pc /\ Role = "openH"

Saved ==
    /\ pc' \in [Clients -> Places] /\ AllIdle
    /\ \/ /\ Role = "answered" /\ UNCHANGED <<request, requestUsers, jar>>
          /\ told' \in {told, op.snap}
       \/ request' = FALSE /\ requestUsers' = 0 /\ jar' = 0 /\ UNCHANGED told

\* The end of _close_browser leaves nobody with the lock, or starts over with HTTP.
LEMMA ClosedFacts ==
    ASSUME Typed, RoleInv, op.at \in {"quit", "save"}, NEW b, BrowserClosed(b)
    PROVE  Closed
<1> USE JarAssumption DEF Typed, Places, Busy, AllIdle, NotifyAll, Closed, Saved
<1>0. /\ op.by \in Actors /\ op.at # "free"
      /\ Role \in {"openB", "openH", "closing", "shutdown"}
      /\ \A c \in Clients : pc[c] \in Busy => op.by = c
  BY DEF RoleInv, Free, Held, Stages
<1>1. CASE Role = "openB"
  BY <1>0, <1>1 DEF BrowserClosed, DoneNotify
<1>2. CASE Role = "openH"
  BY <1>0, <1>2 DEF BrowserClosed, Done, Goto
<1>3. CASE Role = "closing"
  BY <1>0, <1>3 DEF BrowserClosed, DoneNotify
<1>4. CASE Role = "shutdown"
  <2>1. \A c \in Clients : op.by # c \/ pc[c] = "shutdown"
    BY <1>4 DEF Role
  <2> QED
    BY <1>0, <1>4, <2>1 DEF BrowserClosed
<1> QED
  BY <1>0, <1>1, <1>2, <1>3, <1>4

\* The end of a persist or a close leaves nobody with the lock.
LEMMA SavedFacts ==
    ASSUME Typed, RoleInv, op.at \in {"storage", "dump"}, RequestSaved(TRUE) \/ RequestSaved(FALSE)
    PROVE  Saved /\ (RequestSaved(FALSE) => UNCHANGED told)
<1> USE JarAssumption DEF Typed, Places, Busy, AllIdle, NotifyAll, Closed, Saved
<1>0. /\ op.by \in Actors /\ op.at # "free"
      /\ Role \in {"answered", "closing", "shutdown"}
      /\ \A c \in Clients : pc[c] \in Busy => op.by = c
  BY DEF RoleInv, Free, Held, Stages
<1>1. CASE Role = "answered"
  BY <1>0, <1>1 DEF RequestSaved, Done
<1>2. CASE Role = "closing"
  BY <1>0, <1>2 DEF RequestSaved
<1>3. CASE Role = "shutdown"
  <2>1. \A c \in Clients : op.by # c \/ pc[c] = "shutdown"
    BY <1>3 DEF Role
  <2> QED
    BY <1>0, <1>3, <2>1 DEF RequestSaved
<1> QED
  BY <1>0, <1>1, <1>2, <1>3

\* Every stage of an opening, a hand-over and a close keeps the newest cookies in one place.
LEMMA InvariantStep ==
    ASSUME IInv, [Next]_vars
    PROVE  IInv'
<1>a. op' \in Held \cup {Free}
  BY HeldStep DEF IInv
<1>b. ASSUME Quit
      PROVE  \/ op.snap = None /\ Closed
             \/ op.snap # None /\ op' = [op EXCEPT !.at = "save"] /\ UNCHANGED <<pc, waiters, users, context>>
  <2>1. ASSUME NEW b, BrowserClosed(b) PROVE Closed
    BY <1>b, <2>1, ClosedFacts DEF IInv, Quit
  <2>2. CASE op.snap = None
    BY <1>b, <2>1, <2>2, Zenon DEF Quit
  <2>3. CASE op.snap # None
    BY <1>b, <2>3 DEF Quit, Proceed
  <2> QED
    BY <2>2, <2>3
<1>c. ASSUME SaveCookies PROVE Closed
  <2>1. ASSUME NEW b, BrowserClosed(b) PROVE Closed
    BY <1>c, <2>1, ClosedFacts DEF IInv, SaveCookies
  <2> QED
    BY <1>c, <2>1 DEF SaveCookies
<1>d. ASSUME Storage
      PROVE  \/ op' = [op EXCEPT !.at = "dump", !.snap = jar] /\ UNCHANGED <<pc, request, requestUsers, jar, told>>
             \/ Saved /\ UNCHANGED told
  <2>1. RequestSaved(FALSE) => Saved /\ UNCHANGED told
    BY <1>d, SavedFacts DEF IInv, Storage
  <2> QED
    BY <1>d, <2>1, Zenon DEF Storage
<1>e. ASSUME Dump
      PROVE  /\ journal' \in {journal, [source |-> "http", ver |-> op.snap]}
             /\ Saved
             /\ (UNCHANGED told \/ journal' = [source |-> "http", ver |-> op.snap])
  <2>1. RequestSaved(TRUE) => Saved
    BY <1>e, SavedFacts DEF IInv, Dump
  <2>2. RequestSaved(FALSE) => Saved /\ UNCHANGED told
    BY <1>e, SavedFacts DEF IInv, Dump
  <2> QED
    BY <1>e, <2>1, <2>2, Zenon DEF Dump
<1>f. ASSUME op.at # "free" PROVE op \in Held
  BY <1>f, HolderFacts DEF IInv
<1> USE JarAssumption DEF IInv, Typed, RoleInv, StageInv, SnapInv, NewestInv, JournalInv, NothingForgotten, Http,
        Role, Free, Held, Actors, Snaps, Places, Stages, Versions, durable
<1>1. CASE Load
  <2>0. op \in Held
    BY <1>1, <1>f DEF Load
  <2>1. CASE Role = "openB" \/ OwnedByChrome
    <3>1. op' = [op EXCEPT !.at = "launch", !.snap = Transfer]
      BY <1>1, <2>1 DEF Load
    <3>2. op'.at = "launch" /\ op'.by = op.by /\ op'.snap = Transfer /\ Transfer \in Snaps
      BY <2>0, <3>1 DEF Transfer
    <3> QED
      BY <1>1, <1>a, <3>2 DEF Load, Transfer
  <2>2. CASE ~(Role = "openB" \/ OwnedByChrome)
    <3> DEFINE v == IF journal = None THEN 0 ELSE journal.ver
    <3>1. op' = [op EXCEPT !.at = "request", !.snap = v]
      BY <1>1, <2>2 DEF Load
    <3>2. op'.at = "request" /\ op'.by = op.by /\ op'.snap = v /\ v \in Versions
      BY <2>0, <3>1
    <3> QED
      BY <1>1, <1>a, <2>2, <3>2 DEF Load, OwnedByChrome
  <2> QED
    BY <2>1, <2>2
<1>2. CASE Launch
  <2>1. Typed'
    BY <1>2 DEF Launch, Proceed, TakeOver
  <2>2. RoleInv' /\ StageInv' /\ SnapInv' /\ NewestInv' /\ JournalInv' /\ NothingForgotten'
    BY <1>2 DEF Launch, Proceed, TakeOver
  <2> QED
    BY <2>1, <2>2 DEF IInv
<1>3. CASE ClearCookies
  <2>1. Typed'
    BY <1>3 DEF ClearCookies, Proceed
  <2>2. RoleInv' /\ StageInv' /\ SnapInv' /\ NewestInv' /\ JournalInv' /\ NothingForgotten'
    BY <1>3 DEF ClearCookies, Proceed
  <2> QED
    BY <2>1, <2>2 DEF IInv
<1>4. CASE AddCookies
  <2>1. Typed'
    BY <1>4 DEF AddCookies, Proceed
  <2>2. RoleInv' /\ StageInv' /\ SnapInv' /\ NewestInv' /\ JournalInv' /\ NothingForgotten'
    BY <1>4 DEF AddCookies, Proceed
  <2> QED
    BY <2>1, <2>2 DEF IInv
<1>5. CASE Mark
  <2>1. Typed'
    BY <1>5 DEF Mark, Proceed
  <2>2. RoleInv' /\ StageInv' /\ SnapInv' /\ NewestInv' /\ JournalInv' /\ NothingForgotten'
    BY <1>5 DEF Mark, Proceed
  <2> QED
    BY <2>1, <2>2 DEF IInv
<1>6. CASE Hook
  <2>1. Typed'
    BY <1>6 DEF Hook, DoneNotify, NotifyAll
  <2>2. RoleInv' /\ StageInv' /\ SnapInv' /\ NewestInv' /\ JournalInv' /\ NothingForgotten'
    BY <1>6 DEF Hook, DoneNotify, NotifyAll
  <2> QED
    BY <2>1, <2>2 DEF IInv
<1>7. CASE StartFails
  <2>1. Typed'
    BY <1>7, <1>a DEF StartFails, DoneNotify, Done, NotifyAll
  <2>2. RoleInv' /\ StageInv' /\ SnapInv' /\ NewestInv' /\ JournalInv' /\ NothingForgotten'
    BY <1>7 DEF StartFails, DoneNotify, Done, NotifyAll
  <2> QED
    BY <2>1, <2>2 DEF IInv
<1>8. CASE HookFails
  <2>1. Typed'
    BY <1>8, <1>a DEF HookFails
  <2>2. RoleInv' /\ StageInv' /\ SnapInv' /\ NewestInv' /\ JournalInv' /\ NothingForgotten'
    BY <1>8 DEF HookFails
  <2> QED
    BY <2>1, <2>2 DEF IInv
<1>9. CASE ReadCookies
  <2>0. op \in Held
    BY <1>9, <1>f DEF ReadCookies
  <2>1. op'.at = "quit" /\ op'.by = op.by /\ op'.snap \in {chrome, None}
    <3>1. CASE op' = [op EXCEPT !.at = "quit", !.snap = chrome]
      BY <2>0, <3>1
    <3>2. CASE op' = [op EXCEPT !.at = "quit", !.snap = None, !.ok = FALSE]
      BY <2>0, <3>2
    <3> QED
      BY <1>9, <3>1, <3>2 DEF ReadCookies
  <2> QED
    BY <1>9, <1>a, <2>1 DEF ReadCookies
<1>10. CASE Quit
  <2>0. /\ op \in Held /\ op.at = "quit" /\ chromeUp' = FALSE
        /\ UNCHANGED <<requestUsers, request, jar, down, chrome, files, journal, top, told>>
    BY <1>10, <1>f DEF Quit
  <2>1. CASE Closed /\ AllIdle
    <3>1. Typed'
      BY <1>a, <2>0, <2>1 DEF Closed, AllIdle, Busy
    <3>2. RoleInv' /\ StageInv' /\ SnapInv' /\ NewestInv' /\ JournalInv' /\ NothingForgotten'
      BY <1>a, <2>0, <2>1 DEF Closed, AllIdle, Busy
    <3> QED
      BY <3>1, <3>2 DEF IInv
  <2>2. CASE Closed /\ ~AllIdle
    <3>1. Typed'
      BY <1>a, <2>0, <2>2 DEF Closed
    <3>2. RoleInv' /\ StageInv' /\ SnapInv' /\ NewestInv' /\ JournalInv' /\ NothingForgotten'
      BY <1>a, <2>0, <2>2 DEF Closed
    <3> QED
      BY <3>1, <3>2 DEF IInv
  <2>3. CASE op.snap # None /\ op' = [op EXCEPT !.at = "save"] /\ UNCHANGED <<pc, waiters, users, context>>
    BY <1>a, <2>0, <2>3
  <2> QED
    BY <1>10, <1>b, <2>1, <2>2, <2>3
<1>11. CASE SaveCookies
  <2>0. /\ op \in Held /\ op.at = "save" /\ op.snap \in Versions
        /\ UNCHANGED <<requestUsers, request, jar, down, chromeUp, chrome, files, top, told>>
        /\ journal' \in {journal, [source |-> "http", ver |-> op.snap]}
    BY <1>11, <1>f DEF SaveCookies
  <2>1. CASE AllIdle
    <3>1. Typed'
      BY <1>11, <1>a, <1>c, <2>0, <2>1 DEF Closed, AllIdle, Busy
    <3>2. RoleInv' /\ StageInv' /\ SnapInv' /\ NewestInv' /\ JournalInv' /\ NothingForgotten'
      BY <1>11, <1>a, <1>c, <2>0, <2>1 DEF Closed, AllIdle, Busy
    <3> QED
      BY <3>1, <3>2 DEF IInv
  <2>2. CASE ~AllIdle
    <3>1. Typed'
      BY <1>11, <1>a, <1>c, <2>0, <2>2 DEF Closed
    <3>2. RoleInv' /\ StageInv' /\ SnapInv' /\ NewestInv' /\ JournalInv' /\ NothingForgotten'
      BY <1>11, <1>a, <1>c, <2>0, <2>2 DEF Closed
    <3> QED
      BY <3>1, <3>2 DEF IInv
  <2> QED
    BY <2>1, <2>2
<1>12. CASE LaunchRequest
  <2>1. Typed'
    BY <1>12 DEF LaunchRequest, Done
  <2>2. RoleInv' /\ StageInv' /\ SnapInv' /\ NewestInv' /\ JournalInv' /\ NothingForgotten'
    BY <1>12 DEF LaunchRequest, Done
  <2> QED
    BY <2>1, <2>2 DEF IInv
<1>13. CASE Storage
  <2>0. /\ op \in Held /\ op.at = "storage" /\ requestUsers >= 0
        /\ UNCHANGED <<waiters, users, context, down, chromeUp, chrome, files, journal, top>>
    BY <1>13, <1>f DEF Storage
  <2>1. CASE Saved /\ UNCHANGED told /\ UNCHANGED <<request, requestUsers, jar>> /\ Role = "answered"
    <3>1. Typed'
      BY <1>a, <2>0, <2>1 DEF Saved, AllIdle, Busy
    <3>2. RoleInv' /\ StageInv' /\ SnapInv' /\ NewestInv' /\ JournalInv' /\ NothingForgotten'
      BY <1>a, <2>0, <2>1 DEF Saved, AllIdle, Busy
    <3> QED
      BY <3>1, <3>2 DEF IInv
  <2>2. CASE Saved /\ UNCHANGED told /\ request' = FALSE /\ requestUsers' = 0 /\ jar' = 0
    <3>1. Typed'
      BY <1>a, <2>0, <2>2 DEF Saved, AllIdle, Busy
    <3>2. RoleInv' /\ StageInv' /\ SnapInv' /\ NewestInv' /\ JournalInv' /\ NothingForgotten'
      BY <1>a, <2>0, <2>2 DEF Saved, AllIdle, Busy
    <3> QED
      BY <3>1, <3>2 DEF IInv
  <2>3. CASE op' = [op EXCEPT !.at = "dump", !.snap = jar] /\ UNCHANGED <<pc, request, requestUsers, jar, told>>
    <3>1. op'.at = "dump" /\ op'.by = op.by /\ op'.snap = jar
      BY <2>0, <2>3
    <3> QED
      BY <1>a, <2>0, <2>3, <3>1
  <2> QED
    BY <1>13, <1>d, <2>1, <2>2, <2>3, Zenon DEF Saved
<1>14. CASE Dump
  <2>0. /\ op \in Held /\ op.at = "dump" /\ op.snap \in Versions /\ requestUsers >= 0
        /\ UNCHANGED <<waiters, users, context, down, chromeUp, chrome, files, top>>
    BY <1>14, <1>f DEF Dump
  <2>3. /\ journal' \in {journal, [source |-> "http", ver |-> op.snap]} /\ Saved
        /\ (UNCHANGED told \/ journal' = [source |-> "http", ver |-> op.snap])
    BY <1>14, <1>e, Zenon
  <2>4. journal' \in [source : {"http", "browser"}, ver : Versions] \cup {None}
    BY <2>0, <2>3
  <2>5. told' \in {told, op.snap}
    BY <2>0, <2>3 DEF Saved
  <2>6. /\ told' \in Versions /\ told' <= top /\ op.snap <= top /\ op.snap >= told
        /\ op.snap <= jar /\ ~context /\ ~chromeUp /\ users = 0
    BY <2>0, <2>5
  <2>1. CASE UNCHANGED <<request, requestUsers, jar>> /\ Role = "answered"
    <3>1. Typed'
      BY <1>a, <2>0, <2>1, <2>3, <2>4, <2>5, <2>6 DEF Saved, AllIdle, Busy
    <3>2. RoleInv' /\ StageInv' /\ SnapInv' /\ NewestInv' /\ JournalInv' /\ NothingForgotten'
      BY <1>a, <2>0, <2>1, <2>3, <2>4, <2>5, <2>6 DEF Saved, AllIdle, Busy
    <3> QED
      BY <3>1, <3>2 DEF IInv
  <2>2. CASE request' = FALSE /\ requestUsers' = 0 /\ jar' = 0 /\ UNCHANGED told
    <3>1. Typed'
      BY <1>a, <2>0, <2>2, <2>3, <2>4, <2>6 DEF Saved, AllIdle, Busy
    <3>2. RoleInv' /\ StageInv' /\ SnapInv' /\ NewestInv' /\ JournalInv' /\ NothingForgotten'
      BY <1>a, <2>0, <2>2, <2>3, <2>4, <2>6 DEF Saved, AllIdle, Busy
    <3> QED
      BY <3>1, <3>2 DEF IInv
  <2> QED
    BY <2>1, <2>2, <2>3, Zenon DEF Saved
<1>15. ASSUME NEW c \in Clients, OpenContext(c) PROVE IInv'
  <2>1. Typed'
    BY <1>15, <1>a DEF OpenContext, BrowserTurn, Goto, NotifyAll, Drained, Locked
  <2>2. RoleInv' /\ StageInv' /\ SnapInv' /\ NewestInv' /\ JournalInv' /\ NothingForgotten'
    BY <1>15 DEF OpenContext, BrowserTurn, Goto, NotifyAll, Drained, Locked
  <2> QED
    BY <2>1, <2>2 DEF IInv
<1>16. ASSUME NEW c \in Clients, BrowserWoken(c) PROVE IInv'
  <2>1. Typed'
    BY <1>16, <1>a DEF BrowserWoken, BrowserTurn, Goto, NotifyAll, Drained, Locked
  <2>2. RoleInv' /\ StageInv' /\ SnapInv' /\ NewestInv' /\ JournalInv' /\ NothingForgotten'
    BY <1>16 DEF BrowserWoken, BrowserTurn, Goto, NotifyAll, Drained, Locked
  <2> QED
    BY <2>1, <2>2 DEF IInv
<1>17. ASSUME NEW c \in Clients, OpenRequestContext(c) PROVE IInv'
  <2>1. Typed'
    BY <1>17, <1>a DEF OpenRequestContext, RequestTurn, Goto, Locked
  <2>2. RoleInv' /\ StageInv' /\ SnapInv' /\ NewestInv' /\ JournalInv' /\ NothingForgotten'
    BY <1>17 DEF OpenRequestContext, RequestTurn, Goto, Locked
  <2> QED
    BY <2>1, <2>2 DEF IInv
<1>18. ASSUME NEW c \in Clients, CancelWait(c) PROVE IInv'
  <2>1. Typed'
    BY <1>18 DEF CancelWait, NotifyAll, Locked
  <2>2. RoleInv' /\ StageInv' /\ SnapInv' /\ NewestInv' /\ JournalInv' /\ NothingForgotten'
    BY <1>18 DEF CancelWait, NotifyAll, Locked
  <2> QED
    BY <2>1, <2>2 DEF IInv
<1>19. ASSUME NEW c \in Clients, Get(c) PROVE IInv'
  <2>1. Typed'
    BY <1>19 DEF Get, Locked
  <2>2. RoleInv' /\ StageInv' /\ SnapInv' /\ NewestInv' /\ JournalInv' /\ NothingForgotten'
    BY <1>19 DEF Get, Locked
  <2> QED
    BY <2>1, <2>2 DEF IInv
<1>20. ASSUME NEW c \in Clients, Response(c) PROVE IInv'
  <2>1. Typed'
    BY <1>20 DEF Response
  <2>2. RoleInv' /\ StageInv' /\ SnapInv' /\ NewestInv' /\ JournalInv' /\ NothingForgotten'
    BY <1>20 DEF Response
  <2> QED
    BY <2>1, <2>2 DEF IInv
<1>21. ASSUME NEW c \in Clients, Persist(c) PROVE IInv'
  <2>1. Typed'
    BY <1>21, <1>a DEF Persist, Goto, Locked
  <2>2. RoleInv' /\ StageInv' /\ SnapInv' /\ NewestInv' /\ JournalInv' /\ NothingForgotten'
    BY <1>21 DEF Persist, Goto, Locked
  <2> QED
    BY <2>1, <2>2 DEF IInv
<1>22. ASSUME NEW c \in Clients, ReleaseBrowser(c) PROVE IInv'
  <2>1. Typed'
    BY <1>22, <1>a DEF ReleaseBrowser, Goto, Last, Locked
  <2>2. RoleInv' /\ StageInv' /\ SnapInv' /\ NewestInv' /\ JournalInv' /\ NothingForgotten'
    BY <1>22 DEF ReleaseBrowser, Goto, Last, Locked
  <2> QED
    BY <2>1, <2>2 DEF IInv
<1>23. ASSUME NEW c \in Clients, ReleaseRequest(c) PROVE IInv'
  <2>1. Typed'
    BY <1>23, <1>a DEF ReleaseRequest, Goto, Last, Locked
  <2>2. RoleInv' /\ StageInv' /\ SnapInv' /\ NewestInv' /\ JournalInv' /\ NothingForgotten'
    BY <1>23 DEF ReleaseRequest, Goto, Last, Locked
  <2> QED
    BY <2>1, <2>2 DEF IInv
<1>24. CASE ChromeChanges
  <2>1. Typed'
    BY <1>24 DEF ChromeChanges, volatile
  <2>2. RoleInv' /\ StageInv' /\ SnapInv' /\ NewestInv' /\ JournalInv' /\ NothingForgotten'
    BY <1>24 DEF ChromeChanges, volatile
  <2> QED
    BY <2>1, <2>2 DEF IInv
<1>25. CASE Shutdown
  <2>1. Typed'
    BY <1>25, <1>a DEF Shutdown, Goto, NotifyAll, Locked
  <2>2. RoleInv' /\ StageInv' /\ SnapInv' /\ NewestInv' /\ JournalInv' /\ NothingForgotten'
    BY <1>25 DEF Shutdown, Goto, NotifyAll, Locked
  <2> QED
    BY <2>1, <2>2 DEF IInv
<1>26. CASE Crash
  <2>1. Typed'
    BY <1>26, <1>a DEF Crash
  <2>2. RoleInv' /\ StageInv' /\ SnapInv' /\ NewestInv' /\ JournalInv' /\ NothingForgotten'
    BY <1>26 DEF Crash
  <2> QED
    BY <2>1, <2>2 DEF IInv
<1>27. CASE UNCHANGED vars
  <2>1. Typed'
    BY <1>27 DEF vars, volatile
  <2>2. RoleInv' /\ StageInv' /\ SnapInv' /\ NewestInv' /\ JournalInv' /\ NothingForgotten'
    BY <1>27 DEF vars, volatile
  <2> QED
    BY <2>1, <2>2 DEF IInv
<1> QED
  BY <1>1, <1>2, <1>3, <1>4, <1>5, <1>6, <1>7, <1>8, <1>9, <1>10, <1>11, <1>12, <1>13, <1>14, <1>15, <1>16, <1>17,
     <1>18, <1>19, <1>20, <1>21, <1>22, <1>23, <1>24, <1>25, <1>26, <1>27
     DEF Next, Step

\* The invariant holds in every reachable state.
THEOREM Invariant == Spec => []IInv
<1>1. Init => IInv
  BY JarAssumption DEF Init, IInv, Typed, RoleInv, StageInv, SnapInv, NewestInv, JournalInv, NothingForgotten, Http,
     Role, Free, Places, Stages, Versions
<1>2. IInv /\ [Next]_vars => IInv'
  BY InvariantStep
<1> QED
  BY <1>1, <1>2, PTL DEF Spec

-----------------------------------------------------------------------------
(* The counters and the leases                                             *)

Waits  == {"waitB", "wokenB", "openB"}
Leases == {"leaseB"}
Reads  == {"leaseH", "getting", "answered"}
Bool   == {context, request, down, chromeUp, files} \subseteq BOOLEAN

\* How many clients of p are at a place of Q.
Num(Q, p) == Cardinality({c \in Clients : p[c] \in Q})

\* The counters count the clients, short of a shutdown, which closes what is leased.
CountInv ==
    /\ waiters = Num(Waits, pc)
    /\ ~down => users = Num(Leases, pc) /\ requestUsers = Num(Reads, pc)
    /\ users >= 0
    /\ ~request => requestUsers = 0
    /\ op.at \in {"storage", "dump"} /\ Role # "answered" => requestUsers = 0 \/ down

\* Once the shutdown has begun only the shutdown itself holds the lock.
DownInv ==
    /\ op.by = Runtime => down
    /\ down => op = Free \/ op.by = Runtime
    /\ down /\ (context \/ request) => op # Free

JarInv == IInv /\ Bool /\ DownInv /\ CountInv

\* Who is at a place is counted there, and nobody is counted where nobody is.
LEMMA NumFacts ==
    ASSUME NEW p, NEW Q
    PROVE  /\ IsFiniteSet({c \in Clients : p[c] \in Q})
           /\ Num(Q, p) \in Nat
           /\ \A c \in Clients : p[c] \in Q => Num(Q, p) >= 1
<1> DEFINE S == {c \in Clients : p[c] \in Q}
<1>1. IsFiniteSet(S)
  BY JarAssumption, FS_Subset, S \in SUBSET Clients
<1>2. Cardinality(S) \in Nat
  BY <1>1, FS_CardinalityType
<1>3. ASSUME NEW c \in Clients, p[c] \in Q PROVE Cardinality(S) >= 1
  <2>1. Cardinality(S) # 0
    BY <1>1, <1>3, FS_EmptySet
  <2> QED
    BY <1>2, <2>1
<1> QED
  BY <1>1, <1>2, <1>3 DEF Num

\* A client that moves leaves its old place and is counted at the new one.
LEMMA MoveFacts ==
    ASSUME NEW p, NEW n, NEW c \in Clients, NEW q, NEW Q,
           n[c] = q, \A d \in Clients \ {c} : n[d] = p[d]
    PROVE  Num(Q, n) = Num(Q, p) - (IF p[c] \in Q THEN 1 ELSE 0) + (IF q \in Q THEN 1 ELSE 0)
<1> DEFINE S == {d \in Clients : p[d] \in Q}
           T == {d \in Clients : n[d] \in Q}
<1>1. IsFiniteSet(S) /\ Cardinality(S) \in Nat
  BY NumFacts DEF Num
<1>3. CASE q \in Q
  <2>1. T = S \cup {c}
    BY <1>3
  <2>2. Cardinality(T) = IF p[c] \in Q THEN Cardinality(S) ELSE Cardinality(S) + 1
    BY <1>1, <2>1, FS_AddElement
  <2> QED
    BY <1>1, <1>3, <2>2 DEF Num
<1>4. CASE q \notin Q
  <2>1. T = S \ {c}
    BY <1>4
  <2>2. Cardinality(T) = IF p[c] \in Q THEN Cardinality(S) - 1 ELSE Cardinality(S)
    BY <1>1, <2>1, FS_RemoveElement
  <2> QED
    BY <1>1, <1>4, <2>2 DEF Num
<1> QED
  BY <1>3, <1>4

\* Waking a waiter does not change what is counted.
LEMMA NotifyFacts ==
    ASSUME NEW p
    PROVE  /\ Num(Waits, NotifyAll(p)) = Num(Waits, p)
           /\ Num(Leases, NotifyAll(p)) = Num(Leases, p)
           /\ Num(Reads, NotifyAll(p)) = Num(Reads, p)
<1>1. {c \in Clients : NotifyAll(p)[c] \in Waits} = {c \in Clients : p[c] \in Waits}
  BY DEF NotifyAll, Waits
<1>2. {c \in Clients : NotifyAll(p)[c] \in Leases} = {c \in Clients : p[c] \in Leases}
  BY DEF NotifyAll, Leases
<1>3. {c \in Clients : NotifyAll(p)[c] \in Reads} = {c \in Clients : p[c] \in Reads}
  BY DEF NotifyAll, Reads
<1> QED
  BY <1>1, <1>2, <1>3 DEF Num

\* What a step counts that moves one client.
MovesTo(c, q) ==
    /\ Num(Waits, pc')  = Num(Waits, pc) - (IF pc[c] \in Waits THEN 1 ELSE 0) + (IF q \in Waits THEN 1 ELSE 0)
    /\ Num(Leases, pc') = Num(Leases, pc) - (IF pc[c] \in Leases THEN 1 ELSE 0) + (IF q \in Leases THEN 1 ELSE 0)
    /\ Num(Reads, pc')  = Num(Reads, pc) - (IF pc[c] \in Reads THEN 1 ELSE 0) + (IF q \in Reads THEN 1 ELSE 0)

\* A notification with the move changes nothing in the counts.
LEMMA Moved ==
    ASSUME Typed, NEW c \in Clients, NEW q,
           pc' = [pc EXCEPT ![c] = q] \/ pc' = NotifyAll([pc EXCEPT ![c] = q])
    PROVE  MovesTo(c, q)
<1> DEFINE n == [pc EXCEPT ![c] = q]
<1>1. n[c] = q /\ \A d \in Clients \ {c} : n[d] = pc[d]
  BY DEF Typed
<1> HIDE DEF n
<1>2. /\ Num(Waits, pc') = Num(Waits, n) /\ Num(Leases, pc') = Num(Leases, n)
      /\ Num(Reads, pc') = Num(Reads, n)
  BY NotifyFacts DEF n
<1>3. Num(Waits, n) = Num(Waits, pc) - (IF pc[c] \in Waits THEN 1 ELSE 0) + (IF q \in Waits THEN 1 ELSE 0)
  BY <1>1, MoveFacts
<1>4. Num(Leases, n) = Num(Leases, pc) - (IF pc[c] \in Leases THEN 1 ELSE 0)
                                               + (IF q \in Leases THEN 1 ELSE 0)
  BY <1>1, MoveFacts
<1>5. Num(Reads, n) = Num(Reads, pc) - (IF pc[c] \in Reads THEN 1 ELSE 0) + (IF q \in Reads THEN 1 ELSE 0)
  BY <1>1, MoveFacts
<1> QED
  BY <1>2, <1>3, <1>4, <1>5 DEF MovesTo

\* Every flag stays a truth value.
LEMMA BoolStep ==
    ASSUME Bool, [Next]_vars
    PROVE  Bool'
<1>1. ASSUME NEW b, b = TRUE \/ b = FALSE PROVE b \in BOOLEAN
  BY <1>1
<1> USE DEF Bool
<1>2. CASE Step
  BY <1>2 DEF Step, Load, Launch, ClearCookies, AddCookies, Mark, Hook, StartFails, HookFails, ReadCookies, Quit,
     SaveCookies, LaunchRequest, Storage, Dump, BrowserClosed, RequestSaved, durable
<1>3. ASSUME NEW c \in Clients,
             \/ OpenContext(c) \/ BrowserWoken(c) \/ OpenRequestContext(c) \/ CancelWait(c) \/ Get(c)
             \/ Response(c) \/ Persist(c) \/ ReleaseBrowser(c) \/ ReleaseRequest(c)
      PROVE  Bool'
  BY <1>3 DEF OpenContext, BrowserWoken, OpenRequestContext, CancelWait, Get, Response, Persist, ReleaseBrowser,
     ReleaseRequest, durable
<1>4. CASE ChromeChanges \/ Shutdown \/ Crash \/ UNCHANGED vars
  BY <1>4 DEF ChromeChanges, Shutdown, Crash, vars, volatile, durable
<1> QED
  BY <1>2, <1>3, <1>4 DEF Next

\* The shutdown finds the lock free, and nobody starts or closes anything after it.
LEMMA DownStep ==
    ASSUME JarInv, [Next]_vars
    PROVE  DownInv'
<1> USE JarAssumption DEF JarInv, IInv, Bool, DownInv, Free
<1>1. op.by = Runtime => Role = "shutdown"
  BY DEF Role
<1>2. CASE Step
  <2>0. op \in Held
    BY <1>2, HolderFacts DEF Step, Load, Launch, ClearCookies, AddCookies, Mark, Hook, StartFails, HookFails,
       ReadCookies, Quit, SaveCookies, LaunchRequest, Storage, Dump
  <2>1. down' = down
    BY <1>2 DEF Step, Load, Launch, ClearCookies, AddCookies, Mark, Hook, StartFails, HookFails,
       ReadCookies, Quit, SaveCookies, LaunchRequest, Storage, Dump
  <2>2. op'.by = op.by \/ op' = Free
    <3>1. CASE Load \/ Launch \/ ClearCookies \/ AddCookies \/ Mark \/ Hook \/ StartFails \/ HookFails
      BY <2>0, <3>1 DEF Load, Launch, ClearCookies, AddCookies, Mark, Hook, StartFails, HookFails, Proceed, Done,
         DoneNotify, Held
    <3>2. CASE ReadCookies \/ LaunchRequest \/ Storage \/ Dump
      BY <2>0, <3>2 DEF ReadCookies, LaunchRequest, Storage, Dump, RequestSaved, Done, Held
    <3>3. CASE Quit \/ SaveCookies
      <4>1. ASSUME NEW b, BrowserClosed(b) PROVE op'.by = op.by \/ op' = Free
        <5>1. Closed
          BY <3>3, <4>1, ClosedFacts DEF Quit, SaveCookies
        <5> QED
          BY <5>1 DEF Closed, AllIdle
      <4>2. Proceed("save") => op'.by = op.by
        BY <2>0 DEF Proceed, Held
      <4> QED
        BY <3>3, <4>1, <4>2 DEF Quit, SaveCookies
    <3> QED
      BY <1>2, <3>1, <3>2, <3>3 DEF Step
  <2>3. op' = Free /\ down => ~context' /\ ~request'
    <3> SUFFICES ASSUME op' = Free, down PROVE ~context' /\ ~request'
      OBVIOUS
    <3>0. Role = "shutdown" /\ op # Free /\ op'.at = "free"
      BY <1>1, <2>0 DEF Held, Stages
    <3>1. CASE Storage \/ Dump
      <4>1. op'.at # "dump" /\ ~context
        BY <3>0, <3>1 DEF Storage, Dump, StageInv
      <4>2. request' = FALSE /\ context' = context
        BY <2>0, <3>0, <3>1, <4>1 DEF Storage, Dump, RequestSaved, Held
      <4> QED
        BY <4>1, <4>2, Zenon
    <3>2. CASE Quit \/ SaveCookies
      <4>1. op'.at # "save" /\ ~request
        BY <3>0, <3>2 DEF Quit, SaveCookies, StageInv
      <4>2. context' = FALSE /\ request' = request
        BY <2>0, <3>0, <3>2, <4>1 DEF Quit, SaveCookies, BrowserClosed, Held, Proceed
      <4> QED
        BY <4>1, <4>2, Zenon
    <3>3. CASE ReadCookies \/ HookFails \/ Launch \/ ClearCookies \/ AddCookies \/ Mark \/ Load
      BY <2>0, <3>0, <3>3 DEF ReadCookies, HookFails, Launch, ClearCookies, AddCookies, Mark, Load, Proceed,
         TakeOver, Held
    <3>4. CASE Hook \/ StartFails \/ LaunchRequest
      BY <3>0, <3>4 DEF Hook, StartFails, LaunchRequest, RoleInv
    <3> QED
      BY <1>2, <3>1, <3>2, <3>3, <3>4 DEF Step
  <2>4. op.by \in Clients \cup {Runtime} /\ op # Free
    BY <2>0 DEF Held, Actors, Stages
  <2>5. CASE op' = Free
    BY <2>1, <2>3, <2>5
  <2>6. CASE op'.by = op.by /\ op' # Free
    <3>1. down => op'.by = Runtime
      BY <2>4, <2>6
    <3> QED
      BY <2>1, <2>6, <3>1
  <2> QED
    BY <2>2, <2>5, <2>6
<1>3. ASSUME NEW c \in Clients,
             \/ OpenContext(c) \/ BrowserWoken(c) \/ OpenRequestContext(c) \/ CancelWait(c) \/ Get(c)
             \/ Response(c) \/ Persist(c) \/ ReleaseBrowser(c) \/ ReleaseRequest(c)
      PROVE  DownInv'
  <2>1. UNCHANGED <<down, context, request>>
    BY <1>3 DEF OpenContext, BrowserWoken, OpenRequestContext, CancelWait, Get, Response, Persist, ReleaseBrowser,
       ReleaseRequest, durable
  <2>2. \/ UNCHANGED op
        \/ /\ Goto(c, "load", None) \/ Goto(c, "storage", None) \/ Goto(c, "cookies", None)
           /\ ~Locked /\ (~down \/ context \/ request)
    BY <1>3, Zenon DEF OpenContext, BrowserWoken, OpenRequestContext, CancelWait, Get, Response, Persist,
       ReleaseBrowser, ReleaseRequest, BrowserTurn, RequestTurn
  <2>3. ASSUME NEW a, Goto(c, a, None) PROVE op'.by = c
    BY <2>3 DEF Goto
  <2>4. CASE UNCHANGED op
    BY <2>1, <2>4
  <2>5. CASE ~Locked /\ op'.by = c /\ (~down \/ context \/ request)
    <3>1. op = Free
      BY <2>5 DEF Locked
    <3>2. ~down /\ ~down' /\ c # Runtime
      BY <2>1, <2>5, <3>1
    <3> QED
      BY <2>5, <3>2
  <2> QED
    BY <2>2, <2>3, <2>4, <2>5
<1>4. CASE Shutdown
  BY <1>4 DEF Shutdown, Goto, Locked
<1>5. CASE Crash
  BY <1>5 DEF Crash
<1>6. CASE ChromeChanges \/ UNCHANGED vars
  BY <1>6 DEF ChromeChanges, vars, volatile
<1> QED
  BY <1>2, <1>3, <1>4, <1>5, <1>6 DEF Next

\* Every step moves its client and its counter together.
LEMMA CountStep ==
    ASSUME JarInv, [Next]_vars
    PROVE  CountInv'
<1>0. /\ Num(Waits, pc) \in Nat /\ Num(Leases, pc) \in Nat /\ Num(Reads, pc) \in Nat
      /\ \A c \in Clients : pc[c] = "leaseB" => Num(Leases, pc) >= 1
      /\ \A c \in Clients : pc[c] \in Reads => Num(Reads, pc) >= 1
  BY NumFacts DEF Leases
<1> USE DEF JarInv, IInv, Typed, CountInv
<1> DEFINE Same == /\ Num(Waits, pc') = Num(Waits, pc) /\ Num(Leases, pc') = Num(Leases, pc)
                   /\ Num(Reads, pc') = Num(Reads, pc)
<1>1. pc' = pc \/ pc' = NotifyAll(pc) => Same
  BY NotifyFacts
<1>2. CASE Load \/ Launch \/ ClearCookies \/ AddCookies \/ Mark \/ HookFails \/ ReadCookies
  <2>1. UNCHANGED <<pc, waiters, users, requestUsers, request, down>>
    BY <1>2 DEF Load, Launch, ClearCookies, AddCookies, Mark, HookFails, ReadCookies
  <2>2. op'.at \notin {"storage", "dump"}
    BY <1>2, HolderFacts DEF Load, Launch, ClearCookies, AddCookies, Mark, HookFails, ReadCookies, Proceed,
       TakeOver, Held
  <2> QED
    BY <2>1, <2>2
<1>r. ASSUME Role \in {"openB", "openH", "closing", "answered"} , op # Free
      PROVE  op.by \in Clients /\ pc[op.by] = Role
  BY <1>r DEF Role, Held, Actors
<1>3. CASE Hook
  <2>1. op.by \in Clients /\ pc[op.by] = "openB"
    BY <1>3, <1>r DEF Hook, RoleInv, Free
  <2>2. Num(Waits, pc') = Num(Waits, pc) - 1 /\ Num(Leases, pc') = Num(Leases, pc) + 1
        /\ Num(Reads, pc') = Num(Reads, pc)
    <3>1. pc' = NotifyAll([pc EXCEPT ![op.by] = "leaseB"])
      BY <1>3 DEF Hook, DoneNotify
    <3>2. MovesTo(op.by, "leaseB")
      BY <2>1, <3>1, Moved, Zenon
    <3> QED
      BY <1>0, <2>1, <3>2 DEF MovesTo, Waits, Leases, Reads
  <2> QED
    BY <1>3, <2>2 DEF Hook, DoneNotify, Free
<1>4. CASE StartFails
  <2>1. op.by \in Clients /\ pc[op.by] = Role /\ Role \in {"openB", "openH"}
    BY <1>4, <1>r DEF StartFails, RoleInv, Free
  <2>2. Num(Waits, pc') = (IF Role = "openB" THEN Num(Waits, pc) - 1 ELSE Num(Waits, pc))
        /\ Num(Leases, pc') = Num(Leases, pc) /\ Num(Reads, pc') = Num(Reads, pc)
    <3>1. pc' = [pc EXCEPT ![op.by] = "idle"] \/ pc' = NotifyAll([pc EXCEPT ![op.by] = "idle"])
      BY <1>4 DEF StartFails, Done, DoneNotify
    <3>2. MovesTo(op.by, "idle")
      BY <2>1, <3>1, Moved, Zenon
    <3> QED
      BY <1>0, <2>1, <3>2 DEF MovesTo, Waits, Leases, Reads
  <2> QED
    BY <1>4, <2>2 DEF StartFails, Done, DoneNotify, Free
<1>5. ASSUME NEW b, BrowserClosed(b), op.at \in {"quit", "save"}, UNCHANGED <<requestUsers, request, down>>
      PROVE  CountInv'
  <2>1. users = 0 \/ down
    BY <1>5 DEF StageInv
  <2>2. op'.at \notin {"storage", "dump"} /\ users' = 0
    <3>1. Closed
      BY <1>5, ClosedFacts
    <3> QED
      BY <3>1 DEF Closed, AllIdle, Free
  <2>3. CASE Role = "shutdown"
    BY <1>1, <1>5, <2>1, <2>2, <2>3 DEF BrowserClosed
  <2>4. CASE Role \in {"openB", "openH", "closing"}
    <3>1. op.by \in Clients /\ pc[op.by] = Role
      BY <1>5, <1>r, <2>4 DEF Free
    <3>2. CASE Role = "openH" /\ UNCHANGED <<pc, waiters>>
      BY <1>5, <2>1, <2>2, <3>2
    <3>3. CASE ~(Role = "openH" /\ UNCHANGED <<pc, waiters>>)
      <4>1. /\ waiters' = IF Role = "openB" THEN waiters - 1 ELSE waiters
            /\ pc' = [pc EXCEPT ![op.by] = "idle"] \/ pc' = NotifyAll([pc EXCEPT ![op.by] = "idle"])
        BY <1>5, <2>4, <3>3 DEF BrowserClosed, Done, DoneNotify
      <4>2. MovesTo(op.by, "idle")
        BY <3>1, <4>1, Moved, Zenon
      <4>3. /\ Num(Waits, pc') = (IF Role = "openB" THEN Num(Waits, pc) - 1 ELSE Num(Waits, pc))
            /\ Num(Leases, pc') = Num(Leases, pc) /\ Num(Reads, pc') = Num(Reads, pc)
        BY <1>0, <2>4, <3>1, <4>2 DEF MovesTo, Waits, Leases, Reads
      <4> QED
        BY <1>5, <2>1, <2>2, <4>1, <4>3
    <3> QED
      BY <3>2, <3>3
  <2> QED
    BY <1>5, <2>3, <2>4 DEF RoleInv
<1>6. CASE Quit \/ SaveCookies
  <2>1. CASE \E b : BrowserClosed(b)
    BY <1>5, <1>6, <2>1 DEF Quit, SaveCookies
  <2>2. CASE Quit /\ Proceed("save") /\ UNCHANGED <<pc, waiters, users, context>>
    <3>1. op'.at = "save"
      BY <2>2, HolderFacts DEF Quit, Proceed, Held
    <3> QED
      BY <2>2, <3>1 DEF Quit
  <2> QED
    BY <1>6, <2>1, <2>2, Zenon DEF Quit, SaveCookies
<1>7. CASE LaunchRequest
  <2>1. op.by \in Clients /\ pc[op.by] = "openH"
    BY <1>7, <1>r DEF LaunchRequest, RoleInv, Free
  <2>2. MovesTo(op.by, "leaseH")
    BY <1>7, <2>1, Moved, Zenon DEF LaunchRequest, Done
  <2> QED
    BY <1>0, <1>7, <2>1, <2>2 DEF LaunchRequest, Done, Free, MovesTo, Waits, Leases, Reads
<1>8. ASSUME op.at \in {"storage", "dump"}, RequestSaved(TRUE) \/ RequestSaved(FALSE),
             UNCHANGED <<waiters, users, down>>
      PROVE  CountInv'
  <2>1. op' = Free /\ request
    BY <1>8, SavedFacts DEF Saved, AllIdle, StageInv
  <2>2. CASE Role = "answered"
    <3>1. op.by \in Clients /\ pc[op.by] = "answered"
      BY <1>8, <1>r, <2>2 DEF Free
    <3>2. MovesTo(op.by, "leaseH") /\ UNCHANGED <<request, requestUsers>>
      BY <1>8, <2>2, <3>1, Moved, Zenon DEF RequestSaved, Done
    <3> QED
      BY <1>0, <1>8, <2>1, <3>1, <3>2 DEF Free, MovesTo, Waits, Leases, Reads
  <2>3. CASE Role = "shutdown"
    BY <1>1, <1>8, <2>1, <2>3 DEF RequestSaved, DownInv, Role, Free
  <2>4. CASE Role = "closing"
    <3>1. op.by \in Clients /\ pc[op.by] = "closing"
      BY <1>8, <1>r, <2>4 DEF Free
    <3>2. MovesTo(op.by, "idle") /\ requestUsers' = 0
      BY <1>8, <2>4, <3>1, Moved DEF RequestSaved
    <3> QED
      BY <1>0, <1>8, <2>1, <2>4, <3>1, <3>2 DEF Free, MovesTo, Waits, Leases, Reads
  <2> QED
    BY <1>8, <2>2, <2>3, <2>4 DEF RoleInv
<1>9. CASE Storage \/ Dump
  <2>1. CASE RequestSaved(TRUE) \/ RequestSaved(FALSE)
    BY <1>8, <1>9, <2>1 DEF Storage, Dump
  <2>2. CASE Storage /\ op' = [op EXCEPT !.at = "dump", !.snap = jar]
             /\ UNCHANGED <<pc, request, requestUsers, jar, told>>
    <3>1. op'.by = op.by
      BY <2>2, HolderFacts DEF Storage, Held
    <3> QED
      BY <2>2, <3>1 DEF Storage, Role
  <2> QED
    BY <1>9, <2>1, <2>2, Zenon DEF Storage, Dump
<1>10. ASSUME NEW c \in Clients, NEW w \in Int, BrowserTurn(c, w),
              \/ pc[c] = "idle" /\ w = waiters + 1
              \/ pc[c] = "wokenB" /\ w = waiters,
              op = Free, UNCHANGED <<requestUsers, request, down>>
       PROVE  CountInv'
  <2>1. op'.at \notin {"storage", "dump"}
    BY <1>10 DEF BrowserTurn, Goto, Free
  <2>2. CASE pc' = [pc EXCEPT ![c] = "waitB"] /\ waiters' = w /\ UNCHANGED users
    <3>1. MovesTo(c, "waitB")
      BY <2>2, Moved, Zenon
    <3> QED
      BY <1>0, <1>10, <2>1, <2>2, <3>1 DEF MovesTo, Waits, Leases, Reads
  <2>3. CASE pc' = NotifyAll([pc EXCEPT ![c] = "idle"]) /\ waiters' = w - 1 /\ UNCHANGED users
    <3>1. MovesTo(c, "idle")
      BY <2>3, Moved, Zenon
    <3> QED
      BY <1>0, <1>10, <2>1, <2>3, <3>1 DEF MovesTo, Waits, Leases, Reads
  <2>4. CASE pc' = NotifyAll([pc EXCEPT ![c] = "leaseB"]) /\ waiters' = w - 1 /\ users' = users + 1
    <3>1. MovesTo(c, "leaseB")
      BY <2>4, Moved, Zenon
    <3> QED
      BY <1>0, <1>10, <2>1, <2>4, <3>1 DEF MovesTo, Waits, Leases, Reads
  <2>5. CASE pc' = [pc EXCEPT ![c] = "openB"] /\ waiters' = w /\ UNCHANGED users
    <3>1. MovesTo(c, "openB")
      BY <2>5, Moved, Zenon
    <3> QED
      BY <1>0, <1>10, <2>1, <2>5, <3>1 DEF MovesTo, Waits, Leases, Reads
  <2> QED
    BY <1>10, <2>2, <2>3, <2>4, <2>5, Zenon DEF BrowserTurn
<1>11. ASSUME NEW c \in Clients, OpenContext(c) \/ BrowserWoken(c) PROVE CountInv'
  <2>1. op = Free
    BY <1>11 DEF OpenContext, BrowserWoken, Locked
  <2>2. CASE OpenContext(c)
    BY <1>10, <2>1, <2>2 DEF OpenContext
  <2>3. CASE BrowserWoken(c)
    BY <1>10, <2>1, <2>3 DEF BrowserWoken
  <2> QED
    BY <1>11, <2>2, <2>3
<1>12. ASSUME NEW c \in Clients, OpenRequestContext(c) PROVE CountInv'
  <2>1. /\ op = Free /\ pc[c] \in {"idle", "wokenH"}
        /\ UNCHANGED <<waiters, request, down>> /\ RequestTurn(c)
    BY <1>12 DEF OpenRequestContext, Locked
  <2>2. op'.at \notin {"storage", "dump"}
    BY <2>1 DEF RequestTurn, Goto, Free
  <2>3. CASE \E q \in {"waitH", "idle", "openH"} : pc' = [pc EXCEPT ![c] = q] /\ UNCHANGED <<users, requestUsers>>
    <3>1. PICK q \in {"waitH", "idle", "openH"} : pc' = [pc EXCEPT ![c] = q] /\ UNCHANGED <<users, requestUsers>>
      BY <2>3
    <3>2. MovesTo(c, q)
      BY <3>1, Moved, Zenon
    <3> QED
      BY <1>0, <2>1, <2>2, <3>1, <3>2 DEF MovesTo, Waits, Leases, Reads
  <2>4. CASE pc' = [pc EXCEPT ![c] = "leaseB"] /\ users' = users + 1 /\ UNCHANGED requestUsers
    <3>1. MovesTo(c, "leaseB")
      BY <2>4, Moved, Zenon
    <3> QED
      BY <1>0, <2>1, <2>2, <2>4, <3>1 DEF MovesTo, Waits, Leases, Reads
  <2>5. CASE /\ pc' = [pc EXCEPT ![c] = "leaseH"] /\ requestUsers' = requestUsers + 1
             /\ request /\ UNCHANGED users
    <3>1. MovesTo(c, "leaseH")
      BY <2>5, Moved, Zenon
    <3> QED
      BY <1>0, <2>1, <2>2, <2>5, <3>1 DEF MovesTo, Waits, Leases, Reads
  <2> QED
    BY <2>1, <2>3, <2>4, <2>5 DEF RequestTurn
<1>13. ASSUME NEW c \in Clients, CancelWait(c) PROVE CountInv'
  <2>1. op = Free /\ op' = Free /\ UNCHANGED <<users, requestUsers, request, down>>
    BY <1>13 DEF CancelWait, Locked
  <2>2. MovesTo(c, "idle")
    BY <1>13, Moved, Zenon DEF CancelWait
  <2> QED
    BY <1>0, <1>13, <2>1, <2>2 DEF CancelWait, Free, MovesTo, Waits, Leases, Reads
<1>14. ASSUME NEW c \in Clients, Get(c) \/ Response(c) PROVE CountInv'
  <2>1. PICK q \in Reads : pc' = [pc EXCEPT ![c] = q]
    BY <1>14 DEF Get, Response, Reads
  <2>2. MovesTo(c, q)
    BY <2>1, Moved, Zenon
  <2>3. UNCHANGED <<op, waiters, users, requestUsers, request, down>> /\ pc[c] \in {"leaseH", "getting"}
    BY <1>14 DEF Get, Response
  <2>4. op'.at \in {"storage", "dump"} /\ Role' # "answered" => Role # "answered"
    <3> SUFFICES ASSUME op.at \in {"storage", "dump"} PROVE Role' = Role
      BY <2>3
    <3>1. op.by # c
      BY <2>3, JarAssumption DEF Role, RoleInv
    <3> QED
      BY <2>1, <2>3, <3>1 DEF Role
  <2> QED
    BY <1>0, <2>1, <2>2, <2>3, <2>4 DEF MovesTo, Waits, Leases, Reads
<1>15. ASSUME NEW c \in Clients, Persist(c) PROVE CountInv'
  <2>1. op = Free /\ pc[c] = "answered" /\ UNCHANGED <<waiters, users, requestUsers, request, down>>
    BY <1>15 DEF Persist, Locked
  <2>2. CASE Goto(c, "storage", None) /\ UNCHANGED pc
    <3>1. op'.by = c /\ c # Runtime
      BY <2>2, JarAssumption DEF Goto
    <3>2. Role' = "answered"
      BY <2>1, <2>2, <3>1 DEF Role
    <3> QED
      BY <2>1, <2>2, <3>2
  <2>3. CASE pc' = [pc EXCEPT ![c] = "leaseH"] /\ UNCHANGED op
    <3>1. MovesTo(c, "leaseH")
      BY <2>3, Moved, Zenon
    <3> QED
      BY <1>0, <2>1, <2>3, <3>1 DEF Free, MovesTo, Waits, Leases, Reads
  <2> QED
    BY <1>15, <2>2, <2>3 DEF Persist
<1>16. ASSUME NEW c \in Clients, ReleaseBrowser(c) PROVE CountInv'
  <2>1. op = Free /\ pc[c] = "leaseB" /\ UNCHANGED <<waiters, requestUsers, request, down>>
    BY <1>16 DEF ReleaseBrowser, Locked
  <2>2. op'.at \notin {"storage", "dump"}
    BY <1>16, <2>1 DEF ReleaseBrowser, Goto, Free
  <2>3. PICK q \in {"idle", "closing"} : pc' = [pc EXCEPT ![c] = q]
    BY <1>16 DEF ReleaseBrowser
  <2>4. MovesTo(c, q)
    BY <2>3, Moved, Zenon
  <2>5. ~down => context
    BY <1>0, <2>1 DEF StageInv
  <2>6. down => ~context
    BY <2>1 DEF DownInv
  <2>7. users' = IF context THEN users - 1 ELSE users
    BY <1>16 DEF ReleaseBrowser
  <2> QED
    BY <1>0, <2>1, <2>2, <2>3, <2>4, <2>5, <2>6, <2>7 DEF MovesTo, Waits, Leases, Reads
<1>17. ASSUME NEW c \in Clients, ReleaseRequest(c) PROVE CountInv'
  <2>1. op = Free /\ pc[c] = "leaseH" /\ UNCHANGED <<waiters, users, request, down>>
    BY <1>17 DEF ReleaseRequest, Locked
  <2>2. PICK q \in {"idle", "closing"} : pc' = [pc EXCEPT ![c] = q]
    BY <1>17 DEF ReleaseRequest
  <2>3. MovesTo(c, q)
    BY <2>2, Moved, Zenon
  <2>4. ~down => request
    BY <1>0, <2>1 DEF Reads
  <2>5. down => ~request
    BY <2>1 DEF DownInv
  <2>6. requestUsers' = IF request THEN requestUsers - 1 ELSE requestUsers
    BY <1>17 DEF ReleaseRequest
  <2>7. op'.at \in {"storage", "dump"} => requestUsers' = 0
    BY <1>17, <2>1 DEF ReleaseRequest, Last, Free
  <2> QED
    BY <1>0, <2>1, <2>2, <2>3, <2>4, <2>5, <2>6, <2>7 DEF MovesTo, Waits, Leases, Reads
<1>18. CASE Shutdown
  <2>1. Same /\ down' = TRUE
    BY <1>1, <1>18 DEF Shutdown
  <2> QED
    BY <1>18, <2>1 DEF Shutdown
<1>19. CASE Crash
  <2>1. /\ {c \in Clients : pc'[c] \in Waits} = {} /\ {c \in Clients : pc'[c] \in Leases} = {}
        /\ {c \in Clients : pc'[c] \in Reads} = {}
    BY <1>19 DEF Crash, Waits, Leases, Reads
  <2>2. Num(Waits, pc') = 0 /\ Num(Leases, pc') = 0 /\ Num(Reads, pc') = 0
    BY <2>1, FS_EmptySet DEF Num
  <2> QED
    BY <1>19, <2>2 DEF Crash, Free
<1>20. CASE ChromeChanges \/ UNCHANGED vars
  BY <1>20 DEF ChromeChanges, vars, volatile, Role
<1> QED
  BY <1>2, <1>3, <1>4, <1>6, <1>7, <1>9, <1>11, <1>12, <1>13, <1>14, <1>15, <1>16, <1>17, <1>18, <1>19, <1>20
     DEF Next, Step

\* The whole invariant holds in every reachable state.
THEOREM JarInvariant == Spec => []JarInv
<1>1. Init => DownInv /\ Bool
  <2>1. Init => DownInv
    BY JarAssumption DEF Init, DownInv, Free
  <2>2. Init => Bool
    BY DEF Init, Bool
  <2> QED
    BY <2>1, <2>2
<1>2. Init => CountInv
  <2> SUFFICES ASSUME Init PROVE CountInv
    OBVIOUS
  <2>1. /\ {c \in Clients : pc[c] \in Waits} = {} /\ {c \in Clients : pc[c] \in Leases} = {}
        /\ {c \in Clients : pc[c] \in Reads} = {}
    BY DEF Init, Waits, Leases, Reads
  <2>2. Num(Waits, pc) = 0 /\ Num(Leases, pc) = 0 /\ Num(Reads, pc) = 0
    BY <2>1, FS_EmptySet DEF Num
  <2> QED
    BY <2>2 DEF Init, CountInv, Free
<1>3. JarInv /\ [Next]_vars => JarInv'
  BY InvariantStep, BoolStep, DownStep, CountStep DEF JarInv
<1> QED
  BY <1>1, <1>2, <1>3, Invariant, PTL DEF Spec, JarInv

\* A jar is not closed under a client that holds a lease on it, short of a shutdown.
LEMMA LeasesAreLive == JarInv => LeaseIsLive
<1> SUFFICES ASSUME JarInv, NEW c \in Clients
    PROVE  /\ pc[c] = "leaseB" => context \/ down
           /\ pc[c] \in {"leaseH", "getting", "answered"} => request \/ down
  BY DEF LeaseIsLive
<1>1. pc[c] = "leaseB" => context \/ down
  <2>1. pc[c] = "leaseB" => Num(Leases, pc) >= 1
    BY NumFacts DEF Leases
  <2> QED
    BY <2>1 DEF JarInv, IInv, StageInv, CountInv
<1>2. pc[c] \in Reads => request \/ down
  <2>1. pc[c] \in Reads => Num(Reads, pc) >= 1
    BY NumFacts
  <2> QED
    BY <2>1 DEF JarInv, CountInv
<1> QED
  BY <1>1, <1>2 DEF Reads

\* The counters are natural numbers, and every variable is of its type.
LEMMA TypesAreKept == JarInv => TypeOK
<1> SUFFICES ASSUME JarInv PROVE TypeOK
  OBVIOUS
<1>1. waiters \in Nat /\ users \in Nat /\ requestUsers \in Nat
  <2>1. Num(Waits, pc) \in Nat
    BY NumFacts
  <2>2. waiters = Num(Waits, pc) /\ users >= 0 /\ users \in Int /\ requestUsers \in Nat
    BY DEF JarInv, IInv, Typed, CountInv
  <2> QED
    BY <2>1, <2>2
<1>2. told \in 0 .. top
  BY JarAssumption DEF JarInv, IInv, Typed, NewestInv, Versions
<1>3. pc \in [Clients -> Places] /\ op \in Held \cup {Free}
  BY DEF JarInv, IInv, Typed
<1>4. /\ jar \in Versions /\ chrome \in Versions /\ top \in Versions
      /\ journal \in [source : {"http", "browser"}, ver : Versions] \cup {None}
  BY DEF JarInv, IInv, Typed
<1>5. {context, request, down, chromeUp, files} \subseteq BOOLEAN
  BY DEF JarInv, Bool
<1> QED
  BY <1>1, <1>2, <1>3, <1>4, <1>5, Zenon DEF TypeOK, Places, Held, Actors, Snaps

\* However browsers, HTTP readers, crashes and shutdowns interleave, one jar is open, it and
\* the journal hold the newest cookies a client was told of, and leases are on open jars.
THEOREM JarIsKept == Spec => []JarKept
<1>1. JarInv => OneJar
  BY Zenon DEF JarInv, IInv, Bool, StageInv, OneJar
<1>2. JarInv => JarKept
  BY <1>1, LeasesAreLive, TypesAreKept DEF JarInv, IInv, JarKept
<1> QED
  BY <1>2, JarInvariant, PTL
=============================================================================
