------------------------------ MODULE AccountTab ------------------------------
(***************************************************************************)
(* One browser tab and the account it works for (lib/accountClient.ts,     *)
(* AccountSync.tsx), the server's check of that account (lib/appOwner.ts,  *)
(* accountRequest.ts, kernelSession.ts) and four users of it: the login    *)
(* panel (KernelLoginPanel.tsx), the search page (SearchBox.tsx,           *)
(* lib/search/state.ts), the favourite mark of the player (PlayerDock) and *)
(* the page of a playlist (PlaylistDetailView.tsx).                        *)
(*                                                                         *)
(* The kernel has one login, which other devices change at any time.  The  *)
(* tab polls it, and every request carries the sessionKey the tab knows.   *)
(* A behaviour follows one of the four users.                              *)
(***************************************************************************)
EXTENDS Integers, FiniteSets, Sequences, SequencesExt

CONSTANTS
    Accounts, Guest,
    MaxPages,           \* MAX_SEARCH_PAGES: 10
    Entries,            \* entries that the playlist may have
    MaxChanges, MaxRequests,    \* bounds: logins, reloads and edits elsewhere, search requests at a time
    None

ASSUME AccountTabAssumption ==
    /\ Guest \notin Accounts /\ None \notin Accounts \cup {Guest}
    /\ MaxPages \in Nat \ {0} /\ {MaxChanges, MaxRequests} \subseteq Nat
    /\ IsFiniteSet(Entries)

Owners == Accounts \cup {Guest}

\* A sessionKey: the verified account and the time of its login; logged out is always one.
LoggedOut == [owner |-> Guest, since |-> 0]
Logins == [owner : Accounts, since : 0 .. MaxChanges] \cup {LoggedOut}
Pages == 1 .. MaxPages
Users == {"panel", "search", "dock", "list"}

VARIABLES
    user,       \* the part of the tab that a behaviour follows
    login, changes,     \* who is logged in at the kernel; logins, reloads and edits elsewhere so far
    current,    \* accountClient: the account the tab knows
    poll,       \* pending: the status request that all callers share
    own,        \* the status request of the login panel
    shown,      \* latest of the panel: an account, or a logout without its sessionKey
    action,     \* the panel's request to log in or out: it is busy with one at a time
    qr,         \* whether it shows a QR code
    masked,     \* the tab's account is shown as not logged in, as a QR code was asked for
    result,     \* the search page's result, also kept in sessionStorage
    failure, loading, latest, requests,
    stale,      \* ghost: the result was restored by a reload, before the account was known
    library,    \* whether each owner has the video among the favourites
    write,      \* a request that adds or removes the favourite
    dock,       \* the player's favourite mark
    details,    \* its request for the details of the video
    doubt,      \* ghost: the answer to a write was lost
    playlist,   \* the playlist at the server: its owner and the order of its entries
    page,       \* the order that its page shows
    edit,       \* the edit under way, with the refresh that follows it
    behind      \* ghost: the playlist may have changed since it was last read

accountVars == <<login, changes, current, poll>>
panelVars == <<own, shown, action, qr, masked>>
searchVars == <<result, failure, loading, latest, requests, stale>>
dockVars == <<library, write, dock, details, doubt>>
listVars == <<playlist, page, edit, behind>>
vars == <<user, accountVars, panelVars, searchVars, dockVars, listVars>>

\* of: the login whose search goes on.
Attempts == [page : Pages, of : Logins \cup {None}]

Status == [state : {"idle", "sent", "answered"}, of : Logins \cup {None}]
Idle == [state |-> "idle", of |-> None]
Asked == [state |-> "sent", of |-> None]
Told(k) == [state |-> "answered", of |-> k]

\* What the login panel makes of a logout.
NoKey == [owner |-> Guest, since |-> None]

\* Entries of the playlist in an order.
Orders == {s \in SeqOf(Entries, Cardinality(Entries)) : IsInjective(s)}

\* A write of the favourite mark, an edit of the playlist and what it asks for.
Writes == [key : Logins, value : BOOLEAN, identity : Logins \cup {None}, stage : {"sent", "checked", "answered"}]
Asks == [kind : {"move"}, order : Orders] \cup [kind : {"remove"}, entry : Entries] \cup [kind : {"keep", "destroy"}]
UnderWay == [key : Logins, ask : Asks, stage : {"sent", "done", "reading", "read"}, order : Orders \cup {None}]

\* None is no login, write or edit.
ASSUME NullAssumption == None \notin Logins \cup Writes \cup UnderWay

TypeOK ==
    /\ user \in Users /\ login \in Logins /\ changes \in 0 .. MaxChanges
    /\ current \in Logins \cup {None} /\ {poll, own} \subseteq Status
    /\ shown \in Logins \cup {None, NoKey}
    /\ result \in Attempts \cup {None} /\ loading \in BOOLEAN /\ latest \in 0 .. MaxRequests
    /\ \A r \in requests : r.id \in 1 .. MaxRequests /\ r.key \in Logins /\ r.ask \in Attempts
    /\ library \in [Owners -> BOOLEAN] /\ {stale, doubt, qr, masked, behind} \subseteq BOOLEAN
    /\ write \in Writes \cup {None} /\ edit \in UnderWay \cup {None}
    /\ playlist \in [owner : Owners, order : Orders] \cup {None} /\ page \in Orders \cup {None}

Init ==
    /\ user \in Users
    /\ login \in [owner : Accounts, since : {0}] \cup {LoggedOut} /\ changes = 0
    /\ current = None /\ poll = Idle
    /\ own = Idle /\ shown = None /\ action = None /\ qr = FALSE /\ masked = FALSE
    /\ result = None /\ failure = None /\ loading = FALSE /\ latest = 0 /\ requests = {} /\ stale = FALSE
    /\ library \in [Owners -> {FALSE}] /\ write = None /\ dock = None /\ details = None /\ doubt = FALSE
    /\ playlist \in IF user = "list" THEN [owner : {login.owner}, order : Orders] ELSE {None}
    /\ page = (IF playlist = None THEN None ELSE playlist.order) /\ edit = None /\ behind = FALSE

-----------------------------------------------------------------------------
(* The kernel, and the server's reading of it                              *)

\* Another device logs in or out.
LoginChanges(o) ==
    /\ changes < MaxChanges /\ changes' = changes + 1
    /\ login' = IF o = Guest THEN LoggedOut ELSE [owner |-> o, since |-> changes + 1]
    /\ UNCHANGED <<user, current, poll, panelVars, searchVars, dockVars, listVars>>

\* assertAccountContext, currentAppOwnerId: the sender's account is still logged in.
ContextHolds(key) == key = login

\* GET login/status: who is logged in as it is read.
PollAnswered ==
    /\ poll = Asked
    /\ poll' = Told(login)
    /\ UNCHANGED <<user, login, changes, current, panelVars, searchVars, dockVars, listVars>>

-----------------------------------------------------------------------------
(* The account of the tab                                                  *)

Listening == {r \in requests : r.tab = "listening"}
Aborted(S) == {IF r.tab = "listening" THEN [r EXCEPT !.tab = "aborted"] ELSE r : r \in S}

\* ACCOUNT_CHANGE_EVENT at the search page: nothing of the old account stays.
SearchForgets ==
    /\ requests' = Aborted(requests)
    /\ loading' = FALSE /\ result' = None /\ failure' = None /\ stale' = FALSE
    /\ UNCHANGED latest

\* The player starts anew for another owner; details asked for are not waited for.
DockRestores ==
    /\ dock' = None /\ details' = None /\ doubt' = FALSE
    /\ UNCHANGED <<library, write>>

\* router.refresh: the page is rendered anew for who is logged in; no other owner finds it.
ListRerenders ==
    /\ page' = IF playlist # None /\ playlist.owner = login.owner THEN playlist.order ELSE None
    /\ behind' = (edit # None)
    /\ UNCHANGED <<playlist, edit>>

\* publishClientAccount: a status event if anything changed, which the panel and the player
\* take up; a change event if there was another account before.
PublishClientAccount(k) ==
    /\ current' = k /\ masked' = FALSE
    /\ IF current \notin {None, k} THEN SearchForgets /\ ListRerenders ELSE UNCHANGED <<searchVars, listVars>>
    /\ IF current = None \/ current.owner # k.owner THEN DockRestores ELSE UNCHANGED dockVars

\* AccountSync: every five seconds, on focus and after a change; one request at a time.
RefreshClientAccount ==
    /\ poll = Idle
    /\ poll' = Asked
    /\ UNCHANGED <<user, login, changes, current, panelVars, searchVars, dockVars, listVars>>

PollReceived ==
    /\ poll.state = "answered"
    /\ PublishClientAccount(poll.of)
    /\ IF poll.of = current /\ ~masked THEN UNCHANGED <<shown, qr>>
       ELSE shown' = poll.of /\ qr' = (qr /\ poll.of = LoggedOut /\ shown \in {None, NoKey, LoggedOut})
    /\ poll' = Idle
    /\ UNCHANGED <<user, login, changes, own, action>>

\* Twelve seconds without an answer, or an error: the next caller asks anew.
PollFails ==
    /\ poll = Asked
    /\ poll' = Idle
    /\ UNCHANGED <<user, login, changes, current, panelVars, searchVars, dockVars, listVars>>

\* A refused request makes accountFetch ask for the account.
Refused == poll' = IF poll = Idle THEN Asked ELSE poll

-----------------------------------------------------------------------------
(* The login panel                                                         *)

\* When it opens, on request, and every three seconds while a QR code is shown.
PanelRefreshes ==
    /\ user = "panel" /\ own = Idle
    /\ own' = Asked
    /\ UNCHANGED <<user, accountVars, shown, action, qr, masked, searchVars, dockVars, listVars>>

PanelAnswered ==
    /\ own = Asked
    /\ own' = Told(login)
    /\ UNCHANGED <<user, accountVars, shown, action, qr, masked, searchVars, dockVars, listVars>>

PanelFails ==
    /\ own = Asked
    /\ own' = Idle
    /\ UNCHANGED <<user, accountVars, shown, action, qr, masked, searchVars, dockVars, listVars>>

\* publish, with an answer that may be older than what the tab knows by now.  The QR code
\* goes when somebody is logged in or the kernel's login session has ended.
PanelPublishes ==
    /\ own.state = "answered"
    /\ PublishClientAccount(own.of)
    /\ shown' = own.of /\ own' = Idle
    /\ qr' \in IF own.of = LoggedOut THEN {qr, FALSE} ELSE {FALSE}
    /\ UNCHANGED <<user, login, changes, poll, action>>

ShowsAccount == shown \notin {None, NoKey, LoggedOut} /\ ~masked

\* The button: a QR code for whoever wants to log in; log out, also before another account
\* is chosen; or end the wait for a scan, which is a logout.
Act(kind) ==
    /\ user = "panel" /\ current # None /\ action = None
    /\ IF kind = "login" THEN ~ShowsAccount /\ ~qr ELSE ShowsAccount \/ qr
    /\ action' = [kind |-> kind, key |-> current, stage |-> "sent"]
    /\ UNCHANGED <<user, accountVars, own, shown, qr, masked, searchVars, dockVars, listVars>>

ActionChecked ==
    /\ action # None /\ action.stage = "sent"
    /\ IF ContextHolds(action.key) THEN action' = [action EXCEPT !.stage = "checked"] /\ UNCHANGED poll
       ELSE action' = None /\ Refused
    /\ UNCHANGED <<user, login, changes, current, own, shown, qr, masked, searchVars, dockVars, listVars>>

\* The kernel logs out whoever is logged in by then.
KernelLogout ==
    /\ action # None /\ action.kind = "logout" /\ action.stage = "checked"
    /\ login' = LoggedOut
    /\ action' = [action EXCEPT !.stage = "answered"]
    /\ UNCHANGED <<user, changes, current, poll, own, shown, qr, masked, searchVars, dockVars, listVars>>

\* It starts a login session, or goes on with one, unless somebody is logged in.
KernelStart ==
    /\ action # None /\ action.kind = "login" /\ action.stage = "checked"
    /\ action' = IF login = LoggedOut THEN [action EXCEPT !.stage = "answered"] ELSE None
    /\ UNCHANGED <<user, accountVars, own, shown, qr, masked, searchVars, dockVars, listVars>>

\* The panel tells of a logout without a sessionKey, so the tab's account stays, but for
\* the change event, until the next status.
LoggedOutShown ==
    /\ action # None /\ action.kind = "logout" /\ action.stage = "answered"
    /\ shown' = NoKey /\ qr' = FALSE /\ action' = None
    /\ Refused
    /\ UNCHANGED <<user, login, changes, current, own, masked, searchVars, dockVars, listVars>>

\* beginLogin: what the panel knows by now, an account of another device too, is published
\* as not logged in.
QrShown ==
    /\ action # None /\ action.kind = "login" /\ action.stage = "answered"
    /\ qr' = TRUE /\ action' = None
    /\ masked' = (masked \/ shown \notin {None, NoKey})
    /\ UNCHANGED <<user, accountVars, own, shown, searchVars, dockVars, listVars>>

\* expiresAt has passed.
QrExpires ==
    /\ qr /\ qr' = FALSE
    /\ UNCHANGED <<user, accountVars, own, shown, action, masked, searchVars, dockVars, listVars>>

-----------------------------------------------------------------------------
(* The search page                                                         *)

FreeIds == {n \in 1 .. MaxRequests : \A r \in requests : r.id # n}
Remaining(S) == {r \in S : ~(r.tab = "gone" /\ r.answer # None)}

\* execute: the request before is aborted; accountFetch adds the account of the tab.
Execute(ask) ==
    /\ user = "search" /\ current # None /\ FreeIds # {}
    /\ \E n \in FreeIds :
          /\ \A m \in FreeIds : n <= m
          /\ requests' = Aborted(requests) \cup
                {[id |-> n, key |-> current, ask |-> ask, answer |-> None, tab |-> "listening"]}
          /\ latest' = n
    /\ loading' = TRUE /\ failure' = None
    /\ UNCHANGED <<user, accountVars, panelVars, result, stale, dockVars, listVars>>

Fresh == [page |-> 1, of |-> None]

\* The form, a suggestion, a link with run=1, or a new search for the same.
Begin == ~loading /\ Execute(Fresh)

\* pageAttempt: another page of the search that is shown.
GoTo(p) == ~loading /\ result # None /\ p # result.page /\ Execute([result EXCEPT !.page = p])

Retry == ~loading /\ failure # None /\ Execute(IF failure.changed THEN Fresh ELSE failure.ask)

Cancel ==
    /\ loading
    /\ requests' = Aborted(requests) /\ loading' = FALSE
    /\ UNCHANGED <<user, accountVars, panelVars, result, failure, latest, stale, dockVars, listVars>>

\* The server's answers: a page, an error of the provider, or that the search is not there
\* any more, which it never is for another owner.
SearchAnswers(r) ==
    IF ~ContextHolds(r.key) THEN {"account"}
    ELSE IF r.ask.of # None /\ r.ask.of.owner # r.key.owner THEN {"changed"}
    ELSE {"page", "failed", "changed"}

SearchAnswered(r, a) ==
    /\ r.answer = None /\ a \in SearchAnswers(r)
    /\ requests' = Remaining((requests \ {r}) \cup {[r EXCEPT !.answer = a]})
    /\ UNCHANGED <<user, accountVars, panelVars, result, failure, loading, latest, stale, dockVars, listVars>>

\* Mutant: every request that ends clears the flag.
ClearsAlways(r) == TRUE

\* Mutant: the flag is cleared after an answer, not in a finally clause.
ClearsAnswered(r) == latest = r.id /\ r.answer # None

\* finally: only the request of the latest controller clears the flag.
Clears(r) == latest = r.id

Ended(r) ==
    /\ loading' = (loading /\ ~Clears(r))
    /\ requests' = Remaining((requests \ {r}) \cup {[r EXCEPT !.tab = "gone"]})

Unwind(r) ==
    /\ r.tab = "aborted"
    /\ Ended(r)
    /\ UNCHANGED <<user, accountVars, panelVars, result, failure, latest, stale, dockVars, listVars>>

\* bindSearchResult; an answer for an account the tab has left is not used.
ShowResult(r) ==
    /\ r.tab = "listening" /\ r.answer = "page" /\ r.key = current
    /\ result' = [page |-> r.ask.page, of |-> r.key] /\ stale' = FALSE
    /\ Ended(r)
    /\ UNCHANGED <<user, accountVars, panelVars, failure, latest, dockVars, listVars>>

\* failedSearchAttempt: a search that failed at the provider is kept for the retry.
FailedAttempt(r) == IF r.answer = "failed" THEN [r.ask EXCEPT !.of = r.key] ELSE r.ask

\* An error, an answer of another account, or 45 seconds without one.
ShowFailure(r) ==
    /\ r.tab = "listening"
    /\ r.answer = "page" => r.key # current
    /\ failure' = [ask |-> FailedAttempt(r), changed |-> r.answer = "changed"]
    /\ IF r.answer = "changed" THEN result' = None /\ stale' = FALSE ELSE UNCHANGED <<result, stale>>
    /\ IF r.answer = "account" THEN Refused ELSE UNCHANGED poll
    /\ Ended(r)
    /\ UNCHANGED <<user, login, changes, current, panelVars, latest, dockVars, listVars>>

\* The tab is loaded anew, with the result it saved: no account is known until a status.
Reload ==
    /\ user = "search" /\ current # None
    /\ changes < MaxChanges /\ changes' = changes + 1
    /\ current' = None /\ poll' = Idle
    /\ requests' = Remaining({[r EXCEPT !.tab = "gone"] : r \in requests})
    /\ failure' = None /\ loading' = FALSE /\ latest' = 0
    /\ stale' = (result # None) /\ shown' = None
    /\ UNCHANGED <<user, login, own, action, qr, masked, result, dockVars, listVars>>

-----------------------------------------------------------------------------
(* The favourite mark of the player                                        *)

\* A card or the player adds or removes the favourite, one at a time.
ToggleFavorite(value) ==
    /\ user = "dock" /\ current # None /\ write = None
    /\ write' = [key |-> current, value |-> value, identity |-> None, stage |-> "sent"]
    /\ UNCHANGED <<user, accountVars, panelVars, searchVars, library, dock, details, doubt, listVars>>

\* readAccountOnce: the account is read once for all that the request does.
WriteChecked ==
    /\ write # None /\ write.stage = "sent"
    /\ IF ContextHolds(write.key) THEN write' = [write EXCEPT !.identity = login, !.stage = "checked"] /\ UNCHANGED poll
       ELSE write' = None /\ Refused
    /\ UNCHANGED <<user, login, changes, current, panelVars, searchVars, library, dock, details, doubt, listVars>>

\* Mutant: the account is read again for the write.
OwnerAgain(w) == login.owner

OwnerOf(w) == w.identity.owner

WriteDone ==
    /\ write # None /\ write.stage = "checked"
    /\ library' = [library EXCEPT ![OwnerOf(write)] = write.value]
    /\ write' = [write EXCEPT !.stage = "answered"]
    /\ UNCHANGED <<user, accountVars, panelVars, searchVars, dock, details, doubt, listVars>>

\* notifyLibraryChange, unless the account changed meanwhile: the player takes the value
\* over, and details asked for before no longer count (favoriteRevision).
WriteReceived ==
    /\ write # None /\ write.stage = "answered"
    /\ write' = None
    /\ IF write.key = current
       THEN /\ dock' = [owner |-> current.owner, value |-> write.value]
            /\ details' = IF details = None THEN None ELSE [details EXCEPT !.before = TRUE]
            /\ UNCHANGED doubt
       ELSE doubt' = TRUE /\ UNCHANGED <<dock, details>>
    /\ UNCHANGED <<user, accountVars, panelVars, searchVars, library, listVars>>

\* The connection breaks, before or after the write.
WriteLost ==
    /\ write # None
    /\ write' = None /\ doubt' = TRUE
    /\ UNCHANGED <<user, accountVars, panelVars, searchVars, library, dock, details, listVars>>

\* The player asks for the details every five seconds, one request at a time.
AskDetails ==
    /\ user = "dock" /\ current # None /\ details = None
    /\ details' = [key |-> current, answer |-> None, before |-> FALSE]
    /\ UNCHANGED <<user, accountVars, panelVars, searchVars, library, write, dock, doubt, listVars>>

DetailsAnswered ==
    /\ details # None /\ details.answer = None
    /\ IF ContextHolds(details.key)
       THEN details' = [details EXCEPT !.answer = [value |-> library[login.owner]]] /\ UNCHANGED poll
       ELSE details' = None /\ Refused
    /\ UNCHANGED <<user, login, changes, current, panelVars, searchVars, library, write, dock, doubt, listVars>>

\* favoriteRevision: an answer asked for before a change does not count.
Counts(d) == ~d.before

DetailsReceived ==
    /\ details # None /\ details.answer # None
    /\ details' = None
    /\ dock' = IF details.key = current /\ Counts(details) THEN [owner |-> current.owner, value |-> details.answer.value]
               ELSE dock
    /\ UNCHANGED <<user, accountVars, panelVars, searchVars, library, write, doubt, listVars>>

-----------------------------------------------------------------------------
(* The page of a playlist                                                  *)

\* What an edit asks the server for; "keep" stands for a new name, and for the button
\* that only reads the playlist again.
Edits ==
    {[kind |-> "move", order |-> [page EXCEPT ![k] = page[k + 1], ![k + 1] = page[k]]] : k \in 1 .. Len(page) - 1}
    \cup {[kind |-> "remove", entry |-> page[k]] : k \in 1 .. Len(page)}
    \cup {[kind |-> "keep"], [kind |-> "destroy"]}

\* mutate, remove, move, save, destroy: one at a time.
Mutate(e) ==
    /\ user = "list" /\ current # None /\ page # None /\ edit = None
    /\ edit' = [key |-> current, ask |-> e, stage |-> "sent", order |-> None]
    /\ UNCHANGED <<user, accountVars, panelVars, searchVars, dockVars, playlist, page, behind>>

\* The server finds what the request names.
Finds(r) ==
    /\ ContextHolds(r.key) /\ playlist # None /\ playlist.owner = r.key.owner
    /\ r.ask.kind = "move" => ToSet(r.ask.order) = ToSet(playlist.order)
    /\ r.ask.kind = "remove" => r.ask.entry \in ToSet(playlist.order)

Edited(ask) ==
    CASE ask.kind = "move"    -> [playlist EXCEPT !.order = ask.order]
      [] ask.kind = "remove"  -> [playlist EXCEPT !.order = RemoveFirst(@, ask.entry)]
      [] ask.kind = "destroy" -> None
      [] OTHER                -> playlist

MutationAnswered ==
    /\ edit # None /\ edit.stage = "sent"
    /\ IF Finds(edit) THEN playlist' = Edited(edit.ask) /\ edit' = [edit EXCEPT !.stage = "done"]
       ELSE edit' = None /\ UNCHANGED playlist
    /\ IF ContextHolds(edit.key) THEN UNCHANGED poll ELSE Refused
    /\ UNCHANGED <<user, login, changes, current, panelVars, searchVars, dockVars, page, behind>>

\* Then the playlist is read; its deletion leaves the page.
MutationReceived ==
    /\ edit # None /\ edit.stage = "done"
    /\ IF edit.ask.kind = "destroy" THEN page' = None /\ edit' = None ELSE
       /\ edit' = IF edit.key = current THEN [edit EXCEPT !.stage = "reading"] ELSE None
       /\ UNCHANGED page
    /\ behind' = (behind \/ edit.key # current)
    /\ UNCHANGED <<user, accountVars, panelVars, searchVars, dockVars, playlist>>

RefreshAnswered ==
    /\ edit # None /\ edit.stage = "reading"
    /\ IF ContextHolds(edit.key) /\ playlist # None
       THEN edit' = [edit EXCEPT !.stage = "read", !.order = playlist.order] /\ behind' = FALSE
       ELSE edit' = None /\ behind' = TRUE
    /\ IF ContextHolds(edit.key) THEN UNCHANGED poll ELSE Refused
    /\ UNCHANGED <<user, login, changes, current, panelVars, searchVars, dockVars, playlist, page>>

RefreshReceived ==
    /\ edit # None /\ edit.stage = "read"
    /\ page' = IF edit.key = current /\ page # None THEN edit.order ELSE page
    /\ behind' = (behind \/ edit.key # current)
    /\ edit' = None
    /\ UNCHANGED <<user, accountVars, panelVars, searchVars, dockVars, playlist>>

\* Fifteen seconds without an answer, or a broken connection, before or after the edit.
MutationLost ==
    /\ edit # None
    /\ edit' = None /\ behind' = TRUE
    /\ UNCHANGED <<user, accountVars, panelVars, searchVars, dockVars, playlist, page>>

\* Another device of the owner edits the playlist.
EditedElsewhere(order) ==
    /\ playlist # None /\ order # playlist.order
    /\ changes < MaxChanges /\ changes' = changes + 1
    /\ playlist' = [playlist EXCEPT !.order = order] /\ behind' = TRUE
    /\ UNCHANGED <<user, login, current, poll, panelVars, searchVars, dockVars, page, edit>>

-----------------------------------------------------------------------------

AccountSync == RefreshClientAccount \/ PollAnswered \/ PollReceived \/ PollFails

KernelLoginPanel ==
    \/ PanelRefreshes \/ PanelAnswered \/ PanelFails \/ PanelPublishes
    \/ (\E kind \in {"login", "logout"} : Act(kind)) \/ ActionChecked
    \/ KernelLogout \/ KernelStart \/ LoggedOutShown \/ QrShown \/ QrExpires

SearchBox ==
    \/ Begin \/ (\E p \in Pages : GoTo(p)) \/ Retry \/ Cancel \/ Reload
    \/ \E r \in requests :
          \/ ShowResult(r) \/ ShowFailure(r) \/ Unwind(r)
          \/ \E a \in {"page", "failed", "changed", "account"} : SearchAnswered(r, a)

PlayerDock ==
    \/ (\E value \in BOOLEAN : ToggleFavorite(value))
    \/ WriteChecked \/ WriteDone \/ WriteReceived \/ WriteLost
    \/ AskDetails \/ DetailsAnswered \/ DetailsReceived

PlaylistDetailView ==
    \/ page # None /\ \E e \in Edits : Mutate(e)
    \/ MutationAnswered \/ MutationReceived \/ RefreshAnswered \/ RefreshReceived \/ MutationLost
    \/ \E order \in Orders : EditedElsewhere(order)

Next ==
    AccountSync \/ KernelLoginPanel \/ SearchBox \/ PlayerDock \/ PlaylistDetailView \/ (\E o \in Owners : LoginChanges(o))

\* The tab is visible and its timers run; a server that is asked again and again answers
\* now and then; a request of the search page ends after 45 seconds at the latest.
Fairness ==
    /\ WF_vars(RefreshClientAccount) /\ SF_vars(PollAnswered) /\ WF_vars(PollReceived)
    /\ WF_vars(PanelPublishes) /\ WF_vars(\E r \in requests : ShowResult(r) \/ ShowFailure(r))

Spec == Init /\ [][Next]_vars /\ Fairness

-----------------------------------------------------------------------------
(* Properties                                                              *)

\* API_USAGE.md: what the search page shows is of the account the tab knows (but for a result
\* that a reload restored, see RestoredIsCurrent), it loads exactly while it listens to a request of
\* that account, and no other page is asked for without the search it is of.  PlayerDock:
\* an older answer does not undo a newer action: while no write is under way, the mark is
\* what the library has.  The login panel shows no QR code beside an account.  The page of
\* a playlist shows the order the server has unless another device changed it or an answer
\* was lost, whatever edits were refused and whoever logged in meanwhile.
TabSound ==
    /\ TypeOK
    /\ ~(qr /\ ShowsAccount) /\ shown \in {None, NoKey, current}
    /\ result # None /\ current # None /\ ~stale => result.of = current
    /\ loading <=> Listening # {}
    /\ Cardinality(Listening) <= 1
    /\ \A r \in Listening : r.key = current /\ (r.ask.of \notin {None, current} => stale)
    /\ \A r \in requests : r.ask.page > 1 => r.ask.of # None
    /\ dock # None => dock.owner = current.owner
    /\ dock # None /\ write = None /\ ~doubt => dock.value = library[dock.owner]
    /\ page # None /\ edit = None /\ ~behind => playlist # None /\ page = playlist.order

\* accountClient.ts: "Account context prevents an old tab from writing into a newly selected
\* account": a write that is done changes the library of the account the tab sent it for,
\* whoever logs in between the check and the write; and a new order of a playlist loses no
\* entry that was added meanwhile and brings none back.
WritesGoToSender == [][
    /\ \A o \in Owners : library'[o] # library[o] =>
          write # None /\ write.key.owner = o /\ library'[o] = write.value
    /\ playlist' # playlist /\ changes' = changes =>
          /\ edit # None /\ edit.key.owner = playlist.owner
          /\ edit.ask.kind = "move" => ToSet(playlist'.order) = ToSet(playlist.order)]_vars

\* When the login at the kernel does not change any more the tab comes to know it for good,
\* whatever answers are late, shows no QR code to one who is logged in and no search that it
\* made itself for another account (one that a reload restored may stay: RestoredIsCurrent);
\* and the search page never loads for ever.
EventuallyCurrent ==
    /\ <>[](qr => login = LoggedOut)
    /\ <>[](current = login /\ (result # None /\ ~stale => result.of = login))
    /\ []<>(~loading)

\* API_USAGE.md: "after a change of account search anew", and the display is cleared.  Not so
\* for a result that a reload restores: the first account that the tab comes to know is no
\* change, so what another account searched stays on screen.
RestoredIsCurrent == <>[](current = login /\ (result # None => result.of = login))

\* Not so: the panel may show a logout for good while the tab has an account, when another
\* device logs in before the answer to a logout arrives (the next status is no news).
PanelAgrees == <>[](shown \in {None, current} \/ (shown = NoKey /\ current = LoggedOut))
=============================================================================
