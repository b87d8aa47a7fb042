-------------------------------- MODULE Search --------------------------------
(***************************************************************************)
(* The searches that the application keeps: sessions whose visited pages   *)
(* are frozen in SQLite (lib/search/sessions.ts), and runSearch, which     *)
(* fills them from the provider, the local records or a pasted link        *)
(* (app/api/search/route.ts, lib/search/cache.ts, selection.ts, douyin.ts).*)
(*                                                                         *)
(* The server is single threaded: a request is a step up to the await of   *)
(* the provider, and may ask for any page of any search.  One text is      *)
(* searched for in a behaviour: words, a BV id or a Douyin link.  What     *)
(* others do is a choice wherever it is read: the candidate rows a search  *)
(* finds, and who is logged in when a request reads the account.           *)
(***************************************************************************)
EXTENDS Integers, FiniteSets, Sequences, SequencesExt, TLC

CONSTANTS
    Bvids,              \* videos
    Accounts,           \* owners that log in
    Keys,               \* their logins
    Guest,              \* the owner while nobody is logged in
    PageSize,           \* limit
    MaxPages,           \* MAX_SEARCH_PAGES: 10
    KeepOwner, KeepAll, \* 20 and 80 sessions
    Totals,             \* page counts that a provider tells
    MaxSearches, MaxRequests,   \* bounds: sessions created, requests that wait
    None

ASSUME SearchAssumption ==
    /\ IsFiniteSet(Bvids)
    /\ Guest \notin Accounts /\ None \notin Bvids \cup Accounts \cup Keys \cup {Guest}
    /\ {PageSize, MaxPages, KeepOwner, KeepAll} \subseteq Nat \ {0}
    /\ {MaxSearches, MaxRequests} \cup Totals \subseteq Nat

Owners == Accounts \cup {Guest}
Logins == [owner : Accounts, key : Keys] \cup [owner : {Guest}, key : {Guest}]
Pages == 1 .. MaxPages
Ids == 1 .. MaxSearches
Sources == {"local", "bilibili", "kernel"}

ASSUME NullAssumption == None \notin SeqOf(Bvids, PageSize * MaxPages)

VARIABLES
    subject,    \* what is searched for: the kind of text, the video a link names
    sessions,   \* search_sessions with their pages, numbered in the order of creation
    lastId,
    calls,      \* pendingPages: calls to the provider under way, and who began them
    waiting     \* requests that await a call, or the kernel's look at a Douyin link

vars == <<subject, sessions, lastId, calls, waiting>>

\* What a request asks for; only a search by the kernel is bound to a login.
Attempts ==
    [choice : {"auto", "local", "bilibili"}, page : Pages, key : {None}, search : Ids \cup {None}]
    \cup [choice : {"kernel"}, page : Pages, key : Logins \cup {None}, search : Ids \cup {None}]

TypeOK ==
    /\ subject \in [kind : {"words", "bv", "douyin"}, video : Bvids]
    /\ \A s \in sessions :
          /\ s.id \in 1 .. lastId /\ s.owner \in Owners /\ s.source \in Sources
          /\ s.key \in Logins \cup {None} /\ s.total \in Nat \cup {None}
          /\ s.pages \in [Pages -> (SUBSET Bvids) \cup {None}]
    /\ lastId \in 0 .. MaxSearches
    /\ calls \subseteq [search : Ids, page : Pages, by : 1 .. MaxRequests]
    /\ waiting \subseteq [id : 1 .. MaxRequests, search : Ids, page : Pages]

Init ==
    /\ subject \in [kind : {"words", "bv", "douyin"}, video : Bvids]
    /\ sessions = {} /\ lastId = 0 /\ calls = {} /\ waiting = {}

-----------------------------------------------------------------------------
(* Sessions                                                                *)

\* What the other pages of the session hold.
Seen(s) == UNION {s.pages[p] : p \in {q \in Pages : s.pages[q] # None}}

\* Mutant: videos are compared with those of the same answer only.
NewVideosUnseen(s, S) == S

NewVideos(s, S) == S \ Seen(s)

\* COALESCE keeps the count known first; none is no count for a page with videos.
KnownTotal(s, S, total) == IF s.total # None \/ (total = 0 /\ S # {}) THEN s.total ELSE total

\* commitPage: a page that is recorded stays.
Commit(s, p, S, total) ==
    IF s.pages[p] # None THEN s
    ELSE [s EXCEPT !.pages[p] = NewVideos(s, S), !.total = KnownTotal(s, NewVideos(s, S), total)]

\* LIMIT -1 OFFSET n, newest first.
Beyond(S, n) == {s \in S : Cardinality({t \in S : t.id > s.id}) >= n}

\* What a new session of owner o leaves of the others.
Retained(o) ==
    LET left == sessions \ Beyond({s \in sessions : s.owner = o}, KeepOwner - 1)
    IN  left \ Beyond(left, KeepAll - 1)

NewSession(o, at) ==
    [id |-> lastId + 1, owner |-> o, source |-> at.source, key |-> at.key, total |-> None, pool |-> None,
     pages |-> [p \in Pages |-> None]]

\* readSession: the session asked for, as long as it is that of the account and source.
Valid(k, ask, at) == {s \in sessions :
    s.id = ask.search /\ s.owner = k.owner /\ s.source = at.source /\ s.key = at.key}

\* After 30 minutes a session counts no more, and the next search deletes it.
Expire(s) ==
    /\ sessions' = sessions \ {s}
    /\ UNCHANGED <<subject, lastId, calls, waiting>>

-----------------------------------------------------------------------------
(* A request of account k, up to its answer or its await                   *)

\* resolveSearchSelection: the source and the login it depends on.  Who wants the local
\* records is not asked for a login; auto is settled on the first page.
Selection(k, ask) ==
    IF ask.choice \in {"local", "bilibili"} THEN [source |-> ask.choice, key |-> None]
    ELSE IF ask.choice = "auto" /\ ask.page > 1 THEN None
    ELSE IF ask.choice = "auto" /\ k.owner = Guest THEN [source |-> "bilibili", key |-> None]
    ELSE IF k.owner = Guest \/ (ask.page > 1 /\ ask.key = None) \/ ask.key \notin {None, k} THEN None
    ELSE [source |-> "kernel", key |-> k]

\* The session of the request, and those that stay beside it.
Session(k, ask) ==
    IF ask.search = None THEN NewSession(k.owner, Selection(k, ask))
    ELSE CHOOSE s \in Valid(k, ask, Selection(k, ask)) : TRUE

Others(k, ask) == IF ask.search = None THEN Retained(k.owner) ELSE sessions \ {Session(k, ask)}

\* The request is not refused: SEARCH_SESSION_CHANGED or SEARCH_SNAPSHOT_EXPIRED.
SearchSession(k, ask) ==
    /\ Selection(k, ask) # None
    /\ IF ask.search = None THEN lastId < MaxSearches /\ lastId' = lastId + 1
       ELSE Valid(k, ask, Selection(k, ask)) # {} /\ lastId' = lastId

Frozen(k, ask) == Session(k, ask).pages[ask.page] # None

Store(k, ask, s) == sessions' = Others(k, ask) \cup {s}

\* A link: only page 1 has its video, if that has a row or may be looked up.
ServeDirect(k, ask) ==
    /\ subject.kind \in {"bv", "douyin"}
    /\ \E S \in SUBSET {subject.video} :
          /\ ask.page > 1 => S = {}
          /\ ask.page = 1 /\ S = {} => Selection(k, ask).source = "local"
          /\ Store(k, ask, Commit(Session(k, ask), ask.page, S, 1))
    /\ UNCHANGED <<subject, calls, waiting>>

FreeIds == {n \in 1 .. MaxRequests : \A w \in waiting : w.id # n}

Await(k, ask, n) ==
    /\ n \in FreeIds /\ \A m \in FreeIds : n <= m
    /\ Store(k, ask, Session(k, ask))
    /\ waiting' = waiting \cup {[id |-> n, search |-> Session(k, ask).id, page |-> ask.page]}

\* A Douyin item that is new, or lacks its cover, is looked up by the kernel.
AskDouyin(k, ask, n) ==
    /\ subject.kind = "douyin" /\ Selection(k, ask).source # "local" /\ ask.page = 1
    /\ Await(k, ask, n)
    /\ UNCHANGED <<subject, calls>>

\* searchLocalCandidates finds rows in an order of their own.
Matches == UNION {SetToSeqs(S) : S \in SUBSET Bvids}

\* Mutant: the matches are looked up for every page.
PoolAgain(s, matches) == SubSeq(matches, 1, Min({PageSize * MaxPages, Len(matches)}))

\* freezeLocalPool: the matches found for the first page asked for, in any order (those
\* of followed creators come first), up to the last page.
Pool(s, matches) ==
    IF s.pool = None THEN SubSeq(matches, 1, Min({PageSize * MaxPages, Len(matches)})) ELSE s.pool

PoolPages(s, matches) == IF s.pool = None THEN (Len(matches) + PageSize - 1) \div PageSize ELSE s.total

OnPage(q, p) == {q[i] : i \in {j \in DOMAIN q : (p - 1) * PageSize < j /\ j <= p * PageSize}}

ServeLocal(k, ask, matches) ==
    LET s == Session(k, ask)
        t == [s EXCEPT !.pool = Pool(s, matches), !.total = PoolPages(s, matches)]
    IN  /\ subject.kind = "words" /\ Selection(k, ask).source = "local"
        /\ Store(k, ask, Commit(t, ask.page, OnPage(t.pool, ask.page), t.total))
        /\ UNCHANGED <<subject, calls, waiting>>

UnderWay(n, p) == \E c \in calls : c.search = n /\ c.page = p

\* One call to the provider for a page; who asks meanwhile waits for the same.
ServeRemote(k, ask, n) ==
    /\ subject.kind = "words" /\ Selection(k, ask).source # "local"
    /\ Await(k, ask, n)
    /\ calls' = IF UnderWay(Session(k, ask).id, ask.page) THEN calls
                ELSE calls \cup {[search |-> Session(k, ask).id, page |-> ask.page, by |-> n]}
    /\ UNCHANGED subject

Waiters(c) == {w \in waiting : w.search = c.search /\ w.page = c.page}

\* What the kernel tells of a page: a count of none is no count beside videos.
KernelPages == {a \in [videos : SUBSET Bvids, total : Totals \cup {None}] : a.total = 0 => a.videos = {}}

\* Bilibili itself is asked for no more than a page.
BilibiliPages == {a \in KernelPages : Cardinality(a.videos) <= PageSize}

\* The answer is cut to a page, and videos told twice or without a number are left out.
Normalized(S) == {T \in SUBSET S : Cardinality(T) <= PageSize}

Record(n, p, S, total) ==
    sessions' = {IF s.id = n THEN Commit(s, p, S, total) ELSE s : s \in sessions}

\* The answer of the provider is recorded, if its session is still there, and given to all
\* who wait.
ProviderAnswers(c, S, total) ==
    /\ Record(c.search, c.page, S, total)
    /\ calls' = calls \ {c} /\ waiting' = waiting \ Waiters(c)
    /\ UNCHANGED <<subject, lastId>>

\* An error, a timeout or the rate limit.
ProviderFails(c) ==
    /\ calls' = calls \ {c} /\ waiting' = waiting \ Waiters(c)
    /\ UNCHANGED <<subject, sessions, lastId>>

\* Each request looks a Douyin link up for itself.
DouyinAnswers(w) ==
    /\ Record(w.search, 1, {subject.video}, 1)
    /\ waiting' = waiting \ {w}
    /\ UNCHANGED <<subject, lastId, calls>>

DouyinFails(w) ==
    /\ waiting' = waiting \ {w}
    /\ UNCHANGED <<subject, sessions, lastId, calls>>

\* The process ends: calls and requests are gone, sessions stay.
Restart ==
    /\ waiting # {}
    /\ calls' = {} /\ waiting' = {}
    /\ UNCHANGED <<subject, sessions, lastId>>

-----------------------------------------------------------------------------

\* A page that is recorded is answered from its record, which changes nothing.
PostHandler(k, ask) ==
    /\ SearchSession(k, ask) /\ ~Frozen(k, ask)
    /\ \/ ServeDirect(k, ask)
       \/ \E matches \in Matches : ServeLocal(k, ask, matches)
       \/ \E n \in 1 .. MaxRequests : AskDouyin(k, ask, n) \/ ServeRemote(k, ask, n)

Provider ==
    \/ \E c \in calls :
          \/ ProviderFails(c)
          \/ \E a \in KernelPages \cup BilibiliPages : \E S \in Normalized(a.videos) : ProviderAnswers(c, S, a.total)
    \/ subject.kind = "douyin" /\ \E w \in waiting : DouyinAnswers(w) \/ DouyinFails(w)

Next ==
    \/ \E k \in Logins, ask \in Attempts : PostHandler(k, ask)
    \/ Provider
    \/ \E s \in sessions : Expire(s)
    \/ Restart

Spec == Init /\ [][Next]_vars

Symmetry == Permutations(Bvids)
-----------------------------------------------------------------------------
(* Properties                                                              *)

\* PAGINATION.md: a video is on one page of a search only, whatever the order in which
\* pages are asked for and answers come; a page under way is asked for once, a recorded
\* one never; and who waits for a page has a call that will answer.
SearchSound ==
    /\ TypeOK
    /\ \A s \in sessions : \A p, q \in Pages :
          p # q /\ None \notin {s.pages[p], s.pages[q]} => s.pages[p] \cap s.pages[q] = {}
    /\ \A c, d \in calls : c.search = d.search /\ c.page = d.page => c = d
    /\ \A c \in calls, s \in sessions : c.search = s.id => s.pages[c.page] = None
    /\ subject.kind = "words" => \A w \in waiting : UnderWay(w.search, w.page)

\* PAGINATION.md: a visited page, the local matches and the number of pages of a search
\* stay as they are for as long as it is kept; it goes only after its 30 minutes, or for
\* a new one while its owner has KeepOwner newer ones, or all together KeepAll.
PagesAreFixed == [][
    \A s \in sessions :
       \/ \E t \in sessions' : /\ t.id = s.id /\ t.owner = s.owner /\ t.source = s.source /\ t.key = s.key
                                /\ \A p \in Pages : s.pages[p] \in {None, t.pages[p]}
                                /\ s.pool \in {None, t.pool} /\ s.total \in {None, t.total}
       \/ sessions' = sessions \ {s}
       \/ /\ Cardinality(sessions') <= KeepAll
          /\ \A o \in Owners : Cardinality({t \in sessions' : t.owner = o}) <= KeepOwner
          /\ \/ Cardinality({t \in sessions' : t.owner = s.owner /\ t.id > s.id}) = KeepOwner
             \/ Cardinality({t \in sessions' : t.id > s.id}) = KeepAll]_vars
=============================================================================
