------------------------------- MODULE Library -------------------------------
(***************************************************************************)
(* What the application keeps for its owners in SQLite: playlists,         *)
(* favourites, followed creators, interactions and playback ranges, over   *)
(* the shared cache of candidates (lib/playlists.ts, db.ts, interactions   *)
(* .ts, playbackRanges.ts, apiIdempotency.ts, accountLibrary.ts).          *)
(*                                                                         *)
(* SQLite calls are synchronous, so a handler is one step and a crash falls*)
(* between two of them.  Any request may come at any time, which stands for*)
(* late, repeated and reordered ones and for clients that hold old ids.    *)
(* The tables meet only in the candidates they refer to, so a behaviour    *)
(* follows one of them, chosen at the start; where videos do not meet, one *)
(* video.                                                                  *)
(***************************************************************************)
EXTENDS Integers, FiniteSets, TLC

CONSTANTS
    Bvids,          \* videos
    Legacy,         \* the owner of a library from before accounts
    Guests,         \* the owner while nobody is logged in, or none
    Accounts,       \* owners named after a Bilibili account
    Keys,           \* idempotency keys
    MaxPlaylists,   \* 100
    MaxItems,       \* 200
    MaxReceipts,    \* 10000
    Times,          \* playback ranges a user sets
    MaxListId, MaxItemId, MaxCandidateId,   \* bounds: ids handed out, for candidates per video
    MaxRevision, MaxEdits,                  \* bounds
    None

ASSUME LibraryAssumption ==
    /\ Legacy \notin Accounts \cup Guests /\ Accounts \cap Guests = {}
    /\ None \notin Accounts \cup Bvids \cup Keys \cup Times
    /\ {MaxPlaylists, MaxItems, MaxReceipts, MaxListId, MaxItemId, MaxEdits} \subseteq Nat
    /\ {MaxCandidateId, MaxRevision} \subseteq Nat \ {0}

Owners == Accounts \cup Guests \cup {Legacy}
Tables == {"playlists", "favorites", "creators", "interactions", "ranges"}
Notes == {"", "text"}
CandidateIds == 1 .. MaxCandidateId
Operations == {"playlist.create", "candidate.interaction"}
WholeTrack == None      \* the range of a video without one

VARIABLES
    focus, videos,  \* the table this behaviour is about, and its videos
    mode,           \* "local": one legacy owner; "account": the owner is who is logged in
    target,         \* the account that received the legacy library
    cand,           \* candidate_videos: per video, its last id and whether the row is there
    schema,         \* the favourites table while it is rebuilt at a start
    favorites, renamed,             \* its rows, and those of the renamed table
    creators,       \* preferred_creators, for one creator
    lists, items,   \* playlists and playlist_items
    lastList, lastItem,             \* their last ids (AUTOINCREMENT)
    interactions,   \* candidate_interactions, counted
    ranges,         \* playback_ranges, for one video
    edits,          \* ranges that clients send, with what they saw
    receipts,       \* api_mutation_receipts that have not expired
    made            \* ghost: objects made by a key since its receipt was last absent

rowVars == <<schema, favorites, renamed, creators>>
listVars == <<lists, items, lastList, lastItem>>
rangeVars == <<ranges, edits>>
receiptVars == <<receipts, made>>
hostVars == <<focus, videos, mode, target>>
vars == <<hostVars, cand, rowVars, listVars, interactions, rangeVars, receiptVars>>

Favorite == [note : Notes, link : CandidateIds \cup {0}]
NoRows == [o \in Owners |-> [b \in Bvids |-> None]]

\* No row is not a row, and no note is not a note.
ASSUME NullAssumption == None \notin Favorite \cup Notes

TypeOK ==
    /\ focus \in Tables /\ videos \subseteq Bvids /\ mode \in {"local", "account"}
    /\ target \in Accounts \cup {None}
    /\ cand \in [Bvids -> [id : CandidateIds \cup {0}, live : BOOLEAN]]
    /\ schema \in {"old", "renamed", "empty", "new"}
    /\ favorites \in [Owners -> [Bvids -> Favorite \cup {None}]]
    /\ renamed \in [Owners -> [Bvids -> Favorite \cup {None}]]
    /\ creators \in [Owners -> Notes \cup {None}]
    /\ lists \subseteq [id : 1 .. lastList, owner : Owners]
    /\ items \subseteq [id : 1 .. lastItem, list : 1 .. lastList, bvid : Bvids, link : CandidateIds \cup {0}, pos : Nat]
    /\ lastList \in 0 .. MaxListId /\ lastItem \in 0 .. MaxItemId
    /\ interactions \in [Owners -> [Bvids -> Nat]]
    /\ ranges \in [Owners -> [time : Times \cup {None}, revision : 0 .. MaxRevision]]
    /\ edits \subseteq [owner : Owners, time : Times \cup {None}, revision : 0 .. MaxRevision, saw : Times \cup {None}]
    /\ receipts \subseteq [owner : Owners, op : Operations, key : Keys, input : Bvids \cup {None}]
    /\ made \in [Owners \X Operations \X Keys -> Nat]

\* An installation from before the stable BV ids, or one whose accounts already hold
\* what an earlier legacy owner left them.
Init ==
    /\ focus \in Tables /\ mode = "local" /\ target = None
    /\ videos \in IF focus \in {"playlists", "favorites"} THEN {Bvids} ELSE {{b} : b \in Bvids}
    /\ cand \in [Bvids -> {[id |-> 0, live |-> FALSE], [id |-> 1, live |-> TRUE]}]
    /\ \A b \in Bvids : cand[b].live => b \in videos
    /\ schema \in IF focus = "favorites" THEN {"old", "new"} ELSE {"new"}
    /\ favorites \in [Owners -> [Bvids -> {None, [note |-> "text", link |-> 1]}]]
    /\ \A o \in Owners, b \in Bvids :
          favorites[o][b] # None => /\ focus = "favorites" /\ cand[b].live
                                    /\ o = Legacy => schema = "old"
    /\ renamed = NoRows
    /\ creators \in [Owners -> {None, ""}]
    /\ \A o \in Owners : creators[o] # None => focus = "creators" /\ o # Legacy
    /\ lists = {} /\ items = {} /\ lastList = 0 /\ lastItem = 0
    /\ interactions = [o \in Owners |-> [b \in Bvids |-> 0]]
    /\ ranges \in [Owners -> {[time |-> WholeTrack, revision |-> 0]} \cup [time : Times, revision : {1}]]
    /\ \A o \in Owners : ranges[o].revision # 0 => focus = "ranges" /\ o # Legacy
    /\ edits = {} /\ receipts = {}
    /\ made = [x \in Owners \X Operations \X Keys |-> 0]

-----------------------------------------------------------------------------
(* Owners                                                                  *)

\* currentAppOwnerId: a request of an account has carried the legacy library over, one
\* of the guest has not.
Acts(o) ==
    /\ schema = "new"
    /\ IF mode = "local" THEN o = Legacy ELSE o \in Guests \/ (o \in Accounts /\ target # None)

\* The installation starts to keep a library per account.
EnableAccounts ==
    /\ mode = "local" /\ schema = "new"
    /\ mode' = "account"
    /\ UNCHANGED <<focus, videos, target, cand, rowVars, listVars, interactions, rangeVars, receiptVars>>

\* Mutant: the record of an earlier migration is not looked for.
MayMigrateAgain == TRUE

MayMigrate == target = None

\* What account a has stays; what it lacks is moved to it, once for the legacy owner.
MigrateLegacyLibrary(a) ==
    /\ mode = "account" /\ MayMigrate
    /\ target' = a
    /\ favorites' = [o \in Owners |-> [b \in Bvids |->
          CASE o = a /\ favorites[a][b] = None -> favorites[Legacy][b]
            [] o = Legacy /\ favorites[a][b] = None -> None
            [] OTHER -> favorites[o][b]]]
    /\ creators' = IF creators[a] = None
                   THEN [creators EXCEPT ![a] = creators[Legacy], ![Legacy] = None] ELSE creators
    /\ lists' = {[l EXCEPT !.owner = IF @ = Legacy THEN a ELSE @] : l \in lists}
    /\ interactions' = [interactions EXCEPT
          ![a] = [b \in Bvids |-> @[b] + interactions[Legacy][b]], ![Legacy] = [b \in Bvids |-> 0]]
    /\ ranges' = IF ranges[a].revision = 0
                 THEN [ranges EXCEPT ![a] = ranges[Legacy],
                                     ![Legacy] = [time |-> WholeTrack, revision |-> 0]] ELSE ranges
    /\ UNCHANGED <<focus, videos, mode, cand, schema, renamed, items, lastList, lastItem, edits, receiptVars>>

-----------------------------------------------------------------------------
(* Candidates                                                              *)

\* A row for video b, by ON CONFLICT(bvid) DO UPDATE.
Upserted(c, b) == IF c[b].live THEN c ELSE [c EXCEPT ![b] = [id |-> c[b].id + 1, live |-> TRUE]]

UpsertCandidateVideo(b) ==
    /\ b \in videos /\ focus \in {"playlists", "favorites", "interactions"}
    /\ ~cand[b].live /\ cand[b].id < MaxCandidateId
    /\ cand' = Upserted(cand, b)
    /\ UNCHANGED <<hostVars, rowVars, listVars, interactions, rangeVars, receiptVars>>

\* Mutant: entries keep their link to a row that is gone.
UnlinkedNot(b) == items

Unlinked(b) == {IF i.bvid = b THEN [i EXCEPT !.link = 0] ELSE i : i \in items}

\* The cache row is removed: SET NULL for favourites and entries, CASCADE for
\* interactions.
CandidateRemoved(b) ==
    /\ focus \in {"playlists", "favorites", "interactions"} /\ schema = "new"
    /\ cand[b].live
    /\ cand' = [cand EXCEPT ![b].live = FALSE]
    /\ favorites' = [o \in Owners |-> IF favorites[o][b] = None THEN favorites[o]
                                      ELSE [favorites[o] EXCEPT ![b].link = 0]]
    /\ items' = Unlinked(b)
    /\ interactions' = [o \in Owners |-> [interactions[o] EXCEPT ![b] = 0]]
    /\ UNCHANGED <<hostVars, schema, renamed, creators, lists, lastList, lastItem, rangeVars, receiptVars>>

-----------------------------------------------------------------------------
(* Favourites                                                              *)

\* A start finds the table of an old version: it is renamed, created anew, and copied,
\* in three separate commits.
RenameOld ==
    /\ schema = "old"
    /\ schema' = "renamed" /\ renamed' = favorites /\ favorites' = NoRows
    /\ UNCHANGED <<hostVars, cand, creators, listVars, interactions, rangeVars, receiptVars>>

CreateFavoriteVideosTable ==
    /\ schema = "renamed"
    /\ schema' = "empty"
    /\ UNCHANGED <<hostVars, cand, favorites, renamed, creators, listVars, interactions, rangeVars, receiptVars>>

\* Mutant: the copy forgets whose the rows are.
CopyOldUnowned ==
    /\ schema = "empty"
    /\ schema' = "new"
    /\ favorites' = [o \in Owners |-> IF o = Legacy THEN renamed[o] ELSE [b \in Bvids |-> None]]
    /\ renamed' = NoRows
    /\ UNCHANGED <<hostVars, cand, creators, listVars, interactions, rangeVars, receiptVars>>

CopyOld ==
    /\ schema = "empty"
    /\ schema' = "new"
    /\ favorites' = [o \in Owners |-> [b \in Bvids |->
          IF cand[b].live /\ renamed[o][b] # None THEN [renamed[o][b] EXCEPT !.link = cand[b].id] ELSE None]]
    /\ renamed' = NoRows
    /\ UNCHANGED <<hostVars, cand, creators, listVars, interactions, rangeVars, receiptVars>>

\* A start after a crash in between finds a table of the new form, and is content.
RestartInBetween ==
    /\ schema \in {"renamed", "empty"}
    /\ schema' = "new"
    /\ UNCHANGED <<hostVars, cand, favorites, renamed, creators, listVars, interactions, rangeVars, receiptVars>>

\* By candidate id; "keep" when the request does not mention the note.
CreateFavoriteVideo(o, b, given) ==
    /\ focus = "favorites" /\ Acts(o)
    /\ cand[b].live
    /\ favorites' = [favorites EXCEPT ![o][b] =
          [note |-> IF given # "keep" THEN given
                    ELSE IF favorites[o][b] # None THEN favorites[o][b].note ELSE "",
           link |-> cand[b].id]]
    /\ UNCHANGED <<hostVars, cand, schema, renamed, creators, listVars, interactions, rangeVars, receiptVars>>

\* By an id of video b the client has seen: the video of a candidate that is there, or
\* the link itself.
DeleteFavoriteVideo(o, b, id) ==
    /\ focus = "favorites" /\ Acts(o)
    /\ favorites[o][b] # None
    /\ cand[b] = [id |-> id, live |-> TRUE] \/ favorites[o][b].link = id
    /\ favorites' = [favorites EXCEPT ![o][b] = None]
    /\ UNCHANGED <<hostVars, cand, schema, renamed, creators, listVars, interactions, rangeVars, receiptVars>>

\* Reading brings candidates back from the snapshots, and links the rows to them.
Hydrate(o, bs) ==
    /\ focus = "favorites" /\ Acts(o)
    /\ bs # {}
    /\ \A b \in bs : favorites[o][b] # None /\ (cand[b].live \/ cand[b].id < MaxCandidateId)
    /\ cand' = [b \in Bvids |-> IF b \in bs THEN Upserted(cand, b)[b] ELSE cand[b]]
    /\ favorites' = [favorites EXCEPT ![o] = [b \in Bvids |->
          IF b \in bs THEN [@[b] EXCEPT !.link = cand'[b].id] ELSE @[b]]]
    /\ UNCHANGED <<hostVars, schema, renamed, creators, listVars, interactions, rangeVars, receiptVars>>

ListFavoriteVideos(o) == Hydrate(o, {b \in Bvids : favorites[o][b] # None})

GetOrHydrateFavoriteCandidateByBvid(o, b) == ~cand[b].live /\ Hydrate(o, {b})

-----------------------------------------------------------------------------
(* Followed creators                                                       *)

\* COALESCE(excluded.notes, notes): a follow without a note, which an empty one is too,
\* keeps the one there is.
CreatePreferredCreator(o, given) ==
    /\ focus = "creators" /\ Acts(o)
    /\ creators' = [creators EXCEPT ![o] = IF given # "keep" THEN given ELSE IF @ # None THEN @ ELSE ""]
    /\ UNCHANGED <<hostVars, cand, schema, favorites, renamed, listVars, interactions, rangeVars, receiptVars>>

UpdatePreferredCreator(o, note) ==
    /\ focus = "creators" /\ Acts(o) /\ creators[o] # None
    /\ creators' = [creators EXCEPT ![o] = note]
    /\ UNCHANGED <<hostVars, cand, schema, favorites, renamed, listVars, interactions, rangeVars, receiptVars>>

DeletePreferredCreator(o) ==
    /\ focus = "creators" /\ Acts(o) /\ creators[o] # None
    /\ creators' = [creators EXCEPT ![o] = None]
    /\ UNCHANGED <<hostVars, cand, schema, favorites, renamed, listVars, interactions, rangeVars, receiptVars>>

-----------------------------------------------------------------------------
(* Playlists                                                               *)

ItemsOf(l) == {i \in items : i.list = l}
ListsOf(o) == {l.id : l \in {m \in lists : m.owner = o}}
Greatest(S) == CHOOSE n \in S \cup {-1} : \A m \in S : m <= n

\* replayMutation: the receipt of the key, or room for another.
Receipts(o, op, k) == {r \in receipts : r.owner = o /\ r.op = op /\ r.key = k}

Replay(o, op, k, input) ==
    IF k = None THEN "none"
    ELSE IF Receipts(o, op, k) # {}
         THEN IF \E r \in Receipts(o, op, k) : r.input = input THEN "replay" ELSE "conflict"
    ELSE IF Cardinality(receipts) >= MaxReceipts THEN "full" ELSE "none"

\* recordMutation, with the count of what the key made.
Recorded(o, op, k, input) ==
    IF k = None THEN UNCHANGED receiptVars
    ELSE /\ receipts' = receipts \cup {[owner |-> o, op |-> op, key |-> k, input |-> input]}
         /\ made' = [made EXCEPT ![<<o, op, k>>] = @ + 1]

\* 24 hours later.
Expire(r) ==
    /\ receipts' = receipts \ {r}
    /\ made' = [made EXCEPT ![<<r.owner, r.op, r.key>>] = 0]
    /\ UNCHANGED <<hostVars, cand, rowVars, listVars, interactions, rangeVars>>

\* Mutant: the limit is looked at before the receipt.
CreateOutcomeLimitFirst(o, k, b) ==
    IF Cardinality(ListsOf(o)) >= MaxPlaylists THEN "limit"
    ELSE IF Replay(o, "playlist.create", k, b) # "none" THEN Replay(o, "playlist.create", k, b)
    ELSE "create"

CreateOutcome(o, k, b) ==
    IF Replay(o, "playlist.create", k, b) # "none" THEN Replay(o, "playlist.create", k, b)
    ELSE IF Cardinality(ListsOf(o)) >= MaxPlaylists THEN "limit"
    ELSE "create"

\* insertItem: a candidate that is there, no video twice, at the end.
NextItem(l, b) ==
    [id |-> lastItem + 1, list |-> l, bvid |-> b, link |-> cand[b].id,
     pos |-> Greatest({i.pos : i \in ItemsOf(l)}) + 1]

InsertItem(l, b) ==
    /\ cand[b].live /\ \A i \in ItemsOf(l) : i.bvid # b
    /\ Cardinality(ItemsOf(l)) < MaxItems
    /\ lastItem < MaxItemId
    /\ lastItem' = lastItem + 1
    /\ items' = items \cup {NextItem(l, b)}

\* The list, its first item and the receipt are one transaction.
CreatePlaylist(o, k, b) ==
    /\ focus = "playlists" /\ Acts(o)
    /\ CreateOutcome(o, k, b) = "create"
    /\ lastList < MaxListId
    /\ lastList' = lastList + 1
    /\ lists' = lists \cup {[id |-> lastList', owner |-> o]}
    /\ IF b = None THEN UNCHANGED <<items, lastItem>> ELSE InsertItem(lastList', b)
    /\ Recorded(o, "playlist.create", k, b)
    /\ UNCHANGED <<hostVars, cand, rowVars, interactions, rangeVars>>

DeletePlaylist(o, l) ==
    /\ Acts(o) /\ l \in ListsOf(o)
    /\ lists' = {m \in lists : m.id # l}
    /\ items' = items \ ItemsOf(l)
    /\ UNCHANGED <<hostVars, cand, rowVars, lastList, lastItem, interactions, rangeVars, receiptVars>>

AddPlaylistItem(o, l, b) ==
    /\ Acts(o) /\ l \in ListsOf(o)
    /\ InsertItem(l, b)
    /\ UNCHANGED <<hostVars, cand, rowVars, lists, lastList, interactions, rangeVars, receiptVars>>

RemovePlaylistItem(o, l, i) ==
    /\ Acts(o) /\ l \in ListsOf(o) /\ i \in ItemsOf(l)
    /\ items' = items \ {i}
    /\ UNCHANGED <<hostVars, cand, rowVars, lists, lastList, lastItem, interactions, rangeVars, receiptVars>>

\* Mutant: an order of an earlier version of the list is accepted.
SameItemsOrFewer(ids, l) == ids \subseteq {i.id : i \in ItemsOf(l)}

SameItems(ids, l) == ids = {i.id : i \in ItemsOf(l)}

\* The order names exactly the items of the list; place is where each goes.
ReorderPlaylist(o, l, ids, place) ==
    /\ Acts(o) /\ l \in ListsOf(o)
    /\ SameItems(ids, l)
    /\ items' = {IF i.list = l /\ i.id \in ids THEN [i EXCEPT !.pos = place[i.id]] ELSE i : i \in items}
    /\ items' # items
    /\ UNCHANGED <<hostVars, cand, rowVars, lists, lastList, lastItem, interactions, rangeVars, receiptVars>>

Orders(ids) == {f \in [ids -> 0 .. Cardinality(ids) - 1] : \A i, j \in ids : i # j => f[i] # f[j]}

\* Opening a list restores candidates from the snapshots and repairs the links.
GetPlaylistDetail(o, l) ==
    /\ Acts(o) /\ l \in ListsOf(o)
    /\ LET bs == {i.bvid : i \in ItemsOf(l)}
       IN  /\ \A b \in bs : cand[b].live \/ cand[b].id < MaxCandidateId
           /\ cand' = [b \in Bvids |-> IF b \in bs THEN Upserted(cand, b)[b] ELSE cand[b]]
    /\ items' = {IF i.list = l THEN [i EXCEPT !.link = cand'[i.bvid].id] ELSE i : i \in items}
    /\ <<cand', items'>> # <<cand, items>>
    /\ UNCHANGED <<hostVars, rowVars, lists, lastList, lastItem, interactions, rangeVars, receiptVars>>

-----------------------------------------------------------------------------
(* Interactions and ranges                                                 *)

RecordInteraction(o, b, k) ==
    /\ focus = "interactions" /\ Acts(o)
    /\ Replay(o, "candidate.interaction", k, b) = "none"
    /\ cand[b].live
    /\ interactions[o][b] < 2                     \* bound
    /\ interactions' = [interactions EXCEPT ![o][b] = @ + 1]
    /\ Recorded(o, "candidate.interaction", k, b)
    /\ UNCHANGED <<hostVars, cand, rowVars, listVars, rangeVars>>

\* A client sends a range for the revision it has seen; the request stays under way,
\* as it may come late and again.
SendRange(o, time) ==
    /\ focus = "ranges" /\ Acts(o)
    /\ Cardinality(edits) < MaxEdits
    /\ edits' = edits \cup {[owner |-> o, time |-> time, revision |-> ranges[o].revision, saw |-> ranges[o].time]}
    /\ UNCHANGED <<hostVars, cand, rowVars, listVars, interactions, ranges, receiptVars>>

EditLost(e) ==
    /\ edits' = edits \ {e}
    /\ UNCHANGED <<hostVars, cand, rowVars, listVars, interactions, ranges, receiptVars>>

\* Mutant: the revision before the current one is taken for a retry, whatever it saves.
AcceptsRetry(e) == e.revision \in {ranges[e.owner].revision, ranges[e.owner].revision - 1}

\* A save for the revision before the current one answers without a write when the
\* same range was saved, and is refused otherwise.
Accepts(e) == e.revision = ranges[e.owner].revision

SavePlaybackRange(e) ==
    /\ Acts(e.owner)
    /\ Accepts(e)
    /\ e.time # ranges[e.owner].time
    /\ ranges[e.owner].revision < MaxRevision
    /\ ranges' = [ranges EXCEPT ![e.owner] = [time |-> e.time, revision |-> @.revision + 1]]
    /\ UNCHANGED <<hostVars, cand, rowVars, listVars, interactions, edits, receiptVars>>

-----------------------------------------------------------------------------

PlaylistsRoute(o) == \E k \in Keys \cup {None}, b \in Bvids \cup {None} : CreatePlaylist(o, k, b)

PlaylistRoute(o) == \E l \in ListsOf(o) : DeletePlaylist(o, l) \/ GetPlaylistDetail(o, l)

PlaylistItemsRoute(o) == \E l \in ListsOf(o) :
    \/ \E b \in Bvids : AddPlaylistItem(o, l, b)
    \/ \E ids \in SUBSET {i.id : i \in ItemsOf(l)} : \E place \in Orders(ids) : ReorderPlaylist(o, l, ids, place)

PlaylistItemRoute(o) == \E l \in ListsOf(o) : \E i \in ItemsOf(l) : RemovePlaylistItem(o, l, i)

FavoritesRoute(o) ==
    \/ ListFavoriteVideos(o)
    \/ \E b \in Bvids, given \in Notes \cup {"keep"} : CreateFavoriteVideo(o, b, given)

FavoriteRoute(o) == \E b \in Bvids, id \in CandidateIds : DeleteFavoriteVideo(o, b, id)

CreatorsRoute(o) == \E given \in {"keep", "text"} : CreatePreferredCreator(o, given)

CreatorRoute(o) == DeletePreferredCreator(o) \/ \E note \in Notes : UpdatePreferredCreator(o, note)

CandidateRoute(o) == \E b \in Bvids, k \in Keys \cup {None} : RecordInteraction(o, b, k)

PlaybackRangeRoute == \E e \in edits : SavePlaybackRange(e)

Requests ==
    \/ \E o \in Owners :
          \/ PlaylistsRoute(o) \/ PlaylistRoute(o) \/ PlaylistItemsRoute(o) \/ PlaylistItemRoute(o)
          \/ FavoritesRoute(o) \/ FavoriteRoute(o) \/ CreatorsRoute(o) \/ CreatorRoute(o) \/ CandidateRoute(o)
          \/ \E b \in Bvids : GetOrHydrateFavoriteCandidateByBvid(o, b)
    \/ PlaybackRangeRoute

Clients ==
    \/ \E o \in Owners, time \in Times \cup {WholeTrack} : SendRange(o, time)
    \/ \E e \in edits : EditLost(e)

Host ==
    \/ RenameOld \/ CreateFavoriteVideosTable \/ CopyOld \/ RestartInBetween
    \/ EnableAccounts
    \/ \E a \in Accounts : MigrateLegacyLibrary(a)
    \/ \E b \in Bvids : UpsertCandidateVideo(b) \/ CandidateRemoved(b)
    \/ \E r \in receipts : Expire(r)

Next == Requests \/ Clients \/ Host

Spec == Init /\ [][Next]_vars

Symmetry == Permutations(Accounts) \cup Permutations(Bvids)

-----------------------------------------------------------------------------
(* Properties                                                              *)

\* A link names the candidate of its own video, and only while that is there; a list
\* holds a video once, its items have an order, and lists and items belong together:
\* through removals of candidates, restores from snapshots and the migration.
LibraryConsistent ==
    /\ TypeOK
    /\ \A o \in Owners, b \in Bvids : favorites[o][b] # None =>
          favorites[o][b].link \in {0} \cup (IF cand[b].live THEN {cand[b].id} ELSE {})
    /\ \A i \in items : /\ i.link \in {0} \cup (IF cand[i.bvid].live THEN {cand[i.bvid].id} ELSE {})
                        /\ i.list \in {l.id : l \in lists}
    /\ \A i, j \in items : i # j /\ i.list = j.list => i.bvid # j.bvid /\ i.pos # j.pos
    /\ \A i, j \in items : i.id = j.id => i = j

\* API_USAGE.md: a request repeated with its key is answered from the receipt.  While
\* that is kept the key makes one object, and the repeated creation of a playlist is
\* answered whatever happened since: a full account, a deleted list, a candidate that is
\* gone.  (A repeated interaction with a candidate that is gone is "not found": its route
\* looks for the candidate first.)
DoneOnce ==
    /\ \A x \in DOMAIN made : made[x] <= 1
    /\ \A r \in receipts : r.op = "playlist.create" => CreateOutcome(r.owner, r.key, r.input) = "replay"

\* The legacy entry is handed to the account that receives the legacy library.
Moved(o, taken) == o = Legacy /\ target = None /\ target' # None /\ taken

\* A favourite is in its table or, while that is rebuilt, in the renamed one.
Kept(o, b) == IF schema \in {"old", "new"} THEN favorites[o][b] ELSE renamed[o][b]

\* A stop within the rebuild leaves the rows in the renamed table, where nothing reads
\* them: UpgradeComplete.
FavoritesKept == \A o \in Owners, b \in Bvids : Kept(o, b) # None =>
    \/ Kept(o, b)' # None /\ Kept(o, b)'.note = Kept(o, b).note
    \/ \E id \in CandidateIds : DeleteFavoriteVideo(o, b, id)
    \/ \E note \in Notes : CreateFavoriteVideo(o, b, note)
    \/ RestartInBetween /\ renamed' = renamed
    \/ Moved(o, favorites'[target'][b] = favorites[o][b])

CreatorsKept == \A o \in Owners : creators[o] \notin {None, creators'[o]} =>
    \/ CreatePreferredCreator(o, "text")
    \/ \E note \in Notes : UpdatePreferredCreator(o, note)
    \/ DeletePreferredCreator(o)
    \/ Moved(o, creators'[target'] = creators[o])

ItemsKept == \A i \in items :
    \/ \E j \in items' : j.id = i.id /\ j.list = i.list
    \/ \E l \in lists : l.id = i.list /\ (RemovePlaylistItem(l.owner, l.id, i) \/ DeletePlaylist(l.owner, l.id))

\* New items are last, and others change places only when a request named them all.
OrderKept == \A i, j \in items' : i.list = j.list /\ i.pos < j.pos =>
    \/ i.id \in {k.id : k \in items} /\ j.id \notin {k.id : k \in items}
    \/ \E k, m \in items : k.id = i.id /\ m.id = j.id /\ k.pos < m.pos
    \/ \E l \in lists : l.id = i.list /\ \E place \in Orders({k.id : k \in ItemsOf(l.id)}) :
          ReorderPlaylist(l.owner, l.id, {k.id : k \in ItemsOf(l.id)}, place)

ListsKept == \A l \in lists :
    \/ l \in lists' \/ DeletePlaylist(l.owner, l.id)
    \/ Moved(l.owner, [l EXCEPT !.owner = target'] \in lists')

\* PLAYLISTS.md, PROJECT_POLISH.md: what an owner keeps, with its note and its order,
\* changes only by a request of that owner; the removal of a cached candidate, a
\* repeated "favourite", each step of the rebuilding of a table and the arrival of accounts
\* keep it, and the legacy library goes to one account, once. A stop in the middle of the
\* rebuilding is left to UpgradeComplete.
LibraryKept == [][FavoritesKept /\ CreatorsKept /\ ItemsKept /\ OrderKept /\ ListsKept]_vars

\* API_USAGE.md: a range is saved only over the one its sender saw, however late and
\* often the request comes, and also after the library has moved to an account.
NoBlindOverwrite ==
    [][\A o \in Owners : ranges'[o].time # ranges[o].time =>
          \/ \E e \in edits : /\ e.owner = o
                              /\ e.saw = ranges[o].time /\ e.time = ranges'[o].time
          \/ target = None /\ target' # None /\ o \in {Legacy, target'}]_vars

\* CHANGELOG.md: favourites come along in the legacy SQLite migration. A start that finds
\* the table in its new form has them all in it, and none in a table nothing reads.
UpgradeComplete == schema = "new" => renamed = NoRows
=============================================================================
