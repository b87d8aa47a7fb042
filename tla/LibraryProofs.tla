----------------------------- MODULE LibraryProofs -----------------------------
(* Theorems about the library, for any videos, accounts, keys and limits.    *)
EXTENDS Library, FiniteSetTheorems, WellFoundedInduction, TLAPS

ownerVars == <<mode, target>>

\* Which handlers touch the ranges, who acts, and the receipts; all others leave them alone.
LEMMA Frames ==
    ASSUME [Next]_vars
    PROVE  /\ \/ UNCHANGED <<rangeVars, ownerVars>>
              \/ \E o \in Owners, time \in Times \cup {WholeTrack} : SendRange(o, time)
              \/ \E e \in edits : EditLost(e) \/ SavePlaybackRange(e)
              \/ EnableAccounts
              \/ \E a \in Accounts : MigrateLegacyLibrary(a)
           /\ \/ UNCHANGED receiptVars
              \/ \E o \in Owners, k \in Keys, b \in Bvids \cup {None} : CreatePlaylist(o, k, b)
              \/ \E o \in Owners, k \in Keys, b \in Bvids : RecordInteraction(o, b, k)
              \/ \E r \in receipts : Expire(r)
<1> USE DEF rangeVars, receiptVars, ownerVars, hostVars
<1>1. ASSUME NEW o \in Owners, PlaylistsRoute(o)
      PROVE  /\ UNCHANGED <<rangeVars, ownerVars>>
             /\ \/ UNCHANGED receiptVars
                \/ \E k \in Keys, b \in Bvids \cup {None} : CreatePlaylist(o, k, b)
  BY <1>1 DEF PlaylistsRoute, CreatePlaylist, Recorded
<1>2. ASSUME NEW o \in Owners, CandidateRoute(o)
      PROVE  /\ UNCHANGED <<rangeVars, ownerVars>>
             /\ \/ UNCHANGED receiptVars
                \/ \E k \in Keys, b \in Bvids : RecordInteraction(o, b, k)
  BY <1>2 DEF CandidateRoute, RecordInteraction, Recorded
<1>3. ASSUME NEW o \in Owners, PlaylistRoute(o) \/ PlaylistItemsRoute(o) \/ PlaylistItemRoute(o)
      PROVE  UNCHANGED <<rangeVars, ownerVars, receiptVars>>
  BY <1>3 DEF PlaylistRoute, PlaylistItemsRoute, PlaylistItemRoute, DeletePlaylist, GetPlaylistDetail,
     AddPlaylistItem, ReorderPlaylist, RemovePlaylistItem
<1>4. ASSUME NEW o \in Owners,
             \/ FavoritesRoute(o) \/ FavoriteRoute(o) \/ CreatorsRoute(o) \/ CreatorRoute(o)
             \/ \E b \in Bvids : GetOrHydrateFavoriteCandidateByBvid(o, b)
      PROVE  UNCHANGED <<rangeVars, ownerVars, receiptVars>>
  BY <1>4 DEF FavoritesRoute, FavoriteRoute, CreatorsRoute, CreatorRoute, ListFavoriteVideos,
     GetOrHydrateFavoriteCandidateByBvid, Hydrate, CreateFavoriteVideo, DeleteFavoriteVideo,
     CreatePreferredCreator, UpdatePreferredCreator, DeletePreferredCreator
<1>5. CASE PlaybackRangeRoute
  BY <1>5 DEF PlaybackRangeRoute, SavePlaybackRange
<1>6. CASE Clients
  BY <1>6 DEF Clients, SendRange, EditLost
<1>7. ASSUME RenameOld \/ CreateFavoriteVideosTable \/ CopyOld \/ RestartInBetween
      PROVE  UNCHANGED <<rangeVars, ownerVars, receiptVars>>
  BY <1>7 DEF RenameOld, CreateFavoriteVideosTable, CopyOld, RestartInBetween
<1>8. ASSUME NEW b \in Bvids, UpsertCandidateVideo(b) \/ CandidateRemoved(b)
      PROVE  UNCHANGED <<rangeVars, ownerVars, receiptVars>>
  BY <1>8 DEF UpsertCandidateVideo, CandidateRemoved
<1>9. ASSUME EnableAccounts \/ \E a \in Accounts : MigrateLegacyLibrary(a)
      PROVE  UNCHANGED receiptVars
  BY <1>9 DEF EnableAccounts, MigrateLegacyLibrary
<1>10. ASSUME NEW r \in receipts, Expire(r) PROVE UNCHANGED <<rangeVars, ownerVars>>
  BY <1>10 DEF Expire
<1>11. CASE UNCHANGED vars
  BY <1>11 DEF vars
<1> QED
  BY <1>1, <1>2, <1>3, <1>4, <1>5, <1>6, <1>7, <1>8, <1>9, <1>10, <1>11 DEF Next, Requests, Host

-----------------------------------------------------------------------------
(* Playback ranges                                                         *)

RangesTyped ==
    /\ ranges \in [Owners -> [time : Times \cup {None}, revision : Nat]]
    /\ edits \subseteq [owner : Owners, time : Times \cup {None}, revision : Nat, saw : Times \cup {None}]
    /\ mode \in {"local", "account"} /\ target \in Accounts \cup {None}

\* One legacy owner first, then the guest and accounts, of which no account acts before the
\* legacy library has been carried over.
OwnersInTurn ==
    /\ mode = "local" => target = None
    /\ target = None => \A e \in edits : e.owner \notin Accounts

\* A revision that a client may still write over has the range it saw.
RevisionsTell ==
    \A e \in edits : e.owner # Legacy \/ target = None =>
        /\ e.revision <= ranges[e.owner].revision
        /\ e.revision = ranges[e.owner].revision => e.saw = ranges[e.owner].time

RangeInv == RangesTyped /\ OwnersInTurn /\ RevisionsTell

\* What may change the range of an owner.
Overwrites ==
    \A o \in Owners : ranges'[o].time # ranges[o].time =>
        \/ \E e \in edits : e.owner = o /\ e.saw = ranges[o].time /\ e.time = ranges'[o].time
        \/ target = None /\ target' # None /\ o \in {Legacy, target'}

\* Each handler that writes a range or sends one keeps revisions telling.
LEMMA RangeStep ==
    ASSUME RangeInv, [Next]_vars
    PROVE  RangeInv' /\ Overwrites
<1> USE LibraryAssumption DEF RangeInv, RangesTyped, OwnersInTurn, RevisionsTell, Overwrites, Owners,
        rangeVars, ownerVars, hostVars, Acts, WholeTrack
<1>1. CASE UNCHANGED <<rangeVars, ownerVars>>
  BY <1>1
<1>2. ASSUME NEW o \in Owners, NEW time \in Times \cup {WholeTrack}, SendRange(o, time)
      PROVE  RangeInv' /\ Overwrites
  <2> DEFINE new == [owner |-> o, time |-> time, revision |-> ranges[o].revision, saw |-> ranges[o].time]
  <2>1. edits' = edits \cup {new} /\ UNCHANGED <<ranges, ownerVars>> /\ Acts(o)
    BY <1>2 DEF SendRange
  <2>2. new \in [owner : Owners, time : Times \cup {None}, revision : Nat, saw : Times \cup {None}]
    OBVIOUS
  <2> QED
    BY <2>1, <2>2
<1>3. ASSUME NEW e \in edits, EditLost(e) PROVE RangeInv' /\ Overwrites
  BY <1>3 DEF EditLost
<1>4. ASSUME NEW e \in edits, SavePlaybackRange(e) PROVE RangeInv' /\ Overwrites
  <2>1. /\ UNCHANGED <<edits, ownerVars>> /\ Acts(e.owner) /\ e.revision = ranges[e.owner].revision
        /\ ranges' = [ranges EXCEPT ![e.owner] = [time |-> e.time, revision |-> ranges[e.owner].revision + 1]]
    BY <1>4 DEF SavePlaybackRange, Accepts
  <2>2. e.saw = ranges[e.owner].time
    BY <2>1
  <2>3. RangesTyped'
    BY <2>1
  <2>4. OwnersInTurn'
    BY <2>1
  <2>5. RevisionsTell'
    BY <2>1
  <2>6. Overwrites
    BY <2>1, <2>2
  <2> QED
    BY <2>3, <2>4, <2>5, <2>6
<1>5. CASE EnableAccounts
  BY <1>5 DEF EnableAccounts
<1>6. ASSUME NEW a \in Accounts, MigrateLegacyLibrary(a) PROVE RangeInv' /\ Overwrites
  <2>1. /\ mode = "account" /\ target = None /\ target' = a /\ UNCHANGED <<mode, edits>>
        /\ ranges' = IF ranges[a].revision = 0
                     THEN [ranges EXCEPT ![a] = ranges[Legacy],
                                         ![Legacy] = [time |-> WholeTrack, revision |-> 0]] ELSE ranges
    BY <1>6 DEF MigrateLegacyLibrary, MayMigrate
  <2>2. RangesTyped'
    BY <2>1
  <2>3. ASSUME NEW o \in Owners, o \notin {Legacy, a} PROVE ranges'[o] = ranges[o]
    BY <2>1, <2>3
  <2>4. target' # None /\ \A e \in edits' : e.owner \in Owners /\ e.owner \notin Accounts
    BY <2>1
  <2>5. Overwrites
    BY <2>1, <2>3, <2>4
  <2>6. OwnersInTurn' /\ RevisionsTell'
    BY <2>1, <2>4
  <2> QED
    BY <2>2, <2>5, <2>6
<1> QED
  BY <1>1, <1>2, <1>3, <1>4, <1>5, <1>6, Frames

\* Revisions and the turn of the owners explain every range that a client may overwrite.
THEOREM Invariant == Spec => []RangeInv
<1>1. ASSUME Init PROVE RangeInv
  <2> DEFINE Start == {[time |-> WholeTrack, revision |-> 0]} \cup [time : Times, revision : {1}]
             RangeRow == [time : Times \cup {None}, revision : Nat]
  <2>1. Start \subseteq RangeRow
    BY DEF WholeTrack
  <2>2. ranges \in [Owners -> Start]
    BY <1>1 DEF Init
  <2> HIDE DEF Start
  <2>3. ranges \in [Owners -> RangeRow]
    BY <2>1, <2>2
  <2> QED
    BY <1>1, <2>3 DEF Init, RangeInv, RangesTyped, OwnersInTurn, RevisionsTell
<1>2. RangeInv /\ [Next]_vars => RangeInv'
  BY RangeStep
<1> QED
  BY <1>1, <1>2, PTL DEF Spec

\* A range is saved only over the one its sender saw, whatever requests come late or again
\* and when the library moves to an account.
THEOREM RangesAreNotOverwrittenBlindly == Spec => NoBlindOverwrite
<1>1. RangeInv /\ [Next]_vars => [Overwrites]_vars
  BY RangeStep
<1>2. Overwrites <=> \A o \in Owners : ranges'[o].time # ranges[o].time =>
          \/ \E e \in edits : /\ e.owner = o
                              /\ e.saw = ranges[o].time /\ e.time = ranges'[o].time
          \/ target = None /\ target' # None /\ o \in {Legacy, target'}
  BY DEF Overwrites
<1> QED
  BY <1>1, <1>2, Invariant, PTL DEF Spec, NoBlindOverwrite

-----------------------------------------------------------------------------
(* Receipts                                                                *)

Made == Owners \X Operations \X Keys
KeyOf(r) == <<r.owner, r.op, r.key>>

\* The receipt of whatever a key made is there, with what was asked.
ReceiptsTell ==
    /\ receipts \subseteq [owner : Owners, op : Operations, key : Keys, input : Bvids \cup {None}]
    /\ made \in [Made -> Nat]
    /\ \A x \in Made : made[x] = 0 \/ (made[x] = 1 /\ \E r \in receipts : KeyOf(r) = x)

\* An object is made for a key only when there is no receipt of it.
LEMMA RecordStep ==
    ASSUME ReceiptsTell, NEW o \in Owners, NEW op \in Operations, NEW k \in Keys,
           NEW input \in Bvids \cup {None},
           Replay(o, op, k, input) = "none", Recorded(o, op, k, input)
    PROVE  ReceiptsTell'
<1> DEFINE new == [owner |-> o, op |-> op, key |-> k, input |-> input]
           own == <<o, op, k>>
<1>1. k # None
  BY LibraryAssumption
<1>2. Receipts(o, op, k) = {}
  <2>1. ASSUME Receipts(o, op, k) # {} PROVE Replay(o, op, k, input) \in {"replay", "conflict"}
    BY <1>1, <2>1 DEF Replay
  <2> QED
    BY <2>1
<1>3. receipts' = receipts \cup {new} /\ made' = [made EXCEPT ![own] = @ + 1]
  BY <1>1 DEF Recorded
<1>4. own \in Made
  BY DEF Made
<1>5. ASSUME NEW r \in receipts PROVE KeyOf(r) # own
  BY <1>2 DEF Receipts, KeyOf
<1>6. KeyOf(new) = own
  BY DEF KeyOf
<1>7. new \in [owner : Owners, op : Operations, key : Keys, input : Bvids \cup {None}]
  OBVIOUS
<1> HIDE DEF new, own
<1>8. made[own] = 0
  BY <1>4, <1>5 DEF ReceiptsTell
<1> QED
  BY <1>3, <1>4, <1>6, <1>7, <1>8 DEF ReceiptsTell

\* Requests record what they make, and a receipt goes with the count of its key.
LEMMA ReceiptStep ==
    ASSUME ReceiptsTell, [Next]_vars
    PROVE  ReceiptsTell'
<1>1. CASE UNCHANGED receiptVars
  BY <1>1 DEF receiptVars, ReceiptsTell, KeyOf
<1>2. ASSUME NEW o \in Owners, NEW k \in Keys, NEW b \in Bvids \cup {None}, CreatePlaylist(o, k, b)
      PROVE  ReceiptsTell'
  <2>1. Replay(o, "playlist.create", k, b) # "create"
    BY DEF Replay
  <2>2. Replay(o, "playlist.create", k, b) = "none"
    BY <1>2, <2>1 DEF CreatePlaylist, CreateOutcome
  <2> QED
    BY <1>2, <2>2, RecordStep DEF CreatePlaylist, Operations
<1>3. ASSUME NEW o \in Owners, NEW k \in Keys, NEW b \in Bvids, RecordInteraction(o, b, k)
      PROVE  ReceiptsTell'
  BY <1>3, RecordStep DEF RecordInteraction, Operations
<1>4. ASSUME NEW r \in receipts, Expire(r) PROVE ReceiptsTell'
  <2>1. receipts' = receipts \ {r} /\ made' = [made EXCEPT ![KeyOf(r)] = 0]
    BY <1>4 DEF Expire, KeyOf
  <2>2. KeyOf(r) \in Made
    BY DEF ReceiptsTell, KeyOf, Made
  <2> QED
    BY <2>1, <2>2 DEF ReceiptsTell
<1> QED
  BY <1>1, <1>2, <1>3, <1>4, Frames

\* Receipts tell what keys made, always.
LEMMA ReceiptsAreKept == Spec => []ReceiptsTell
<1>1. ASSUME Init PROVE ReceiptsTell
  <2>1. receipts = {} /\ made = [x \in Made |-> 0]
    BY <1>1 DEF Init, Made
  <2> QED
    BY <2>1 DEF ReceiptsTell
<1>2. ReceiptsTell /\ [Next]_vars => ReceiptsTell'
  BY ReceiptStep
<1> QED
  BY <1>1, <1>2, PTL DEF Spec

\* A key makes one object while its receipt is kept, and a repeated creation is answered
\* from the receipt whatever else the account has reached since.
THEOREM KeysMakeOneObject == Spec => []DoneOnce
<1>1. ASSUME ReceiptsTell PROVE DoneOnce
  <2>1. ASSUME NEW x \in DOMAIN made PROVE made[x] <= 1
    BY <1>1 DEF ReceiptsTell
  <2>2. ASSUME NEW r \in receipts, r.op = "playlist.create"
        PROVE  CreateOutcome(r.owner, r.key, r.input) = "replay"
    <3>1. r.key # None
      BY <1>1, LibraryAssumption DEF ReceiptsTell
    <3>2. r \in Receipts(r.owner, "playlist.create", r.key)
      BY <2>2 DEF Receipts
    <3>3. Replay(r.owner, "playlist.create", r.key, r.input) = "replay"
      BY <3>1, <3>2 DEF Replay
    <3> QED
      BY <3>3 DEF CreateOutcome
  <2> QED
    BY <2>1, <2>2 DEF DoneOnce
<1> QED
  BY <1>1, ReceiptsAreKept, PTL

-----------------------------------------------------------------------------
(* Candidates and favourites                                               *)

favoriteVars == <<cand, schema, favorites, renamed, mode, target>>
CandidateRow == [id : CandidateIds \cup {0}, live : BOOLEAN]
Linked(link, b) == link = 0 \/ (cand[b].live /\ link = cand[b].id)

\* The tables of candidates and favourites, in whatever state the rebuilding left them.
\* Before the copy the new table has no rows, which is why the copy removes none.
FavoriteRows ==
    /\ cand \in [Bvids -> CandidateRow]
    /\ schema \in {"old", "renamed", "empty", "new"}
    /\ favorites \in [Owners -> [Bvids -> Favorite \cup {None}]]
    /\ renamed \in [Owners -> [Bvids -> Favorite \cup {None}]]
    /\ schema \in {"renamed", "empty"} => favorites = NoRows

FavoriteLinks ==
    \A o \in Owners, b \in Bvids : favorites[o][b] # None => Linked(favorites[o][b].link, b)

\* Until the table has its new form there are no accounts, and every favourite has its
\* candidate, which is why the copy, a join with the candidates, loses none.
CopySource ==
    /\ schema # "new" => mode = "local"
    /\ \A o \in Owners, b \in Bvids : schema # "new" /\ Kept(o, b) # None => cand[b].live

FavoriteInv == FavoriteRows /\ FavoriteLinks /\ CopySource

\* In the new form the favourites are those of the table, before and after.
TableTells ==
    /\ CopySource'
    /\ \A o \in Owners, b \in Bvids : Kept(o, b) = favorites[o][b] /\ Kept(o, b)' = favorites'[o][b]

\* A candidate that is there stays as it is.
CandidatesKept == \A b \in Bvids : cand[b].live => cand'[b] = cand[b]

\* Restores keep the candidates that are there, and bring back those they name.
LEMMA Restored ==
    ASSUME cand \in [Bvids -> CandidateRow], NEW bs \in SUBSET Bvids,
           \A b \in bs : cand[b].live \/ cand[b].id < MaxCandidateId,
           cand' = [b \in Bvids |-> IF b \in bs THEN Upserted(cand, b)[b] ELSE cand[b]]
    PROVE  /\ cand' \in [Bvids -> CandidateRow]
           /\ CandidatesKept
           /\ \A b \in bs : cand'[b].live
<1>0. MaxCandidateId \in Nat
  BY LibraryAssumption
<1>1. ASSUME NEW b \in bs, cand[b].live PROVE Upserted(cand, b)[b] = cand[b]
  BY <1>1 DEF Upserted
<1>2. ASSUME NEW b \in bs, ~cand[b].live
      PROVE  Upserted(cand, b)[b] = [id |-> cand[b].id + 1, live |-> TRUE]
  BY <1>2 DEF Upserted
<1>3. ASSUME NEW b \in Bvids PROVE cand[b] \in CandidateRow
  OBVIOUS
<1>4. ASSUME NEW b \in bs, ~cand[b].live PROVE cand[b].id + 1 \in CandidateIds
  BY <1>0, <1>3, <1>4 DEF CandidateRow, CandidateIds
<1>5. ASSUME NEW b \in bs PROVE cand'[b] \in CandidateRow
  <2>1. CASE cand[b].live
    BY <1>1, <1>3, <2>1
  <2>2. CASE ~cand[b].live
    <3>1. cand'[b] = [id |-> cand[b].id + 1, live |-> TRUE]
      BY <1>2, <2>2
    <3>2. ASSUME NEW n \in CandidateIds PROVE [id |-> n, live |-> TRUE] \in CandidateRow
      BY DEF CandidateRow
    <3> QED
      BY <1>4, <2>2, <3>1, <3>2, Zenon
  <2> QED
    BY <2>1, <2>2
<1>6. cand' \in [Bvids -> CandidateRow]
  BY <1>3, <1>5
<1>7. CandidatesKept
  BY <1>1 DEF CandidatesKept
<1>8. ASSUME NEW b \in bs PROVE cand'[b].live
  <2>1. CASE cand[b].live
    BY <1>1, <2>1
  <2>2. CASE ~cand[b].live
    <3>1. cand'[b] = [id |-> cand[b].id + 1, live |-> TRUE]
      BY <1>2, <2>2
    <3> QED
      BY <3>1
  <2> QED
    BY <2>1, <2>2
<1> QED
  BY <1>6, <1>7, <1>8

\* Which handlers touch candidates and favourites.
LEMMA FavoriteFrame ==
    ASSUME [Next]_vars
    PROVE  \/ UNCHANGED favoriteVars
           \/ RenameOld \/ CreateFavoriteVideosTable \/ CopyOld \/ RestartInBetween
           \/ EnableAccounts
           \/ \E a \in Accounts : MigrateLegacyLibrary(a)
           \/ \E b \in Bvids : UpsertCandidateVideo(b) \/ CandidateRemoved(b)
           \/ \E o \in Owners, l \in lists : GetPlaylistDetail(o, l.id)
           \/ \E o \in Owners, bs \in SUBSET Bvids : Hydrate(o, bs)
           \/ \E o \in Owners, b \in Bvids, given \in Notes \cup {"keep"} : CreateFavoriteVideo(o, b, given)
           \/ \E o \in Owners, b \in Bvids, id \in CandidateIds : DeleteFavoriteVideo(o, b, id)
<1> USE DEF favoriteVars, hostVars, rowVars
<1>1. ASSUME NEW o \in Owners,
             PlaylistsRoute(o) \/ PlaylistItemsRoute(o) \/ PlaylistItemRoute(o) \/ CandidateRoute(o)
      PROVE  UNCHANGED favoriteVars
  BY <1>1 DEF PlaylistsRoute, PlaylistItemsRoute, PlaylistItemRoute, CandidateRoute, CreatePlaylist,
     AddPlaylistItem, ReorderPlaylist, RemovePlaylistItem, RecordInteraction
<1>2. ASSUME NEW o \in Owners, PlaylistRoute(o)
      PROVE  UNCHANGED favoriteVars \/ \E l \in lists : GetPlaylistDetail(o, l.id)
  <2>1. PICK l \in ListsOf(o) : DeletePlaylist(o, l) \/ GetPlaylistDetail(o, l)
    BY <1>2 DEF PlaylistRoute
  <2>2. \E m \in lists : l = m.id
    BY DEF ListsOf
  <2> QED
    BY <2>1, <2>2 DEF DeletePlaylist
<1>3. ASSUME NEW o \in Owners, CreatorsRoute(o) \/ CreatorRoute(o)
      PROVE  UNCHANGED favoriteVars
  BY <1>3 DEF CreatorsRoute, CreatorRoute, CreatePreferredCreator, UpdatePreferredCreator, DeletePreferredCreator
<1>4. ASSUME NEW o \in Owners,
             FavoritesRoute(o) \/ \E b \in Bvids : GetOrHydrateFavoriteCandidateByBvid(o, b)
      PROVE  \/ \E bs \in SUBSET Bvids : Hydrate(o, bs)
             \/ \E b \in Bvids, given \in Notes \cup {"keep"} : CreateFavoriteVideo(o, b, given)
  <2>1. \A b \in Bvids : {b} \in SUBSET Bvids
    OBVIOUS
  <2>2. {b \in Bvids : favorites[o][b] # None} \in SUBSET Bvids
    OBVIOUS
  <2> QED
    BY <1>4, <2>1, <2>2, Zenon DEF FavoritesRoute, GetOrHydrateFavoriteCandidateByBvid, ListFavoriteVideos
<1>5. ASSUME NEW o \in Owners, FavoriteRoute(o)
      PROVE  \E b \in Bvids, id \in CandidateIds : DeleteFavoriteVideo(o, b, id)
  BY <1>5, Zenon DEF FavoriteRoute
<1>6. ASSUME PlaybackRangeRoute \/ Clients PROVE UNCHANGED favoriteVars
  BY <1>6 DEF PlaybackRangeRoute, SavePlaybackRange, Clients, SendRange, EditLost
<1>7. ASSUME NEW r \in receipts, Expire(r) PROVE UNCHANGED favoriteVars
  BY <1>7 DEF Expire
<1>8. CASE UNCHANGED vars
  BY <1>8 DEF vars
<1> QED
  BY <1>1, <1>2, <1>3, <1>4, <1>5, <1>6, <1>7, <1>8, Zenon DEF Next, Requests, Host

\* A link survives whatever keeps the candidates that are there.
LEMMA LinkSurvives ==
    ASSUME CandidatesKept, NEW b \in Bvids, NEW link, Linked(link, b)
    PROVE  link = 0 \/ (cand'[b].live /\ link = cand'[b].id)
BY DEF CandidatesKept, Linked

\* Each handler keeps the links to candidates, and the favourites with their notes.
LEMMA FavoriteStep ==
    ASSUME FavoriteInv, [Next]_vars
    PROVE  FavoriteInv' /\ FavoritesKept
<1> USE DEF FavoriteInv
<1>1. \A o \in Owners, b \in Bvids :
         /\ favorites[o][b] # None => favorites[o][b] \in Favorite
         /\ renamed[o][b] # None => renamed[o][b] \in Favorite
  BY DEF FavoriteRows
<1>0. ASSUME schema = "new", schema' = "new" PROVE TableTells
  BY <1>0 DEF TableTells, CopySource, Kept
<1>2. CASE UNCHANGED favoriteVars
  <2>1. \A o \in Owners, b \in Bvids : Kept(o, b)' = Kept(o, b)
    BY <1>2 DEF favoriteVars, Kept
  <2>2. FavoriteRows' /\ FavoriteLinks'
    BY <1>2 DEF favoriteVars, FavoriteRows, FavoriteLinks, Linked
  <2> QED
    BY <1>2, <2>1, <2>2 DEF favoriteVars, CopySource, FavoritesKept
<1>3. CASE RenameOld
  <2>1. schema = "old" /\ schema' = "renamed" /\ renamed' = favorites /\ UNCHANGED <<cand, mode>>
    BY <1>3 DEF RenameOld, hostVars
  <2>2. \A o \in Owners, b \in Bvids : Kept(o, b)' = Kept(o, b)
    BY <2>1 DEF Kept
  <2>3. FavoriteRows' /\ FavoriteLinks'
    BY <1>3 DEF RenameOld, FavoriteRows, FavoriteLinks, NoRows
  <2> QED
    BY <2>1, <2>2, <2>3 DEF CopySource, FavoritesKept
<1>4. CASE CreateFavoriteVideosTable
  <2>1. schema = "renamed" /\ schema' = "empty" /\ UNCHANGED <<cand, mode, renamed>>
    BY <1>4 DEF CreateFavoriteVideosTable, hostVars
  <2>2. \A o \in Owners, b \in Bvids : Kept(o, b)' = Kept(o, b)
    BY <2>1 DEF Kept
  <2>3. FavoriteRows' /\ FavoriteLinks'
    BY <1>4 DEF CreateFavoriteVideosTable, FavoriteRows, FavoriteLinks, Linked
  <2> QED
    BY <2>1, <2>2, <2>3 DEF CopySource, FavoritesKept
<1>14. CASE RestartInBetween
  <2>1. schema' = "new" /\ renamed' = renamed
    BY <1>14 DEF RestartInBetween
  <2>2. FavoriteRows' /\ FavoriteLinks'
    BY <1>14 DEF RestartInBetween, FavoriteRows, FavoriteLinks, Linked
  <2> QED
    BY <1>14, <2>1, <2>2 DEF CopySource, FavoritesKept
<1>15. CASE EnableAccounts
  <2>1. schema = "new" /\ UNCHANGED <<cand, schema, favorites, renamed>>
    BY <1>15 DEF EnableAccounts, rowVars
  <2>2. TableTells
    BY <1>0, <2>1
  <2>3. FavoriteRows' /\ FavoriteLinks'
    BY <2>1 DEF FavoriteRows, FavoriteLinks, Linked
  <2> QED
    BY <2>1, <2>2, <2>3 DEF TableTells, FavoritesKept
<1>5. CASE CopyOld
  <2>1. schema = "empty" /\ schema' = "new" /\ cand' = cand /\ renamed' = NoRows
    BY <1>5 DEF CopyOld
  <2>2. favorites' = [o \in Owners |-> [b \in Bvids |->
          IF cand[b].live /\ renamed[o][b] # None THEN [renamed[o][b] EXCEPT !.link = cand[b].id] ELSE None]]
    BY <1>5 DEF CopyOld
  <2>3. ASSUME NEW o \in Owners, NEW b \in Bvids, favorites'[o][b] # None
        PROVE  /\ favorites'[o][b] \in Favorite
               /\ cand[b].live /\ favorites'[o][b].link = cand[b].id
    <3>1. cand[b].live /\ renamed[o][b] # None
      BY <2>2, <2>3
    <3>2. favorites'[o][b] = [renamed[o][b] EXCEPT !.link = cand[b].id]
      BY <2>2, <3>1
    <3>3. renamed[o][b] \in Favorite /\ cand[b].id \in CandidateIds \cup {0}
      BY <1>1, <3>1 DEF FavoriteRows, CandidateRow
    <3> QED
      BY <3>1, <3>2, <3>3 DEF Favorite
  <2>4. FavoriteRows'
    BY <2>1, <2>2, <2>3 DEF FavoriteRows, NoRows
  <2>5. FavoriteLinks'
    BY <2>1, <2>3 DEF FavoriteLinks, Linked
  <2>6. ASSUME NEW o \in Owners, NEW b \in Bvids, Kept(o, b) # None
        PROVE  Kept(o, b)' # None /\ Kept(o, b)'.note = Kept(o, b).note
    <3>1. Kept(o, b) = renamed[o][b] /\ Kept(o, b)' = favorites'[o][b]
      BY <2>1 DEF Kept
    <3>2. cand[b].live /\ renamed[o][b] # None
      BY <2>1, <2>6, <3>1 DEF CopySource
    <3>3. favorites'[o][b] = [renamed[o][b] EXCEPT !.link = cand[b].id]
      BY <2>2, <3>2
    <3>4. renamed[o][b] \in Favorite /\ cand[b].id \in CandidateIds \cup {0}
      BY <1>1, <3>2 DEF FavoriteRows, CandidateRow
    <3>5. favorites'[o][b] \in Favorite /\ favorites'[o][b].note = renamed[o][b].note
      BY <3>3, <3>4 DEF Favorite
    <3> QED
      BY <3>1, <3>5, NullAssumption
  <2>7. CopySource' /\ FavoritesKept
    BY <2>1, <2>6 DEF CopySource, FavoritesKept
  <2> QED
    BY <2>4, <2>5, <2>7
<1>6. ASSUME NEW a \in Accounts, MigrateLegacyLibrary(a) PROVE FavoriteInv' /\ FavoritesKept
  <2>1. /\ target = None /\ target' = a /\ UNCHANGED <<cand, schema, renamed, mode>>
        /\ mode = "account"
    BY <1>6 DEF MigrateLegacyLibrary, MayMigrate
  <2>9. schema = "new" /\ TableTells
    BY <1>0, <2>1 DEF CopySource
  <2>2. favorites' = [o \in Owners |-> [b \in Bvids |->
          CASE o = a /\ favorites[a][b] = None -> favorites[Legacy][b]
            [] o = Legacy /\ favorites[a][b] = None -> None
            [] OTHER -> favorites[o][b]]]
    BY <1>6 DEF MigrateLegacyLibrary
  <2>3. a # Legacy /\ a # None /\ a \in Owners /\ Legacy \in Owners
    BY LibraryAssumption DEF Owners
  <2>4. ASSUME NEW o \in Owners, NEW b \in Bvids
        PROVE  favorites'[o][b] \in {None, favorites[o][b], favorites[Legacy][b]}
    BY <2>2
  <2>5. FavoriteRows'
    <3>1. favorites' \in [Owners -> [Bvids -> Favorite \cup {None}]]
      BY <2>2, <2>3 DEF FavoriteRows
    <3>2. favorites = NoRows => favorites' = NoRows
      BY <2>2, <2>3 DEF NoRows
    <3> QED
      BY <2>1, <3>1, <3>2 DEF FavoriteRows, NoRows
  <2>6. FavoriteLinks'
    BY <2>1, <2>3, <2>4 DEF FavoriteLinks, Linked
  <2>7. ASSUME NEW o \in Owners, NEW b \in Bvids, favorites[o][b] # None, favorites'[o][b] # favorites[o][b]
        PROVE  Moved(o, favorites'[target'][b] = favorites[o][b])
    <3>1. o = Legacy /\ favorites[a][b] = None
      BY <2>2, <2>7
    <3>2. favorites'[a][b] = favorites[Legacy][b]
      BY <2>2, <2>3, <3>1
    <3> QED
      BY <2>1, <2>3, <3>1, <3>2 DEF Moved
  <2>8. FavoritesKept
    BY <2>7, <2>9 DEF TableTells, FavoritesKept
  <2> QED
    BY <2>5, <2>6, <2>8, <2>9 DEF TableTells
<1>7. ASSUME UNCHANGED <<schema, favorites, renamed, mode>>, cand' \in [Bvids -> CandidateRow], CandidatesKept
      PROVE  FavoriteInv' /\ FavoritesKept
  <2>1. FavoriteRows'
    BY <1>7 DEF FavoriteRows, NoRows
  <2>2. FavoriteLinks'
    BY <1>7, LinkSurvives DEF FavoriteLinks, Linked
  <2>3. \A o \in Owners, b \in Bvids : Kept(o, b)' = Kept(o, b)
    BY <1>7 DEF Kept
  <2>4. CopySource' /\ FavoritesKept
    BY <1>7, <2>3 DEF CopySource, CandidatesKept, FavoritesKept
  <2> QED
    BY <2>1, <2>2, <2>4
<1>8. ASSUME NEW b \in Bvids, UpsertCandidateVideo(b) PROVE FavoriteInv' /\ FavoritesKept
  <2>1. /\ ~cand[b].live /\ cand[b].id < MaxCandidateId
        /\ cand' = Upserted(cand, b) /\ UNCHANGED <<schema, favorites, renamed, mode>>
    BY <1>8 DEF UpsertCandidateVideo, rowVars, hostVars
  <2>2. cand' = [c \in Bvids |-> IF c \in {b} THEN Upserted(cand, c)[c] ELSE cand[c]]
    BY <2>1 DEF Upserted, FavoriteRows
  <2>3. cand' \in [Bvids -> CandidateRow] /\ CandidatesKept
    BY <2>1, <2>2, Restored DEF FavoriteRows
  <2> QED
    BY <1>7, <2>1, <2>3
<1>9. ASSUME NEW o \in Owners, NEW l, GetPlaylistDetail(o, l) PROVE FavoriteInv' /\ FavoritesKept
  <2> DEFINE bs == {i.bvid : i \in ItemsOf(l)}
  <2>1. /\ \A b \in bs : cand[b].live \/ cand[b].id < MaxCandidateId
        /\ cand' = [b \in Bvids |-> IF b \in bs THEN Upserted(cand, b)[b] ELSE cand[b]]
        /\ UNCHANGED <<schema, favorites, renamed, mode>>
    BY <1>9 DEF GetPlaylistDetail, rowVars, hostVars
  <2> HIDE DEF bs
  <2>2. cand' = [b \in Bvids |-> IF b \in bs \cap Bvids THEN Upserted(cand, b)[b] ELSE cand[b]]
    BY <2>1
  <2>3. cand' \in [Bvids -> CandidateRow] /\ CandidatesKept
    BY <2>1, <2>2, Restored DEF FavoriteRows
  <2> QED
    BY <1>7, <2>1, <2>3
<1>10. ASSUME NEW b \in Bvids, CandidateRemoved(b) PROVE FavoriteInv' /\ FavoritesKept
  <2>1. /\ cand' = [cand EXCEPT ![b].live = FALSE] /\ UNCHANGED <<schema, renamed>> /\ schema = "new"
        /\ favorites' = [o \in Owners |-> IF favorites[o][b] = None THEN favorites[o]
                                          ELSE [favorites[o] EXCEPT ![b].link = 0]]
    BY <1>10 DEF CandidateRemoved
  <2>2. ASSUME NEW o \in Owners, NEW c \in Bvids, favorites[o][c] # None
        PROVE  /\ favorites'[o][c] \in Favorite /\ favorites'[o][c].note = favorites[o][c].note
               /\ favorites'[o][c].link = IF c = b THEN 0 ELSE favorites[o][c].link
    BY <1>1, <2>1, <2>2 DEF Favorite, FavoriteRows
  <2>3. ASSUME NEW o \in Owners, NEW c \in Bvids, favorites[o][c] = None
        PROVE  favorites'[o][c] = None
    BY <2>1, <2>3 DEF FavoriteRows
  <2>4. \A o \in Owners : favorites'[o] = [c \in Bvids |-> favorites'[o][c]]
    BY <2>1 DEF FavoriteRows
  <2>5. favorites' \in [Owners -> [Bvids -> Favorite \cup {None}]]
    <3>1. \A o \in Owners, c \in Bvids : favorites'[o][c] \in Favorite \cup {None}
      BY <2>2, <2>3
    <3>2. \A o \in Owners : favorites'[o] \in [Bvids -> Favorite \cup {None}]
      BY <2>4, <3>1
    <3> QED
      BY <2>1, <3>2
  <2>6. cand' \in [Bvids -> CandidateRow]
    BY <2>1 DEF FavoriteRows, CandidateRow
  <2>7. \A c \in Bvids : c # b => cand'[c] = cand[c]
    BY <2>1 DEF FavoriteRows
  <2>8. FavoriteRows'
    BY <2>1, <2>5, <2>6 DEF FavoriteRows
  <2>9. FavoriteLinks'
    BY <2>2, <2>3, <2>7 DEF FavoriteLinks, Linked
  <2>10. TableTells
    BY <1>0, <2>1
  <2>11. FavoritesKept
    BY <2>2, <2>10, NullAssumption DEF TableTells, FavoritesKept
  <2> QED
    BY <2>8, <2>9, <2>10, <2>11 DEF TableTells
<1>11. ASSUME NEW o \in Owners, NEW bs \in SUBSET Bvids, Hydrate(o, bs) PROVE FavoriteInv' /\ FavoritesKept
  <2>1. /\ \A b \in bs : favorites[o][b] # None /\ (cand[b].live \/ cand[b].id < MaxCandidateId)
        /\ cand' = [b \in Bvids |-> IF b \in bs THEN Upserted(cand, b)[b] ELSE cand[b]]
        /\ favorites' = [favorites EXCEPT ![o] = [b \in Bvids |->
              IF b \in bs THEN [@[b] EXCEPT !.link = cand'[b].id] ELSE @[b]]]
        /\ UNCHANGED <<schema, renamed>> /\ schema = "new"
    BY <1>11 DEF Hydrate, Acts
  <2>2. cand' \in [Bvids -> CandidateRow] /\ CandidatesKept /\ \A b \in bs : cand'[b].live
    BY <2>1, Restored DEF FavoriteRows
  <2>3. \A b \in Bvids : cand'[b].id \in CandidateIds \cup {0}
    BY <2>2 DEF CandidateRow
  <2>4. ASSUME NEW b \in bs
        PROVE  /\ favorites'[o][b] \in Favorite /\ favorites'[o][b].note = favorites[o][b].note
               /\ favorites'[o][b].link = cand'[b].id
    <3>1. favorites[o][b] \in Favorite
      BY <1>1, <2>1
    <3>2. favorites'[o][b] = [favorites[o][b] EXCEPT !.link = cand'[b].id]
      BY <2>1 DEF FavoriteRows
    <3> QED
      BY <2>3, <3>1, <3>2 DEF Favorite
  <2>5. ASSUME NEW p \in Owners, NEW b \in Bvids, p # o \/ b \notin bs
        PROVE  favorites'[p][b] = favorites[p][b]
    BY <2>1, <2>5 DEF FavoriteRows
  <2>6. favorites' \in [Owners -> [Bvids -> Favorite \cup {None}]]
    <3>1. \A p \in Owners, b \in Bvids : favorites'[p][b] \in Favorite \cup {None}
      BY <2>4, <2>5 DEF FavoriteRows
    <3>2. \A p \in Owners : favorites'[p] = [b \in Bvids |-> favorites'[p][b]]
      BY <2>1 DEF FavoriteRows
    <3>3. \A p \in Owners : favorites'[p] \in [Bvids -> Favorite \cup {None}]
      BY <3>1, <3>2
    <3> QED
      BY <2>1, <3>3 DEF FavoriteRows
  <2>7. FavoriteRows'
    BY <2>1, <2>2, <2>6 DEF FavoriteRows
  <2>8. FavoriteLinks'
    <3>1. ASSUME NEW p \in Owners, NEW b \in Bvids, favorites'[p][b] # None
          PROVE  favorites'[p][b].link = 0 \/ (cand'[b].live /\ favorites'[p][b].link = cand'[b].id)
      <4>1. CASE p = o /\ b \in bs
        BY <2>2, <2>4, <4>1
      <4>2. CASE p # o \/ b \notin bs
        BY <2>2, <2>5, <3>1, <4>2, LinkSurvives DEF FavoriteLinks
      <4> QED
        BY <4>1, <4>2
    <3> QED
      BY <3>1 DEF FavoriteLinks, Linked
  <2>9. TableTells
    BY <1>0, <2>1
  <2>10. FavoritesKept
    BY <2>4, <2>5, <2>9, NullAssumption DEF TableTells, FavoritesKept
  <2> QED
    BY <2>7, <2>8, <2>9, <2>10 DEF TableTells
<1>12. ASSUME NEW o \in Owners, NEW b \in Bvids, NEW given \in Notes \cup {"keep"},
              CreateFavoriteVideo(o, b, given)
       PROVE  FavoriteInv' /\ FavoritesKept
  <2> DEFINE note == IF given # "keep" THEN given
                     ELSE IF favorites[o][b] # None THEN favorites[o][b].note ELSE ""
             new == [note |-> note, link |-> cand[b].id]
  <2>1. /\ favorites' = [favorites EXCEPT ![o][b] = new]
        /\ cand[b].live /\ UNCHANGED <<cand, schema, renamed>> /\ schema = "new"
    BY <1>12 DEF CreateFavoriteVideo, Acts
  <2>2. note \in Notes
    BY <1>1 DEF Notes, Favorite
  <2>3. new \in Favorite
    BY <2>2 DEF Favorite, FavoriteRows, CandidateRow
  <2>4. favorites'[o][b] = new /\ new.link = cand[b].id
    BY <2>1 DEF FavoriteRows
  <2>5. \A p \in Owners, c \in Bvids : p # o \/ c # b => favorites'[p][c] = favorites[p][c]
    BY <2>1 DEF FavoriteRows
  <2>6. given = "keep" /\ favorites[o][b] # None => new.note = favorites[o][b].note
    OBVIOUS
  <2> HIDE DEF new
  <2>7. FavoriteRows'
    BY <2>1, <2>3 DEF FavoriteRows
  <2>8. FavoriteLinks'
    BY <2>1, <2>4, <2>5 DEF FavoriteLinks, Linked
  <2>9. TableTells
    BY <1>0, <2>1
  <2>10. FavoritesKept
    BY <1>12, <2>3, <2>4, <2>5, <2>6, <2>9, NullAssumption DEF TableTells, FavoritesKept
  <2> QED
    BY <2>7, <2>8, <2>9, <2>10 DEF TableTells
<1>13. ASSUME NEW o \in Owners, NEW b \in Bvids, NEW id \in CandidateIds, DeleteFavoriteVideo(o, b, id)
       PROVE  FavoriteInv' /\ FavoritesKept
  <2>1. /\ favorites' = [favorites EXCEPT ![o][b] = None]
        /\ UNCHANGED <<cand, schema, renamed>> /\ schema = "new"
    BY <1>13 DEF DeleteFavoriteVideo, Acts
  <2>2. \A p \in Owners, c \in Bvids : p # o \/ c # b => favorites'[p][c] = favorites[p][c]
    BY <2>1 DEF FavoriteRows
  <2>3. FavoriteRows' /\ FavoriteLinks'
    BY <2>1 DEF FavoriteRows, FavoriteLinks, Linked
  <2>4. TableTells
    BY <1>0, <2>1
  <2>5. FavoritesKept
    BY <1>13, <2>2, <2>4 DEF TableTells, FavoritesKept
  <2> QED
    BY <2>3, <2>4, <2>5 DEF TableTells
<1> QED
  BY <1>2, <1>3, <1>4, <1>5, <1>6, <1>8, <1>9, <1>10, <1>11, <1>12, <1>13, <1>14, <1>15, FavoriteFrame, Zenon

-----------------------------------------------------------------------------
(* Playlists                                                               *)

Item == [id : 1 .. lastItem, list : 1 .. lastList, bvid : Bvids, link : CandidateIds \cup {0}, pos : Nat]

\* Playlists and items as the tables hold them.  A place is below the number of items ever
\* made, which is why a list always has a last place to add to.
ListRows ==
    /\ lastList \in 0 .. MaxListId /\ lastItem \in 0 .. MaxItemId
    /\ lists \subseteq [id : 1 .. lastList, owner : Owners]
    /\ items \subseteq Item
    /\ \A l, m \in lists : l.id = m.id => l = m
    /\ \A i \in items : i.pos < lastItem /\ \E l \in lists : l.id = i.list

ItemLinks == \A i \in items : Linked(i.link, i.bvid)

ItemsDiffer ==
    \A i, j \in items :
        /\ i.id = j.id => i = j
        /\ i # j /\ i.list = j.list => i.bvid # j.bvid /\ i.pos # j.pos

ListInv == ListRows /\ ItemLinks /\ ItemsDiffer

\* What a step may do to the lists.
Keeps == ItemsKept /\ OrderKept /\ ListsKept

\* The last place of a list is found.
LEMMA GreatestBelow ==
    ASSUME NEW n \in Nat, NEW S \in SUBSET (0 .. n - 1)
    PROVE  /\ Greatest(S) \in -1 .. n - 1
           /\ \A m \in S : m <= Greatest(S)
<1>1. ASSUME S = {} PROVE \E x \in S \cup {-1} : \A m \in S : m <= x
  BY <1>1
<1>2. ASSUME S # {} PROVE \E x \in S : \A m \in S : m <= x
  <2> DEFINE Below == {n - x : x \in S}
             Less == {ss \in Nat \X Nat : ss[1] < ss[2]}
  <2>1. IsWellFoundedOn(Less, Nat)
    BY NatLessThanWellFounded DEF OpToRel
  <2>2. Below \subseteq Nat /\ Below # {}
    <3>1. PICK s : s \in S
      BY <1>2
    <3>2. n - s \in Below
      BY <3>1
    <3> QED
      BY <3>2
  <2>3. \E x \in Below : \A y \in Below : ~ (<<y, x>> \in Less)
    <3> HIDE DEF Less, Below
    <3> QED
      BY <2>1, <2>2, WFMin
  <2>4. PICK x \in S : \A y \in S : ~ (<<n - y, n - x>> \in Less)
    BY <2>3
  <2>5. ASSUME NEW m \in S PROVE m <= x
    <3>1. n - m \in Nat /\ n - x \in Nat
      OBVIOUS
    <3>2. ~(n - m < n - x)
      BY <2>4, <3>1
    <3> QED
      BY <3>2
  <2> QED
    BY <2>5
<1>3. \E x \in S \cup {-1} : \A m \in S : m <= x
  BY <1>1, <1>2
<1>4. Greatest(S) \in S \cup {-1} /\ \A m \in S : m <= Greatest(S)
  BY <1>3 DEF Greatest
<1>5. S \cup {-1} \subseteq -1 .. n - 1
  OBVIOUS
<1> QED
  BY <1>4, <1>5

\* Which handlers touch playlists.
LEMMA ListFrame ==
    ASSUME [Next]_vars
    PROVE  \/ UNCHANGED <<cand, listVars>>
           \/ \E a \in Accounts : MigrateLegacyLibrary(a)
           \/ \E b \in Bvids : UpsertCandidateVideo(b) \/ CandidateRemoved(b)
           \/ \E o \in Owners, bs \in SUBSET Bvids : Hydrate(o, bs)
           \/ \E o \in Owners, k \in Keys \cup {None}, b \in Bvids \cup {None} : CreatePlaylist(o, k, b)
           \/ \E o \in Owners, l \in lists :
                 \/ DeletePlaylist(o, l.id) \/ GetPlaylistDetail(o, l.id)
                 \/ \E b \in Bvids : AddPlaylistItem(o, l.id, b)
                 \/ \E i \in items : RemovePlaylistItem(o, l.id, i)
                 \/ \E ids \in SUBSET {i.id : i \in ItemsOf(l.id)} : \E place \in Orders(ids) :
                       ReorderPlaylist(o, l.id, ids, place)
<1> USE DEF listVars, hostVars, rowVars
<1>1. ASSUME NEW o \in Owners, CandidateRoute(o) \/ FavoriteRoute(o) \/ CreatorsRoute(o) \/ CreatorRoute(o)
      PROVE  UNCHANGED <<cand, listVars>>
  BY <1>1 DEF CandidateRoute, RecordInteraction, FavoriteRoute, DeleteFavoriteVideo, CreatorsRoute, CreatorRoute,
     CreatePreferredCreator, UpdatePreferredCreator, DeletePreferredCreator
<1>2. ASSUME NEW o \in Owners, PlaylistsRoute(o)
      PROVE  \E k \in Keys \cup {None}, b \in Bvids \cup {None} : CreatePlaylist(o, k, b)
  BY <1>2, Zenon DEF PlaylistsRoute
<1>3. \A o \in Owners : \A n \in ListsOf(o) : \E l \in lists : l.id = n
  BY DEF ListsOf
<1>4. \A l \in lists : \A i \in ItemsOf(l.id) : i \in items
  BY DEF ItemsOf
<1>5. ASSUME NEW o \in Owners, PlaylistRoute(o) \/ PlaylistItemsRoute(o) \/ PlaylistItemRoute(o)
      PROVE  \E l \in lists :
                \/ DeletePlaylist(o, l.id) \/ GetPlaylistDetail(o, l.id)
                \/ \E b \in Bvids : AddPlaylistItem(o, l.id, b)
                \/ \E i \in items : RemovePlaylistItem(o, l.id, i)
                \/ \E ids \in SUBSET {i.id : i \in ItemsOf(l.id)} : \E place \in Orders(ids) :
                      ReorderPlaylist(o, l.id, ids, place)
  BY <1>3, <1>4, <1>5, Zenon DEF PlaylistRoute, PlaylistItemsRoute, PlaylistItemRoute
<1>6. ASSUME NEW o \in Owners,
             FavoritesRoute(o) \/ \E b \in Bvids : GetOrHydrateFavoriteCandidateByBvid(o, b)
      PROVE  (\E bs \in SUBSET Bvids : Hydrate(o, bs)) \/ UNCHANGED <<cand, listVars>>
  <2>1. \A b \in Bvids : {b} \in SUBSET Bvids
    OBVIOUS
  <2>2. {b \in Bvids : favorites[o][b] # None} \in SUBSET Bvids
    OBVIOUS
  <2>3. ASSUME NEW b \in Bvids, NEW given \in Notes \cup {"keep"}, CreateFavoriteVideo(o, b, given)
        PROVE  UNCHANGED <<cand, listVars>>
    BY <2>3 DEF CreateFavoriteVideo
  <2> QED
    BY <1>6, <2>1, <2>2, <2>3, Zenon DEF FavoritesRoute, GetOrHydrateFavoriteCandidateByBvid, ListFavoriteVideos
<1>7. ASSUME PlaybackRangeRoute \/ Clients PROVE UNCHANGED <<cand, listVars>>
  BY <1>7 DEF PlaybackRangeRoute, SavePlaybackRange, Clients, SendRange, EditLost
<1>8. ASSUME \/ EnableAccounts \/ RenameOld \/ CreateFavoriteVideosTable \/ CopyOld \/ RestartInBetween
             \/ \E r \in receipts : Expire(r)
      PROVE UNCHANGED <<cand, listVars>>
  BY <1>8 DEF EnableAccounts, RenameOld, CreateFavoriteVideosTable, CopyOld, RestartInBetween, Expire
<1>9. CASE UNCHANGED vars
  BY <1>9 DEF vars
<1> QED
  BY <1>1, <1>2, <1>5, <1>6, <1>7, <1>8, <1>9, Zenon DEF Next, Requests, Host

\* Items that stay where they are keep the order.
LEMMA SameOrder ==
    ASSUME \A i \in items' : \E k \in items : k.id = i.id /\ k.list = i.list /\ k.pos = i.pos
    PROVE  OrderKept
BY DEF OrderKept

\* A step that moves candidates only keeps the links, as it keeps the candidates that are there.
LEMMA CandidatesMove ==
    ASSUME ListInv, UNCHANGED listVars, CandidatesKept
    PROVE  ListInv' /\ Keeps
<1> USE DEF listVars
<1>1. ListRows' /\ ItemsDiffer'
  BY DEF ListInv, ListRows, ItemsDiffer, Item
<1>2. ItemLinks'
  BY LinkSurvives DEF ListInv, ListRows, ItemLinks, Item, Linked
<1>3. ItemsKept /\ ListsKept
  BY DEF ItemsKept, ListsKept
<1>4. OrderKept
  BY SameOrder
<1> QED
  BY <1>1, <1>2, <1>3, <1>4 DEF ListInv, Keeps

\* What adds an item puts it last, after whatever the list holds.
LEMMA Inserted ==
    ASSUME ListInv, cand \in [Bvids -> CandidateRow], cand' = cand,
           NEW b \in Bvids, NEW n \in 1 .. lastList', InsertItem(n, b),
           lists \subseteq lists', lists' \subseteq [id : 1 .. lastList', owner : Owners],
           \A l, m \in lists' : l.id = m.id => l = m,
           \E l \in lists' : l.id = n,
           lastList' \in 0 .. MaxListId, lastList <= lastList'
    PROVE  ListInv' /\ ItemsKept /\ OrderKept
<1> DEFINE places == {i.pos : i \in ItemsOf(n)}
           last == Greatest(places)
           new == [id |-> lastItem + 1, list |-> n, bvid |-> b, link |-> cand[b].id, pos |-> last + 1]
<1>1. /\ cand[b].live /\ \A i \in ItemsOf(n) : i.bvid # b
      /\ lastItem < MaxItemId /\ lastItem' = lastItem + 1
      /\ items' = items \cup {new}
  BY DEF InsertItem, NextItem
<1>2. lastItem \in Nat /\ lastItem <= MaxItemId /\ lastList \in Nat /\ MaxItemId \in Nat
  BY LibraryAssumption DEF ListInv, ListRows
<1>3. places \in SUBSET (0 .. lastItem - 1)
  BY <1>2 DEF ListInv, ListRows, ItemsOf, Item
<1>4. last \in -1 .. lastItem - 1 /\ \A m \in places : m <= last
  BY <1>2, <1>3, GreatestBelow
<1>5. \A i \in items : i.list = n => i.pos <= last
  BY <1>4 DEF ItemsOf
<1> HIDE DEF last
<1>6. /\ new.id = lastItem + 1 /\ new.list = n /\ new.bvid = b /\ new.link = cand[b].id
      /\ new.pos = last + 1 /\ new.pos \in Nat /\ new.pos < lastItem'
  BY <1>1, <1>2, <1>4
<1>7. new \in Item'
  BY <1>1, <1>2, <1>4 DEF Item, CandidateRow
<1> HIDE DEF new
<1>8. ASSUME NEW i \in items
      PROVE  i \in Item' /\ i.pos < lastItem' /\ i.id # new.id /\ i.pos \in Nat
    <2>1. i \in Item /\ i.pos < lastItem
      BY DEF ListInv, ListRows
    <2> QED
      BY <1>1, <1>2, <1>6, <2>1 DEF Item
<1>9. ListRows'
  <2>1. lastItem' \in 0 .. MaxItemId
    BY <1>1, <1>2
  <2>2. items' \subseteq Item'
    BY <1>1, <1>7, <1>8
  <2>3. \A i \in items' : i.pos < lastItem' /\ \E l \in lists' : l.id = i.list
    BY <1>1, <1>6, <1>8 DEF ListInv, ListRows
  <2> QED
    BY <2>1, <2>2, <2>3 DEF ListRows
<1>10. ItemLinks'
  BY <1>1, <1>6 DEF ListInv, ItemLinks, Linked
<1>11. ItemsDiffer'
  <2>1. ASSUME NEW i \in items, i.list = n PROVE i.bvid # b /\ i.pos # new.pos
    BY <1>1, <1>4, <1>5, <1>6, <1>8, <2>1 DEF ItemsOf
  <2> QED
    BY <1>1, <1>6, <1>8, <2>1 DEF ListInv, ItemsDiffer
<1>12. ItemsKept
  BY <1>1 DEF ItemsKept
<1>13. OrderKept
  <2>1. ASSUME NEW i \in items', NEW j \in items', i.list = j.list, i.pos < j.pos
        PROVE  \/ i.id \in {k.id : k \in items} /\ j.id \notin {k.id : k \in items}
               \/ \E k, m \in items : k.id = i.id /\ m.id = j.id /\ k.pos < m.pos
    <3>1. CASE i \in items /\ j \in items
      BY <2>1, <3>1
    <3>2. CASE i \in items /\ j = new
      BY <1>8, <3>2
    <3>3. CASE i = new
      <4>1. j \in items => j.pos <= last
        BY <1>5, <1>6, <2>1, <3>3
      <4> QED
        BY <1>1, <1>4, <1>6, <1>8, <2>1, <3>3, <4>1
    <3> QED
      BY <1>1, <3>1, <3>2, <3>3
  <2> QED
    BY <2>1 DEF OrderKept
<1> QED
  BY <1>9, <1>10, <1>11, <1>12, <1>13 DEF ListInv

\* A request that names all items of a list gives each a place of its own.
LEMMA Reordered ==
    ASSUME ListInv, UNCHANGED <<cand, lists, lastList, lastItem>>,
           NEW o \in Owners, NEW l \in lists, NEW ids \in SUBSET {i.id : i \in ItemsOf(l.id)},
           NEW place \in Orders(ids), ReorderPlaylist(o, l.id, ids, place)
    PROVE  ListInv' /\ Keeps
<1> DEFINE moved(i) == IF i.list = l.id /\ i.id \in ids THEN [i EXCEPT !.pos = place[i.id]] ELSE i
<1>1. ids = {k.id : k \in ItemsOf(l.id)} /\ items' = {moved(i) : i \in items} /\ l.id \in ListsOf(o)
  BY DEF ReorderPlaylist, SameItems
<1>2. lastItem \in Nat
  BY LibraryAssumption DEF ListInv, ListRows
<1>3. ASSUME NEW i \in items PROVE i \in Item /\ i.pos < lastItem /\ i.pos \in Nat
  BY DEF ListInv, ListRows, Item
<1>4. ids \subseteq 1 .. lastItem
  BY <1>1, <1>3 DEF ItemsOf, Item
<1>5. IsFiniteSet(ids) /\ Cardinality(ids) \in Nat /\ Cardinality(ids) <= lastItem
  <2>1. IsFiniteSet(1 .. lastItem) /\ Cardinality(1 .. lastItem) = lastItem
    <3>1. /\ IsFiniteSet(1 .. lastItem)
          /\ Cardinality(1 .. lastItem) = IF 1 > lastItem THEN 0 ELSE lastItem - 1 + 1
      BY <1>2, FS_Interval
    <3> QED
      BY <1>2, <3>1
  <2> QED
    BY <1>4, <2>1, FS_Subset, FS_CardinalityType
<1>6. /\ \A n \in ids : place[n] \in Nat /\ place[n] < lastItem
      /\ \A n, m \in ids : n # m => place[n] # place[m]
  BY <1>2, <1>5 DEF Orders
<1>7. ASSUME NEW i \in items, i.list = l.id
      PROVE  /\ i.id \in ids /\ moved(i).pos = place[i.id]
  BY <1>1, <1>3, <1>7 DEF ItemsOf, Item
<1>8. ASSUME NEW i \in items
      PROVE  /\ moved(i) \in Item /\ moved(i).pos < lastItem
             /\ moved(i).id = i.id /\ moved(i).list = i.list /\ moved(i).bvid = i.bvid
             /\ moved(i).link = i.link
             /\ i.list # l.id => moved(i) = i
  BY <1>3, <1>6 DEF Item
<1> HIDE DEF moved
<1>9. ListRows'
  BY <1>1, <1>8 DEF ListInv, ListRows, Item
<1>10. ItemLinks'
  BY <1>1, <1>8 DEF ListInv, ItemLinks, Linked
<1>11. ItemsDiffer'
  <2>1. ASSUME NEW i \in items, NEW j \in items
        PROVE  /\ moved(i).id = moved(j).id => moved(i) = moved(j)
               /\ moved(i) # moved(j) /\ moved(i).list = moved(j).list =>
                     moved(i).bvid # moved(j).bvid /\ moved(i).pos # moved(j).pos
    <3>1. i.id = j.id => i = j
      BY DEF ListInv, ItemsDiffer
    <3>2. i # j /\ i.list = j.list => i.bvid # j.bvid /\ i.pos # j.pos
      BY DEF ListInv, ItemsDiffer
    <3> QED
      BY <1>6, <1>7, <1>8, <3>1, <3>2
  <2> QED
    BY <1>1, <2>1 DEF ItemsDiffer
<1>12. ItemsKept
  BY <1>1, <1>8 DEF ItemsKept
<1>13. ListsKept
  BY DEF ListsKept
<1>14. OrderKept
  <2>1. l.owner = o
    BY <1>1 DEF ListsOf, ListInv, ListRows
  <2>2. ASSUME NEW i \in items', NEW j \in items', i.list = j.list, i.pos < j.pos, i.list # l.id
        PROVE  \E k, m \in items : k.id = i.id /\ m.id = j.id /\ k.pos < m.pos
    BY <1>1, <1>8, <2>2
  <2>3. ASSUME NEW i \in items', i.list = l.id
        PROVE  \E m \in lists : m.id = i.list /\ \E f \in Orders({k.id : k \in ItemsOf(m.id)}) :
                  ReorderPlaylist(m.owner, m.id, {k.id : k \in ItemsOf(m.id)}, f)
    BY <1>1, <2>1, <2>3
  <2> QED
    BY <2>2, <2>3 DEF OrderKept
<1> QED
  BY <1>9, <1>10, <1>11, <1>12, <1>13, <1>14 DEF ListInv, Keeps

\* Each handler keeps lists and items as they belong together, and whose and where they are.
LEMMA ListStep ==
    ASSUME FavoriteInv, ListInv, [Next]_vars
    PROVE  ListInv' /\ Keeps
<1>0. cand \in [Bvids -> CandidateRow]
  BY DEF FavoriteInv, FavoriteRows
<1>1. CASE UNCHANGED <<cand, listVars>>
  BY <1>1, CandidatesMove DEF CandidatesKept
<1>2. ASSUME NEW a \in Accounts, MigrateLegacyLibrary(a) PROVE ListInv' /\ Keeps
  <2> DEFINE given(l) == [l EXCEPT !.owner = IF @ = Legacy THEN a ELSE @]
  <2>1. /\ lists' = {given(l) : l \in lists} /\ UNCHANGED <<cand, items, lastList, lastItem>>
        /\ target = None /\ target' = a
    BY <1>2 DEF MigrateLegacyLibrary, MayMigrate
  <2>2. a \in Owners /\ a # None
    BY LibraryAssumption DEF Owners
  <2>3. ASSUME NEW l \in lists
        PROVE  /\ given(l) \in [id : 1 .. lastList, owner : Owners] /\ given(l).id = l.id
               /\ l.owner # Legacy => given(l) = l
               /\ l.owner = Legacy => given(l) = [l EXCEPT !.owner = a]
    BY <2>2 DEF ListInv, ListRows
  <2> HIDE DEF given
  <2>4. ListRows'
    <3>1. lists' \subseteq [id : 1 .. lastList', owner : Owners]
      BY <2>1, <2>3
    <3>2. \A l, m \in lists' : l.id = m.id => l = m
      BY <2>1, <2>3 DEF ListInv, ListRows
    <3>3. \A i \in items : \E l \in lists' : l.id = i.list
      BY <2>1, <2>3 DEF ListInv, ListRows
    <3> QED
      BY <2>1, <3>1, <3>2, <3>3 DEF ListInv, ListRows, Item
  <2>5. ItemLinks' /\ ItemsDiffer'
    BY <2>1 DEF ListInv, ItemLinks, ItemsDiffer, Linked
  <2>6. ItemsKept /\ OrderKept
    BY <2>1, SameOrder DEF ItemsKept
  <2>7. ListsKept
    BY <2>1, <2>2, <2>3 DEF ListsKept, Moved
  <2> QED
    BY <2>4, <2>5, <2>6, <2>7 DEF ListInv, Keeps
<1>3. ASSUME NEW b \in Bvids, UpsertCandidateVideo(b) PROVE ListInv' /\ Keeps
  <2>1. /\ ~cand[b].live /\ cand' = Upserted(cand, b) /\ UNCHANGED listVars
    BY <1>3 DEF UpsertCandidateVideo
  <2>2. CandidatesKept
    BY <1>0, <2>1 DEF CandidatesKept, Upserted
  <2> QED
    BY <2>1, <2>2, CandidatesMove
<1>4. ASSUME NEW o \in Owners, NEW bs \in SUBSET Bvids, Hydrate(o, bs) PROVE ListInv' /\ Keeps
  <2>1. CandidatesKept
    BY <1>0, <1>4, Restored DEF Hydrate
  <2>2. UNCHANGED listVars
    BY <1>4 DEF Hydrate
  <2> QED
    BY <2>1, <2>2, CandidatesMove
<1>5. ASSUME NEW b \in Bvids, CandidateRemoved(b) PROVE ListInv' /\ Keeps
  <2> DEFINE unlinked(i) == IF i.bvid = b THEN [i EXCEPT !.link = 0] ELSE i
  <2>1. /\ items' = {unlinked(i) : i \in items} /\ UNCHANGED <<lists, lastList, lastItem>>
        /\ cand' = [cand EXCEPT ![b].live = FALSE]
    BY <1>5 DEF CandidateRemoved, Unlinked
  <2>2. ASSUME NEW i \in items
        PROVE  /\ unlinked(i) \in Item /\ unlinked(i).id = i.id /\ unlinked(i).list = i.list
               /\ unlinked(i).bvid = i.bvid /\ unlinked(i).pos = i.pos
               /\ unlinked(i).link = IF i.bvid = b THEN 0 ELSE i.link
               /\ i.bvid # b => cand'[i.bvid] = cand[i.bvid]
    BY <1>0, <2>1 DEF ListInv, ListRows, Item
  <2> HIDE DEF unlinked
  <2>3. ListRows'
    BY <2>1, <2>2 DEF ListInv, ListRows, Item
  <2>4. ItemLinks'
    BY <2>1, <2>2 DEF ListInv, ItemLinks, Linked
  <2>5. ItemsDiffer'
    BY <2>1, <2>2 DEF ListInv, ItemsDiffer
  <2>6. ItemsKept /\ ListsKept
    BY <2>1, <2>2 DEF ItemsKept, ListsKept
  <2>7. OrderKept
    BY <2>1, <2>2, SameOrder
  <2> QED
    BY <2>3, <2>4, <2>5, <2>6, <2>7 DEF ListInv, Keeps
<1>6. ASSUME NEW o \in Owners, NEW k \in Keys \cup {None}, NEW b \in Bvids \cup {None}, CreatePlaylist(o, k, b)
      PROVE  ListInv' /\ Keeps
  <2> DEFINE new == [id |-> lastList + 1, owner |-> o]
  <2>1. /\ lastList < MaxListId /\ lastList' = lastList + 1 /\ lists' = lists \cup {new}
        /\ IF b = None THEN UNCHANGED <<items, lastItem>> ELSE InsertItem(lastList', b)
        /\ UNCHANGED cand
    BY <1>6 DEF CreatePlaylist
  <2>2. lastList \in Nat /\ lastList' \in 0 .. MaxListId /\ lastList' \in 1 .. lastList' /\ lastList <= lastList'
    BY <2>1, LibraryAssumption DEF ListInv, ListRows
  <2>3. new \in [id : 1 .. lastList', owner : Owners] /\ new.id = lastList'
    BY <2>1, <2>2
  <2> HIDE DEF new
  <2>4. ASSUME NEW l \in lists PROVE l \in [id : 1 .. lastList', owner : Owners] /\ l.id # lastList'
    BY <2>1, <2>2 DEF ListInv, ListRows
  <2>5. /\ lists' \subseteq [id : 1 .. lastList', owner : Owners]
        /\ \A l, m \in lists' : l.id = m.id => l = m
        /\ \E l \in lists' : l.id = lastList'
        /\ lists \subseteq lists'
    BY <2>1, <2>3, <2>4 DEF ListInv, ListRows
  <2>6. ListsKept
    BY <2>5 DEF ListsKept
  <2>7. CASE b = None
    <3>1. UNCHANGED <<items, lastItem>>
      BY <2>1, <2>7
    <3>2. ListRows'
      BY <2>1, <2>2, <2>5, <3>1 DEF ListInv, ListRows, Item
    <3>3. ItemLinks' /\ ItemsDiffer'
      BY <2>1, <3>1 DEF ListInv, ItemLinks, ItemsDiffer, Linked
    <3>4. ItemsKept /\ OrderKept
      BY <3>1, SameOrder DEF ItemsKept
    <3> QED
      BY <2>6, <3>2, <3>3, <3>4 DEF ListInv, Keeps
  <2>8. CASE b # None
    <3>1. InsertItem(lastList', b)
      BY <2>1, <2>8
    <3>2. ListInv' /\ ItemsKept /\ OrderKept
      BY <1>0, <2>1, <2>2, <2>5, <2>8, <3>1, Inserted
    <3> QED
      BY <2>6, <3>2 DEF Keeps
  <2> QED
    BY <2>7, <2>8
<1>7. ASSUME NEW o \in Owners, NEW l \in lists, DeletePlaylist(o, l.id) PROVE ListInv' /\ Keeps
  <2>1. /\ lists' = {m \in lists : m.id # l.id} /\ items' = items \ ItemsOf(l.id) /\ l.id \in ListsOf(o)
        /\ UNCHANGED <<cand, lastList, lastItem>>
    BY <1>7 DEF DeletePlaylist
  <2>2. l.owner = o /\ \A m \in lists : m.id = l.id => m = l
    BY <2>1 DEF ListsOf, ListInv, ListRows
  <2>3. ListRows'
    BY <2>1 DEF ListInv, ListRows, ItemsOf, Item
  <2>4. ItemLinks' /\ ItemsDiffer'
    BY <2>1 DEF ListInv, ItemLinks, ItemsDiffer, Linked
  <2>5. ItemsKept
    BY <1>7, <2>1, <2>2 DEF ItemsKept, ItemsOf
  <2>6. OrderKept
    BY <2>1, SameOrder
  <2>7. ListsKept
    BY <1>7, <2>1, <2>2 DEF ListsKept
  <2> QED
    BY <2>3, <2>4, <2>5, <2>6, <2>7 DEF ListInv, Keeps
<1>8. ASSUME NEW o \in Owners, NEW l \in lists, GetPlaylistDetail(o, l.id) PROVE ListInv' /\ Keeps
  <2> DEFINE bs == {i.bvid : i \in ItemsOf(l.id)}
             found(i) == IF i.list = l.id THEN [i EXCEPT !.link = cand'[i.bvid].id] ELSE i
  <2>1. /\ \A b \in bs : cand[b].live \/ cand[b].id < MaxCandidateId
        /\ cand' = [b \in Bvids |-> IF b \in bs THEN Upserted(cand, b)[b] ELSE cand[b]]
        /\ items' = {found(i) : i \in items} /\ UNCHANGED <<lists, lastList, lastItem>>
    BY <1>8 DEF GetPlaylistDetail
  <2>2. bs \in SUBSET Bvids /\ \A i \in items : i.list = l.id => i.bvid \in bs
    BY DEF ItemsOf, ListInv, ListRows, Item
  <2> HIDE DEF bs
  <2>3. cand' \in [Bvids -> CandidateRow] /\ CandidatesKept /\ \A b \in bs : cand'[b].live
    BY <1>0, <2>1, <2>2, Restored
  <2>4. \A b \in Bvids : cand'[b].id \in CandidateIds \cup {0}
    BY <2>3 DEF CandidateRow
  <2>5. ASSUME NEW i \in items
        PROVE  /\ found(i) \in Item /\ found(i).id = i.id /\ found(i).list = i.list
               /\ found(i).bvid = i.bvid /\ found(i).pos = i.pos
               /\ found(i).link = IF i.list = l.id THEN cand'[i.bvid].id ELSE i.link
    BY <2>4 DEF ListInv, ListRows, Item
  <2> HIDE DEF found
  <2>6. ListRows'
    BY <2>1, <2>5 DEF ListInv, ListRows, Item
  <2>7. ASSUME NEW i \in items
        PROVE  found(i).link = 0 \/ (cand'[i.bvid].live /\ found(i).link = cand'[i.bvid].id)
    <3>1. CASE i.list = l.id
      BY <2>2, <2>3, <2>5, <3>1
    <3>2. CASE i.list # l.id
      BY <2>3, <2>5, <3>2, LinkSurvives DEF ListInv, ListRows, ItemLinks, Item
    <3> QED
      BY <3>1, <3>2
  <2>8. ItemLinks'
    BY <2>1, <2>5, <2>7 DEF ItemLinks, Linked
  <2>9. ItemsDiffer'
    BY <2>1, <2>5 DEF ListInv, ItemsDiffer
  <2>10. ItemsKept /\ ListsKept
    BY <2>1, <2>5 DEF ItemsKept, ListsKept
  <2>11. OrderKept
    BY <2>1, <2>5, SameOrder
  <2> QED
    BY <2>6, <2>8, <2>9, <2>10, <2>11 DEF ListInv, Keeps
<1>9. ASSUME NEW o \in Owners, NEW l \in lists, NEW b \in Bvids, AddPlaylistItem(o, l.id, b)
      PROVE  ListInv' /\ Keeps
  <2>1. InsertItem(l.id, b) /\ UNCHANGED <<cand, lists, lastList>>
    BY <1>9 DEF AddPlaylistItem
  <2>2. l.id \in 1 .. lastList' /\ lastList' \in 0 .. MaxListId /\ lastList <= lastList'
    BY <2>1, LibraryAssumption DEF ListInv, ListRows
  <2>3. /\ lists \subseteq lists' /\ lists' \subseteq [id : 1 .. lastList', owner : Owners]
        /\ \A m, n \in lists' : m.id = n.id => m = n
        /\ \E m \in lists' : m.id = l.id
    BY <2>1 DEF ListInv, ListRows
  <2>4. ListInv' /\ ItemsKept /\ OrderKept
    BY <1>0, <2>1, <2>2, <2>3, Inserted
  <2>5. ListsKept
    BY <2>3 DEF ListsKept
  <2> QED
    BY <2>4, <2>5 DEF Keeps
<1>10. ASSUME NEW o \in Owners, NEW l \in lists, NEW i \in items, RemovePlaylistItem(o, l.id, i)
       PROVE  ListInv' /\ Keeps
  <2>1. /\ items' = items \ {i} /\ UNCHANGED <<cand, lists, lastList, lastItem>>
        /\ l.id \in ListsOf(o) /\ i \in ItemsOf(l.id)
    BY <1>10 DEF RemovePlaylistItem
  <2>2. l.owner = o
    BY <2>1 DEF ListsOf, ListInv, ListRows
  <2>3. ListRows' /\ ItemLinks' /\ ItemsDiffer'
    BY <2>1 DEF ListInv, ListRows, ItemLinks, ItemsDiffer, Linked, Item
  <2>4. ItemsKept
    BY <1>10, <2>1, <2>2 DEF ItemsKept, ItemsOf
  <2>5. OrderKept
    BY <2>1, SameOrder
  <2>6. ListsKept
    BY <2>1 DEF ListsKept
  <2> QED
    BY <2>3, <2>4, <2>5, <2>6 DEF ListInv, Keeps
<1>11. ASSUME NEW o \in Owners, NEW l \in lists, NEW ids \in SUBSET {i.id : i \in ItemsOf(l.id)},
              NEW place \in Orders(ids), ReorderPlaylist(o, l.id, ids, place)
       PROVE  ListInv' /\ Keeps
  <2>1. UNCHANGED <<cand, lists, lastList, lastItem>>
    BY <1>11 DEF ReorderPlaylist
  <2> QED
    BY <1>11, <2>1, Reordered
<1> QED
  BY <1>1, <1>2, <1>3, <1>4, <1>5, <1>6, <1>7, <1>8, <1>9, <1>10, <1>11, ListFrame, Zenon

-----------------------------------------------------------------------------
(* Creators, interactions, and the whole library                           *)

restVars == <<focus, videos, creators, interactions, rangeVars, ownerVars>>

\* What else an owner has, within the limits.
RestTyped ==
    /\ focus \in Tables /\ videos \subseteq Bvids
    /\ mode \in {"local", "account"} /\ target \in Accounts \cup {None}
    /\ creators \in [Owners -> Notes \cup {None}]
    /\ interactions \in [Owners -> [Bvids -> Nat]]
    /\ ranges \in [Owners -> [time : Times \cup {None}, revision : 0 .. MaxRevision]]
    /\ edits \subseteq [owner : Owners, time : Times \cup {None}, revision : 0 .. MaxRevision, saw : Times \cup {None}]

\* Which handlers touch creators, interactions and ranges.
LEMMA RestFrame ==
    ASSUME [Next]_vars
    PROVE  \/ UNCHANGED restVars
           \/ EnableAccounts \/ \E a \in Accounts : MigrateLegacyLibrary(a)
           \/ \E b \in Bvids : CandidateRemoved(b)
           \/ \E o \in Owners, b \in Bvids, k \in Keys \cup {None} : RecordInteraction(o, b, k)
           \/ \E o \in Owners, given \in {"keep", "text"} : CreatePreferredCreator(o, given)
           \/ \E o \in Owners, note \in Notes : UpdatePreferredCreator(o, note)
           \/ \E o \in Owners : DeletePreferredCreator(o)
           \/ \E o \in Owners, time \in Times \cup {WholeTrack} : SendRange(o, time)
           \/ \E e \in edits : EditLost(e) \/ SavePlaybackRange(e)
<1> USE DEF restVars, rangeVars, ownerVars, hostVars, rowVars
<1>1. ASSUME NEW o \in Owners,
             PlaylistsRoute(o) \/ PlaylistRoute(o) \/ PlaylistItemsRoute(o) \/ PlaylistItemRoute(o)
      PROVE  UNCHANGED restVars
  BY <1>1 DEF PlaylistsRoute, PlaylistItemsRoute, PlaylistItemRoute, PlaylistRoute, CreatePlaylist,
     DeletePlaylist, GetPlaylistDetail, AddPlaylistItem, ReorderPlaylist, RemovePlaylistItem
<1>2. ASSUME NEW o \in Owners,
             \/ FavoritesRoute(o) \/ FavoriteRoute(o)
             \/ \E b \in Bvids : GetOrHydrateFavoriteCandidateByBvid(o, b)
      PROVE  UNCHANGED restVars
  BY <1>2 DEF FavoritesRoute, FavoriteRoute, ListFavoriteVideos, GetOrHydrateFavoriteCandidateByBvid, Hydrate,
     CreateFavoriteVideo, DeleteFavoriteVideo
<1>3. ASSUME RenameOld \/ CreateFavoriteVideosTable \/ CopyOld \/ RestartInBetween
      PROVE  UNCHANGED restVars
  BY <1>3 DEF RenameOld, CreateFavoriteVideosTable, CopyOld, RestartInBetween
<1>4. ASSUME \/ \E b \in Bvids : UpsertCandidateVideo(b)
             \/ \E r \in receipts : Expire(r)
      PROVE  UNCHANGED restVars
  BY <1>4 DEF UpsertCandidateVideo, Expire
<1>5. CASE UNCHANGED vars
  BY <1>5 DEF vars
<1> QED
  BY <1>1, <1>2, <1>3, <1>4, <1>5, Zenon DEF Next, Requests, Host, Clients, CreatorsRoute, CreatorRoute,
     CandidateRoute, PlaybackRangeRoute

\* Each handler keeps what owners have within the limits, and notes change by requests only.
LEMMA RestStep ==
    ASSUME RestTyped, [Next]_vars
    PROVE  RestTyped' /\ CreatorsKept
<1> USE DEF rangeVars, ownerVars, hostVars, rowVars
<1>0. MaxRevision \in Nat /\ 0 \in 0 .. MaxRevision /\ Legacy \in Owners
  BY LibraryAssumption DEF Owners
<1>1. CASE UNCHANGED restVars
  BY <1>1 DEF restVars, RestTyped, CreatorsKept
<1>2. CASE EnableAccounts
  BY <1>2 DEF EnableAccounts, RestTyped, CreatorsKept
<1>3. ASSUME NEW a \in Accounts, MigrateLegacyLibrary(a) PROVE RestTyped' /\ CreatorsKept
  <2>0. a \in Owners /\ a # Legacy /\ a # None
    BY LibraryAssumption DEF Owners
  <2>1. /\ target = None /\ target' = a /\ UNCHANGED <<focus, videos, mode, edits>>
        /\ creators' = IF creators[a] = None
                       THEN [creators EXCEPT ![a] = creators[Legacy], ![Legacy] = None] ELSE creators
        /\ interactions' = [interactions EXCEPT
              ![a] = [b \in Bvids |-> @[b] + interactions[Legacy][b]], ![Legacy] = [b \in Bvids |-> 0]]
        /\ ranges' = IF ranges[a].revision = 0
                     THEN [ranges EXCEPT ![a] = ranges[Legacy],
                                         ![Legacy] = [time |-> WholeTrack, revision |-> 0]] ELSE ranges
    BY <1>3 DEF MigrateLegacyLibrary, MayMigrate
  <2>2. creators' \in [Owners -> Notes \cup {None}]
    BY <1>0, <2>0, <2>1 DEF RestTyped
  <2>3. interactions' \in [Owners -> [Bvids -> Nat]]
    <3>1. \A b \in Bvids : interactions[a][b] + interactions[Legacy][b] \in Nat
      BY <1>0, <2>0 DEF RestTyped
    <3>2. [b \in Bvids |-> interactions[a][b] + interactions[Legacy][b]] \in [Bvids -> Nat]
      BY <3>1
    <3>3. [b \in Bvids |-> 0] \in [Bvids -> Nat]
      OBVIOUS
    <3> QED
      BY <2>1, <3>2, <3>3 DEF RestTyped
  <2>4. ranges' \in [Owners -> [time : Times \cup {None}, revision : 0 .. MaxRevision]]
    BY <1>0, <2>0, <2>1 DEF RestTyped, WholeTrack
  <2>5. CreatorsKept
    BY <1>0, <2>0, <2>1 DEF CreatorsKept, Moved, RestTyped
  <2> QED
    BY <2>1, <2>2, <2>3, <2>4, <2>5 DEF RestTyped
<1>4. ASSUME NEW b \in Bvids, CandidateRemoved(b) PROVE RestTyped' /\ CreatorsKept
  <2>1. /\ interactions' = [o \in Owners |-> [interactions[o] EXCEPT ![b] = 0]]
        /\ UNCHANGED <<focus, videos, creators, rangeVars, ownerVars>>
    BY <1>4 DEF CandidateRemoved
  <2>2. interactions' \in [Owners -> [Bvids -> Nat]]
    BY <2>1 DEF RestTyped
  <2> QED
    BY <2>1, <2>2 DEF RestTyped, CreatorsKept
<1>5. ASSUME NEW o \in Owners, NEW b \in Bvids, NEW k \in Keys \cup {None}, RecordInteraction(o, b, k)
      PROVE  RestTyped' /\ CreatorsKept
  BY <1>5 DEF RecordInteraction, RestTyped, CreatorsKept
<1>6. ASSUME NEW o \in Owners, NEW given \in {"keep", "text"}, CreatePreferredCreator(o, given)
      PROVE  RestTyped' /\ CreatorsKept
  <2>1. /\ creators' = [creators EXCEPT ![o] = IF given # "keep" THEN given ELSE IF @ # None THEN @ ELSE ""]
        /\ UNCHANGED <<focus, videos, interactions, rangeVars, ownerVars>>
    BY <1>6 DEF CreatePreferredCreator
  <2>2. creators' \in [Owners -> Notes \cup {None}]
    BY <2>1 DEF RestTyped, Notes
  <2>3. CreatorsKept
    BY <1>6, <2>1 DEF RestTyped, CreatorsKept
  <2> QED
    BY <2>1, <2>2, <2>3 DEF RestTyped
<1>7. ASSUME NEW o \in Owners, NEW note \in Notes, UpdatePreferredCreator(o, note)
      PROVE  RestTyped' /\ CreatorsKept
  <2>1. /\ creators' = [creators EXCEPT ![o] = note]
        /\ UNCHANGED <<focus, videos, interactions, rangeVars, ownerVars>>
    BY <1>7 DEF UpdatePreferredCreator
  <2>2. CreatorsKept
    BY <1>7, <2>1 DEF RestTyped, CreatorsKept
  <2> QED
    BY <2>1, <2>2 DEF RestTyped
<1>8. ASSUME NEW o \in Owners, DeletePreferredCreator(o)
      PROVE  RestTyped' /\ CreatorsKept
  <2>1. /\ creators' = [creators EXCEPT ![o] = None]
        /\ UNCHANGED <<focus, videos, interactions, rangeVars, ownerVars>>
    BY <1>8 DEF DeletePreferredCreator
  <2>2. CreatorsKept
    BY <1>8, <2>1 DEF RestTyped, CreatorsKept
  <2> QED
    BY <2>1, <2>2 DEF RestTyped
<1>9. ASSUME NEW o \in Owners, NEW time \in Times \cup {WholeTrack}, SendRange(o, time)
      PROVE  RestTyped' /\ CreatorsKept
  BY <1>9 DEF SendRange, RestTyped, CreatorsKept, WholeTrack
<1>10. ASSUME NEW e \in edits, EditLost(e) \/ SavePlaybackRange(e) PROVE RestTyped' /\ CreatorsKept
  <2>1. UNCHANGED <<focus, videos, creators, interactions, ownerVars>> /\ edits' \subseteq edits
    BY <1>10 DEF EditLost, SavePlaybackRange
  <2>2. ranges' \in [Owners -> [time : Times \cup {None}, revision : 0 .. MaxRevision]]
    <3>1. CASE EditLost(e)
      BY <3>1 DEF EditLost, RestTyped
    <3>2. CASE SavePlaybackRange(e)
      <4>1. /\ ranges[e.owner].revision < MaxRevision
            /\ ranges' = [ranges EXCEPT ![e.owner] = [time |-> e.time, revision |-> ranges[e.owner].revision + 1]]
        BY <3>2 DEF SavePlaybackRange
      <4>2. /\ e.owner \in Owners /\ e.time \in Times \cup {None}
            /\ ranges[e.owner].revision + 1 \in 0 .. MaxRevision
        BY <1>0, <4>1 DEF RestTyped
      <4>3. [time |-> e.time, revision |-> ranges[e.owner].revision + 1]
               \in [time : Times \cup {None}, revision : 0 .. MaxRevision]
        BY <4>2
      <4> QED
        BY <4>1, <4>2, <4>3 DEF RestTyped
    <3> QED
      BY <1>10, <3>1, <3>2
  <2> QED
    BY <2>1, <2>2 DEF RestTyped, CreatorsKept
<1> QED
  BY <1>1, <1>2, <1>3, <1>4, <1>5, <1>6, <1>7, <1>8, <1>9, <1>10, RestFrame, Zenon

LibraryInv == FavoriteInv /\ ListInv /\ RestTyped

\* The library starts consistent: empty, or as an installation from before accounts left it.
LEMMA LibraryStart == ASSUME Init PROVE LibraryInv
<1> DEFINE OldRow == [note |-> "text", link |-> 1]
           Start == {[time |-> WholeTrack, revision |-> 0]} \cup [time : Times, revision : {1}]
           RangeRow == [time : Times \cup {None}, revision : 0 .. MaxRevision]
<1>0. 1 \in CandidateIds /\ 0 \in 0 .. MaxRevision /\ 1 \in 0 .. MaxRevision
  BY LibraryAssumption DEF CandidateIds
<1>1. OldRow \in Favorite /\ OldRow.link = 1
  BY <1>0 DEF Favorite, Notes
<1> HIDE DEF OldRow
<1>2. \A b \in Bvids : cand[b] \in {[id |-> 0, live |-> FALSE], [id |-> 1, live |-> TRUE]}
  BY DEF Init
<1>3. cand \in [Bvids -> CandidateRow] /\ \A b \in Bvids : cand[b].live => cand[b].id = 1
  <2>1. {[id |-> 0, live |-> FALSE], [id |-> 1, live |-> TRUE]} \subseteq CandidateRow
    BY <1>0 DEF CandidateRow
  <2>2. cand \in [Bvids -> {[id |-> 0, live |-> FALSE], [id |-> 1, live |-> TRUE]}]
    BY DEF Init
  <2>3. ASSUME NEW b \in Bvids, cand[b].live PROVE cand[b].id = 1
    BY <1>2, <2>3
  <2> QED
    BY <2>1, <2>2, <2>3
<1>4. favorites \in [Owners -> [Bvids -> {None, OldRow}]]
  BY DEF Init, OldRow
<1>5. FavoriteRows
  <2>1. schema \in {"old", "new"} /\ renamed = NoRows
    BY DEF Init
  <2> QED
    BY <1>1, <1>3, <1>4, <2>1 DEF FavoriteRows, NoRows
<1>6. FavoriteLinks
  <2>1. ASSUME NEW o \in Owners, NEW b \in Bvids, favorites[o][b] # None
        PROVE  favorites[o][b] = OldRow /\ cand[b].live
    <3>1. favorites[o][b] \in {None, OldRow}
      BY <1>4
    <3>2. cand[b].live
      BY <2>1 DEF Init
    <3> QED
      BY <2>1, <3>1, <3>2
  <2> QED
    BY <1>1, <1>3, <2>1 DEF FavoriteLinks, Linked
<1>9. CopySource
  <2>1. schema \in {"old", "new"} /\ mode = "local"
    BY DEF Init
  <2>2. \A o \in Owners, b \in Bvids : favorites[o][b] # None => cand[b].live
    BY DEF Init
  <2> QED
    BY <2>1, <2>2 DEF CopySource, Kept
<1>7. ListInv
  <2>1. lists = {} /\ items = {} /\ lastList = 0 /\ lastItem = 0
    BY DEF Init
  <2> QED
    BY <2>1, LibraryAssumption DEF ListInv, ListRows, ItemLinks, ItemsDiffer
<1>8. RestTyped
  <2>1. Start \subseteq RangeRow
    BY <1>0 DEF WholeTrack
  <2>2. ranges \in [Owners -> Start]
    BY DEF Init
  <2> HIDE DEF Start, RangeRow
  <2>3. ranges \in [Owners -> RangeRow]
    BY <2>1, <2>2
  <2>4. creators \in [Owners -> Notes \cup {None}]
    <3>1. creators \in [Owners -> {None, ""}]
      BY DEF Init
    <3> QED
      BY <3>1 DEF Notes
  <2>5. focus \in Tables /\ videos \subseteq Bvids
    <3>1. focus \in Tables /\ videos \in IF focus \in {"playlists", "favorites"} THEN {Bvids} ELSE {{b} : b \in Bvids}
      BY DEF Init
    <3> QED
      BY <3>1
  <2>6. mode = "local" /\ target = None /\ edits = {} /\ interactions \in [Owners -> [Bvids -> Nat]]
    BY DEF Init
  <2> QED
    BY <2>3, <2>4, <2>5, <2>6 DEF RestTyped, RangeRow
<1> QED
  BY <1>5, <1>6, <1>7, <1>8, <1>9 DEF LibraryInv, FavoriteInv

\* Links, lists, items and places stay consistent through removals, restores, migration,
\* and the rebuilding of the favourites, for any number of owners, videos and lists.
THEOREM LibraryStaysConsistent == Spec => []LibraryConsistent
<1>1. Init => LibraryInv
  BY LibraryStart
<1>2. LibraryInv /\ [Next]_vars => LibraryInv'
  BY FavoriteStep, ListStep, RestStep DEF LibraryInv
<1>3. ASSUME LibraryInv, ReceiptsTell PROVE LibraryConsistent
  <2>1. TypeOK
    BY <1>3 DEF LibraryInv, FavoriteInv, FavoriteRows, CandidateRow, ListInv, ListRows, Item, RestTyped,
       ReceiptsTell, Made, TypeOK
  <2>2. ASSUME NEW b \in Bvids, NEW link, Linked(link, b)
        PROVE  link \in {0} \cup (IF cand[b].live THEN {cand[b].id} ELSE {})
    BY <2>2 DEF Linked
  <2>3. ASSUME NEW i \in items
        PROVE  /\ i.link \in {0} \cup (IF cand[i.bvid].live THEN {cand[i.bvid].id} ELSE {})
               /\ i.list \in {l.id : l \in lists}
    BY <1>3, <2>2 DEF LibraryInv, ListInv, ListRows, ItemLinks, Item
  <2> QED
    BY <1>3, <2>1, <2>2, <2>3 DEF LibraryInv, FavoriteInv, FavoriteLinks, ListInv, ItemsDiffer, LibraryConsistent
<1>4. Spec => []ReceiptsTell
  BY ReceiptsAreKept
<1> QED
  BY <1>1, <1>2, <1>3, <1>4, PTL DEF Spec

\* What an owner keeps changes only by a request of that owner, each step of the rebuilding
\* of the favourites keeps them all, and the legacy library goes to one account, once; what a
\* stop in the middle of the rebuilding leaves behind is counted out (UpgradeComplete).
THEOREM LibrariesAreKept == Spec => LibraryKept
<1>1. Init => LibraryInv
  BY LibraryStart
<1>2. LibraryInv /\ [Next]_vars => LibraryInv'
  BY FavoriteStep, ListStep, RestStep DEF LibraryInv
<1>3. LibraryInv /\ [Next]_vars => FavoritesKept /\ CreatorsKept /\ ItemsKept /\ OrderKept /\ ListsKept
  BY FavoriteStep, ListStep, RestStep DEF LibraryInv, Keeps
<1> QED
  BY <1>1, <1>2, <1>3, PTL DEF Spec, LibraryKept
=============================================================================
