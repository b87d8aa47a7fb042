------------------------------- MODULE Player -------------------------------
(***************************************************************************)
(* The player of one browser tab (components/PlayerDock.tsx with           *)
(* lib/clientPlayback.ts, playback.ts, playbackRange.ts, playbackBoundary  *)
(* .ts): its queue, the request that prepares the current item, the audio  *)
(* element, the press on "play" that first asks for the latest range, and  *)
(* the account whose queue it shows.                                       *)
(*                                                                         *)
(* Handlers run one after the other; what interleaves are their awaits.    *)
(* What local storage holds is any queue up to the limit (other tabs write *)
(* it too), times and volumes are left out, and a range is known only by   *)
(* its item.                                                               *)
(***************************************************************************)
EXTENDS Integers, Sequences, FiniteSets, SequencesExt

CONSTANTS
    Items,        \* candidates, by their id
    Accounts,     \* owners of a library
    Modes,        \* the playback modes in use
    QueueLimit,   \* 200
    None

ASSUME PlayerAssumption ==
    /\ IsFiniteSet(Items) /\ None \notin Items \cup Accounts
    /\ "sequence" \in Modes /\ Modes \subseteq {"sequence", "list_loop", "single_loop", "shuffle"}
    /\ QueueLimit \in Nat \ {0}

VARIABLES
    account,      \* restoredOwner: whose queue is shown, None until the first status
    waiting,      \* the newest press that still awaits ensureClientAccount
    queue, index, \* the queue and its current position, 0 for none
    mode,         \* playbackMode
    requests,     \* loops of waitForPreparedTrack: item, and whether its signal is not aborted
    track,        \* the track on screen: item and status
    range,        \* the item whose playback range is in force
    autoPlay,     \* autoPlayRef
    busy,         \* busy
    audio,        \* the audio element: item of its resource, and whether metadata is loaded
    sounding,     \* it plays
    isPlaying,    \* the button says so
    resumes,      \* presses on "play" that have asked for the range: of which item, and
                  \* whether the player has left it since
    download,     \* the item a download is being prepared for
    \* history variables, which no guard reads
    chosen,       \* the item that was last asked to be played, None when none is left
    cutOff,       \* the end of the queue was cut in front of the current position since
    overridden    \* the answer to a press that was left took effect since

queueVars == <<queue, index, cutOff>>
screenVars == <<track, range, autoPlay, busy, chosen>>
audioVars == <<audio, sounding, isPlaying>>
resumeVars == <<resumes, overridden>>
vars == <<account, waiting, queueVars, mode, requests, screenVars, audioVars, resumeVars, download>>

\* normalizeItems: no candidate twice, and no more than the limit.
Queues == {q \in SeqOf(Items, QueueLimit) : IsInjective(q)}
Tracks == [item : Items, status : {"preparing", "ready", "failed"}]
Presses == [items : Queues \ {<<>>}, whole : BOOLEAN]     \* a playlist, or one candidate
Resources == [item : Items, loaded : BOOLEAN]

ASSUME NullAssumption == None \notin Presses \cup Resources

TypeOK ==
    /\ account \in Accounts \cup {None}
    /\ waiting \in Presses \cup {None}
    /\ queue \in Seq(Items) /\ IsInjective(queue) /\ index \in Nat
    /\ mode \in Modes
    /\ requests \subseteq [item : Items, live : BOOLEAN]
    /\ track \in Tracks \cup {None}
    /\ range \in Items \cup {None}
    /\ {autoPlay, busy, sounding, isPlaying, cutOff, overridden} \subseteq BOOLEAN
    /\ audio \in Resources \cup {None}
    /\ resumes \subseteq [item : Items, left : BOOLEAN]
    /\ chosen \in Items \cup {None}
    /\ download \in Items \cup {None}

Init ==
    /\ account = None /\ waiting = None
    /\ queue = <<>> /\ index = 0
    /\ mode = "sequence"
    /\ requests = {} /\ resumes = {} /\ download = None
    /\ track = None /\ range = None
    /\ autoPlay = FALSE /\ busy = FALSE
    /\ audio = None /\ sounding = FALSE /\ isPlaying = FALSE
    /\ chosen = None /\ cutOff = FALSE /\ overridden = FALSE

-----------------------------------------------------------------------------
(* Where to go next: the set of positions, empty for null                  *)

\* normalizeIndex: the positions a stored index can be turned into.
Positions(q) == IF q = <<>> THEN {0} ELSE 1 .. Len(q)

Position(q, i) == CHOOSE k \in 1 .. Len(q) : q[k] = i

\* currentItem, which is undefined for a position behind the end.
Current == IF index \in 1 .. Len(queue) THEN queue[index] ELSE None

RandomIndex(i, n) == IF n <= 1 THEN {i} ELSE (1 .. n) \ {i}

NextOnEnded(i, n) ==
    IF i \notin 1 .. n THEN {}
    ELSE IF mode = "single_loop" THEN {i}
    ELSE IF mode = "shuffle" THEN RandomIndex(i, n)
    ELSE IF i < n THEN {i + 1}
    ELSE IF mode = "list_loop" THEN {1} ELSE {}

NextOnManual(i, n, step) ==
    IF i \notin 1 .. n THEN {}
    ELSE IF mode = "shuffle" /\ n > 1 THEN RandomIndex(i, n)
    ELSE IF i + step \in 1 .. n THEN {i + step}
    ELSE IF mode = "list_loop" THEN IF step = 1 THEN {1} ELSE {n}
    ELSE {}

-----------------------------------------------------------------------------
(* What handlers share                                                     *)

\* Mutant: a new request does not abort the one before.
AbortsNothing == requests

\* playRequestRef.current?.abort()
Aborted == {[r EXCEPT !.live = FALSE] : r \in requests}

Silent == sounding' = FALSE /\ isPlaying' = FALSE

\* Mutant: the range of the item that was left stays in force.
KeepsRange == track' = None /\ UNCHANGED range

\* The screen without a track.
Blank == track' = None /\ range' = None

\* Nobody aborts the questions for the range that are still open.
Left == {[r EXCEPT !.left = TRUE] : r \in resumes}

\* prepareAndPlay up to its first await; the old resource stays in the element.
PrepareAndPlay(i) ==
    /\ requests' = Aborted \cup {[item |-> i, live |-> TRUE]}
    /\ Blank /\ Silent
    /\ autoPlay' = TRUE /\ busy' = TRUE
    /\ resumes' = Left
    /\ chosen' = i /\ overridden' = FALSE
    /\ UNCHANGED audio

\* playAt and the tails of the handlers of presses.
PlayAt(q, k) ==
    /\ queue' = q /\ index' = k /\ cutOff' = FALSE
    /\ PrepareAndPlay(q[k])

\* A press takes effect: one candidate is appended unless it is there, to a full queue
\* too; a playlist replaces the queue and starts with its first item, or with any when
\* shuffled.
TakeEffect(press, q, m) ==
    IF press.whole
    THEN \E k \in 1 .. Len(press.items) :
            /\ PlayAt(press.items, k)
            /\ mode' \in IF k = 1 THEN {"sequence", "shuffle"} \cap Modes ELSE {"shuffle"} \cap Modes
    ELSE LET i == press.items[1]
             full == IF i \in Range(q) THEN q ELSE Append(q, i)
         IN  PlayAt(full, Position(full, i)) /\ mode' = m

\* A new source in the element: what it played stops without a pause event.
Load(i) ==
    /\ audio' = [item |-> i, loaded |-> FALSE]
    /\ sounding' = FALSE
    /\ UNCHANGED isPlaying

\* The range of the item changes; only another media fragment reloads the element.
ApplyRange(i) ==
    /\ range' = i
    /\ \/ UNCHANGED audioVars
       \/ track # None /\ track.status = "ready" /\ Load(track.item)

-----------------------------------------------------------------------------
(* Accounts                                                                *)

\* The first status arrives: the stored queue, then the press that waited for it.
FirstStatus(a) ==
    /\ account = None
    /\ account' = a
    /\ waiting' = None
    /\ \E q \in Queues, m \in Modes :
          IF waiting = None
          THEN /\ queue' = q /\ index' \in Positions(q) /\ cutOff' = FALSE /\ mode' = m
               /\ UNCHANGED <<requests, screenVars, audioVars, resumeVars>>
          ELSE TakeEffect(waiting, q, m)
    /\ UNCHANGED download

\* The status cannot be read: the presses that waited for it are dropped.
StatusFails ==
    /\ account = None /\ waiting # None
    /\ waiting' = None
    /\ UNCHANGED <<account, queueVars, mode, requests, screenVars, audioVars, resumeVars, download>>

\* The listeners are replaced when another strategy is chosen.
ChooseStrategy ==
    /\ account = None /\ waiting # None
    /\ waiting' = None
    /\ UNCHANGED <<account, queueVars, mode, requests, screenVars, audioVars, resumeVars, download>>

\* Another session of the same owner, or the login panel announces a change: the
\* answers under way are refused by accountFetch.
SessionChanges ==
    /\ account # None
    /\ requests' = Aborted
    /\ Blank /\ Silent
    /\ autoPlay' = FALSE /\ busy' = FALSE
    /\ resumes' = {}
    /\ chosen' = None /\ overridden' = FALSE
    /\ UNCHANGED <<account, waiting, queueVars, mode, audio, download>>

\* Another owner: restore, then the same.
OwnerChanges(a) ==
    /\ account # None /\ a # account
    /\ account' = a
    /\ queue' \in Queues /\ index' \in Positions(queue') /\ mode' \in Modes
    /\ requests' = Aborted
    /\ Blank /\ Silent
    /\ autoPlay' = FALSE /\ busy' = FALSE
    /\ resumes' = {} /\ download' = None
    /\ chosen' = None /\ cutOff' = FALSE /\ overridden' = FALSE
    /\ UNCHANGED <<waiting, audio>>

-----------------------------------------------------------------------------
(* Presses                                                                 *)

\* "play" on a candidate anywhere, or on an item of the history.
Press(press) ==
    /\ IF account = None
       THEN /\ waiting' = press
            /\ UNCHANGED <<queueVars, mode, requests, screenVars, audioVars, resumeVars>>
       ELSE /\ TakeEffect(press, queue, mode)
            /\ UNCHANGED waiting
    /\ UNCHANGED <<account, download>>

\* The items that are not in the queue, in the order of the list.
NotQueued(items) ==
    {added \in Queues :
        /\ Range(added) = Range(items) \ Range(queue)
        /\ \A i, j \in DOMAIN added : i < j => Position(items, added[i]) < Position(items, added[j])}

\* slice(0, 200)
Cut(q) == SubSeq(q, 1, IF Len(q) < QueueLimit THEN Len(q) ELSE QueueLimit)

\* A playlist is appended to the queue, which is then cut, behind the current position
\* or in front of it; that stays.
AppendList(items) ==
    /\ account # None
    /\ \E added \in NotQueued(items) : queue' = Cut(queue \o added)
    /\ index' = IF index = 0 THEN 1 ELSE index
    /\ cutOff' = (cutOff \/ index > Len(queue'))
    /\ UNCHANGED <<account, waiting, mode, requests, screenVars, audioVars, resumeVars, download>>

\* An item of the queue, or the next or previous one.
SelectItem(k) ==
    /\ PlayAt(queue, k)
    /\ UNCHANGED <<account, waiting, mode, download>>

PlayRelative(step) == \E k \in NextOnManual(index, Len(queue), step) : SelectItem(k)

\* Removing an item before the current one moves that up; the item that takes the
\* place of a removed current one is played.
RemoveItem(k) ==
    /\ LET next == RemoveAt(queue, k)
       IN  /\ next # <<>>
           /\ CASE k < index ->
                      /\ queue' = next /\ index' = index - 1
                      /\ UNCHANGED <<cutOff, requests, screenVars, audioVars, resumeVars>>
                [] k = index ->
                      PlayAt(next, IF index < Len(next) THEN index ELSE Len(next))
                [] OTHER ->
                      /\ queue' = next
                      /\ UNCHANGED <<index, cutOff, requests, screenVars, audioVars, resumeVars>>
    /\ UNCHANGED <<account, waiting, mode, download>>

\* "clear", or the last item is removed.
ClearQueue ==
    /\ queue # <<>>
    /\ queue' = <<>> /\ index' = 0 /\ cutOff' = FALSE
    /\ requests' = Aborted
    /\ Blank /\ Silent
    /\ autoPlay' = FALSE /\ busy' = FALSE
    /\ resumes' = Left
    /\ chosen' = None /\ overridden' = FALSE
    /\ UNCHANGED <<account, waiting, mode, audio, download>>

NextMode ==
    /\ mode' \in Modes \ {mode}
    /\ UNCHANGED <<account, waiting, queueVars, requests, screenVars, audioVars, resumeVars, download>>

\* togglePlay up to its first await.
TogglePlay ==
    /\ ~busy /\ {Current, track} # {None}
    /\ CASE isPlaying ->
                /\ Silent
                /\ UNCHANGED <<queueVars, requests, screenVars, audio, resumeVars>>
         [] ~isPlaying /\ track # None /\ track.status = "ready" ->
                /\ resumes' = resumes \cup {[item |-> track.item, left |-> FALSE]}
                /\ UNCHANGED <<queueVars, requests, screenVars, audioVars, overridden>>
         [] OTHER ->
                Current # None /\ PlayAt(queue, index)
    /\ UNCHANGED <<account, waiting, mode, download>>

\* Its answer.  Nobody aborts it and it does not look at what is current now: the
\* bounds are checked against the element, another revision is put in force, the
\* same one resumes the element.
ResumeAnswered(r) ==
    /\ r \in resumes
    /\ resumes' = resumes \ {r}
    /\ \/ UNCHANGED <<autoPlay, range, audioVars, overridden>>     \* no answer, or invalid bounds
       \/ /\ autoPlay' = TRUE /\ ApplyRange(r.item)
          /\ overridden' = (overridden \/ r.left)
       \/ /\ audio # None
          /\ sounding' = TRUE /\ isPlaying' = TRUE
          /\ overridden' = (overridden \/ r.left)
          /\ UNCHANGED <<autoPlay, range, audio>>
    /\ UNCHANGED <<account, waiting, queueVars, mode, requests, track, busy, chosen, download>>

-----------------------------------------------------------------------------
(* Answers                                                                 *)

\* Mutant: an aborted loop still publishes what it received.
PublishesAlways(r) == TRUE

\* signal.throwIfAborted() before every update.
Publishes(r) == r.live

\* Mutant: busy is not cleared in the finally clause.
EndsBusy(r) == requests' = requests \ {r} /\ UNCHANGED busy

\* finally: only the request that is still playRequestRef.current clears busy; the
\* handlers that abort without a successor have cleared it themselves.
Ends(r) ==
    /\ requests' = requests \ {r}
    /\ busy' = IF r.live THEN FALSE ELSE busy

\* The track is still being prepared: published, and asked again later.
StillPreparing(r) ==
    /\ r \in requests
    /\ IF Publishes(r)
       THEN /\ track' = [item |-> r.item, status |-> "preparing"] /\ range' = r.item
            /\ UNCHANGED <<requests, busy>>
       ELSE Ends(r) /\ UNCHANGED <<track, range>>
    /\ UNCHANGED <<account, waiting, queueVars, mode, autoPlay, chosen, audioVars, resumeVars, download>>

\* The track is ready: the element loads its stream.
Ready(r) ==
    /\ r \in requests
    /\ Ends(r)
    /\ IF Publishes(r)
       THEN /\ track' = [item |-> r.item, status |-> "ready"] /\ range' = r.item
            /\ Load(r.item)
            /\ overridden' = FALSE
       ELSE UNCHANGED <<track, range, audioVars, overridden>>
    /\ UNCHANGED <<account, waiting, queueVars, mode, autoPlay, chosen, resumes, download>>

\* A failed or expired track, an error or the time limit of five minutes.
Fails(r) ==
    /\ r \in requests
    /\ Ends(r)
    /\ autoPlay' = IF r.live THEN FALSE ELSE autoPlay
    /\ \/ UNCHANGED <<track, range>>
       \/ /\ Publishes(r)
          /\ track' = [item |-> r.item, status |-> "failed"] /\ range' = r.item
    /\ UNCHANGED <<account, waiting, queueVars, mode, chosen, audioVars, resumeVars, download>>

\* The five second refresh of the current item found another revision; it is aborted
\* with its item or account.
RangeRefreshed ==
    /\ account # None /\ Current # None
    /\ ApplyRange(Current)
    /\ UNCHANGED <<account, waiting, queueVars, mode, requests, track, autoPlay, busy, chosen,
                   resumeVars, download>>

\* The range editor of the item saved: playback stops.
RangeSaved ==
    /\ range # None /\ range = Current /\ ~busy
    /\ autoPlay' = FALSE
    /\ isPlaying' = FALSE /\ sounding' = FALSE
    /\ \/ UNCHANGED audio
       \/ /\ track # None /\ track.status = "ready"
          /\ audio' = [item |-> track.item, loaded |-> FALSE]
    /\ UNCHANGED <<account, waiting, queueVars, mode, requests, track, range, busy, chosen,
                   resumeVars, download>>

-----------------------------------------------------------------------------
(* The audio element                                                       *)

\* Mutant: whatever has loaded is played.
MayStartAlways == TRUE

\* The element shows the track on screen: a switch empties the screen at once.
MayStart == track # None /\ track.status = "ready"

\* loadedmetadata: start when a press asked for it, unless the range starts behind
\* the end; the browser may refuse to play.
LoadedMetadata ==
    /\ audio # None /\ ~audio.loaded
    /\ audio' = [audio EXCEPT !.loaded = TRUE]
    /\ \/ autoPlay' = FALSE /\ Silent                       \* invalid bounds
       \/ /\ autoPlay /\ MayStart
          /\ autoPlay' = FALSE
          /\ \/ sounding' = TRUE /\ isPlaying' = TRUE
             \/ UNCHANGED <<sounding, isPlaying>>
       \/ ~(autoPlay /\ MayStart) /\ UNCHANGED <<autoPlay, sounding, isPlaying>>
    /\ UNCHANGED <<account, waiting, queueVars, mode, requests, track, range, busy, chosen,
                   resumeVars, download>>

\* The end of the range, by the boundary timer or by the end of the media.
BoundaryStops ==
    /\ sounding /\ range # None
    /\ Silent
    /\ autoPlay' = FALSE
    /\ UNCHANGED <<account, waiting, queueVars, mode, requests, track, range, busy, chosen,
                   audio, resumeVars, download>>

\* The end of the media without an end in the range.
Ended ==
    /\ sounding
    /\ LET next == NextOnEnded(index, Len(queue))
       IN  \/ \E k \in next : PlayAt(queue, k)
           \/ next = {} /\ Silent /\ UNCHANGED <<queueVars, requests, screenVars, audio, resumeVars>>
    /\ UNCHANGED <<account, waiting, mode, download>>

-----------------------------------------------------------------------------
(* Downloads                                                               *)

\* One at a time; the download of a finished track is the browser's business.
StartDownload(i) ==
    /\ account # None
    /\ download = None
    /\ download' = i
    /\ UNCHANGED <<account, waiting, queueVars, mode, requests, screenVars, audioVars, resumeVars>>

EndDownload ==
    /\ download # None
    /\ download' = None
    /\ UNCHANGED <<account, waiting, queueVars, mode, requests, screenVars, audioVars, resumeVars>>

-----------------------------------------------------------------------------

User ==
    \/ \E press \in Presses : (press.whole \/ Len(press.items) = 1) /\ Press(press)
    \/ \E items \in Queues \ {<<>>} : AppendList(items)
    \/ \E k \in 1 .. Len(queue) : SelectItem(k) \/ RemoveItem(k)
    \/ \E step \in {-1, 1} : PlayRelative(step)
    \/ ClearQueue \/ NextMode \/ TogglePlay \/ RangeSaved \/ ChooseStrategy
    \/ \E i \in Items : StartDownload(i)

Answers ==
    \/ \E r \in requests : StillPreparing(r) \/ Ready(r) \/ Fails(r)
    \/ \E r \in resumes : ResumeAnswered(r)
    \/ RangeRefreshed \/ EndDownload

Account == \/ StatusFails \/ SessionChanges
           \/ \E a \in Accounts : FirstStatus(a) \/ OwnerChanges(a)

Element == LoadedMetadata \/ BoundaryStops \/ Ended

Next == User \/ Answers \/ Account \/ Element

Spec == Init /\ [][Next]_vars

\* A loop ends with an answer or with its time limit.
Settle == \E r \in requests : r.live /\ (Ready(r) \/ Fails(r))

FairSpec == Spec /\ WF_vars(Settle)

-----------------------------------------------------------------------------
(* Properties                                                              *)

\* The screen is of one piece.  The track shown and the request under way are of the item
\* that was last asked to be played, also when answers for earlier items and accounts come
\* late; that item is the one at the current position, unless appending a playlist has cut
\* it off the queue; and the player is busy exactly while the request is under way.
ScreenIsConsistent ==
    /\ TypeOK
    /\ track # None => track.item = chosen
    /\ \A r \in requests : r.live => r.item = chosen
    /\ busy <=> \E r \in requests : r.live
    /\ ~cutOff => index \in Positions(queue) /\ chosen \in {None, Current}

\* PROJECT_POLISH.md: a switch of items cancels the requests of the one before, and an
\* old response does not override the current item, here its playback range.
RangeIsCurrent == range # None => range = Current

\* What sounds is the item that was last asked to be played, and the range in force is that
\* of the current item, until the answer to a press that the player had left takes effect
\* or the current item is cut off the queue.  Whatever happens, the button of a player that
\* sounds offers to pause it.
SoundIsCurrent ==
    /\ sounding => isPlaying
    /\ ~overridden => (sounding => audio.item = chosen)
    /\ ~overridden /\ ~cutOff => RangeIsCurrent

\* README.md: "append a playlist to the queue"; PlayerDock.tsx: "added ... to the queue (at
\* most 200)".  What the queue held before stays in it, the current item included.
AppendingKeepsQueue ==
    [][\A items \in Queues : AppendList(items) => IsPrefix(queue, queue')]_vars

\* Unless new requests keep coming the player does not stay busy, whatever fails.
PressesSettle == []<>(~busy) \/ []<><<requests' \ requests # {}>>_vars
=============================================================================
