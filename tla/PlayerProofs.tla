----------------------------- MODULE PlayerProofs -----------------------------
(* Theorems about the player, for any candidates, accounts and queue limit.  *)
EXTENDS Player, SequenceTheorems, TLAPS

-----------------------------------------------------------------------------
(* Queues hold no candidate twice, whatever is added or taken away         *)

Queue(q) == q \in Seq(Items) /\ IsInjective(q)

\* A stored queue, or a playlist, is a queue.
LEMMA QueuesAreQueues ==
    ASSUME NEW q \in Queues
    PROVE  Queue(q)
<1>1. q \in SeqOf(Items, QueueLimit) /\ IsInjective(q)
  BY DEF Queues
<1>2. PICK n \in 0 .. QueueLimit : q \in [1 .. n -> Items]
  BY <1>1 DEF SeqOf
<1>3. n \in Nat
  BY PlayerAssumption
<1>4. q \in Seq(Items)
  BY <1>2, <1>3
<1> QED
  BY <1>1, <1>4 DEF Queue

\* One candidate at the end.
LEMMA Appended ==
    ASSUME NEW q, Queue(q), NEW i \in Items, i \notin Range(q)
    PROVE  Queue(Append(q, i)) /\ Len(Append(q, i)) = Len(q) + 1 /\ Append(q, i)[Len(q) + 1] = i
<1>1. q \in Seq(Items) /\ Len(q) \in Nat /\ DOMAIN q = 1 .. Len(q)
  BY LenProperties DEF Queue
<1>2. /\ Append(q, i) \in Seq(Items) /\ Len(Append(q, i)) = Len(q) + 1
      /\ DOMAIN Append(q, i) = 1 .. Len(q) + 1
      /\ \A k \in 1 .. Len(q) : Append(q, i)[k] = q[k]
      /\ Append(q, i)[Len(q) + 1] = i
  BY <1>1
<1>3. \A k \in 1 .. Len(q) : q[k] # i
  BY <1>1 DEF Range
<1>4. \A k, m \in 1 .. Len(q) : q[k] = q[m] => k = m
  BY <1>1 DEF Queue, IsInjective
<1>5. IsInjective(Append(q, i))
  <2>1. ASSUME NEW k \in 1 .. Len(q) + 1, NEW m \in 1 .. Len(q) + 1, Append(q, i)[k] = Append(q, i)[m]
        PROVE  k = m
    <3>1. k \in 1 .. Len(q) \/ k = Len(q) + 1
      BY <1>1
    <3>2. m \in 1 .. Len(q) \/ m = Len(q) + 1
      BY <1>1
    <3> QED
      BY <1>2, <1>3, <1>4, <2>1, <3>1, <3>2
  <2> QED
    BY <1>2, <2>1 DEF IsInjective
<1> QED
  BY <1>2, <1>5 DEF Queue

\* One candidate taken out: those behind it move up.
LEMMA Removed ==
    ASSUME NEW q, Queue(q), NEW k \in 1 .. Len(q)
    PROVE  /\ Queue(RemoveAt(q, k)) /\ Len(RemoveAt(q, k)) = Len(q) - 1
           /\ \A j \in 1 .. Len(q) - 1 : RemoveAt(q, k)[j] = IF j < k THEN q[j] ELSE q[j + 1]
<1> DEFINE front == SubSeq(q, 1, k - 1)
           back == SubSeq(q, k + 1, Len(q))
           next == RemoveAt(q, k)
<1>1. q \in Seq(Items) /\ Len(q) \in Nat /\ k \in Nat /\ 1 <= k /\ k <= Len(q)
  BY LenProperties DEF Queue
<1>2. \A j \in 1 .. Len(q) : q[j] \in Items
  BY <1>1, ElementOfSeq
<1>3. front \in Seq(Items) /\ Len(front) = k - 1 /\ \A j \in 1 .. k - 1 : front[j] = q[j]
  <2>1. \A j \in 1 .. k - 1 : q[j] \in Items
    BY <1>1, <1>2
  <2>2. /\ front \in Seq(Items) /\ Len(front) = IF 1 <= k - 1 THEN k - 1 - 1 + 1 ELSE 0
        /\ \A j \in 1 .. k - 1 - 1 + 1 : front[j] = q[1 + j - 1]
    BY <1>1, <2>1, SubSeqProperties
  <2> QED
    BY <1>1, <2>2
<1>4. back \in Seq(Items) /\ Len(back) = Len(q) - k /\ \A j \in 1 .. Len(q) - k : back[j] = q[k + j]
  <2>1. \A j \in k + 1 .. Len(q) : q[j] \in Items
    BY <1>1, <1>2
  <2>2. /\ back \in Seq(Items) /\ Len(back) = IF k + 1 <= Len(q) THEN Len(q) - (k + 1) + 1 ELSE 0
        /\ \A j \in 1 .. Len(q) - (k + 1) + 1 : back[j] = q[k + 1 + j - 1]
    BY <1>1, <2>1, SubSeqProperties
  <2> QED
    BY <1>1, <2>2
<1>5. next = front \o back
  BY DEF RemoveAt
<1> HIDE DEF front, back, next
<1>6. /\ next \in Seq(Items) /\ Len(next) = Len(q) - 1
      /\ \A j \in 1 .. Len(q) - 1 : next[j] = IF j <= k - 1 THEN front[j] ELSE back[j - (k - 1)]
  <2>1. /\ next \in Seq(Items) /\ Len(next) = Len(front) + Len(back)
        /\ \A j \in 1 .. Len(front) + Len(back) :
              next[j] = IF j <= Len(front) THEN front[j] ELSE back[j - Len(front)]
    BY <1>3, <1>4, <1>5, ConcatProperties
  <2>2. Len(front) = k - 1 /\ Len(front) + Len(back) = Len(q) - 1
    BY <1>1, <1>3, <1>4
  <2> QED
    BY <2>1, <2>2
<1>7. \A j \in 1 .. Len(q) - 1 : next[j] = IF j < k THEN q[j] ELSE q[j + 1]
  <2>1. ASSUME NEW j \in 1 .. Len(q) - 1 PROVE next[j] = IF j < k THEN q[j] ELSE q[j + 1]
    <3>1. CASE j < k
      <4>1. j \in 1 .. k - 1 /\ j <= k - 1
        BY <1>1, <3>1
      <4>2. next[j] = front[j]
        BY <1>6, <4>1
      <4> QED
        BY <1>3, <3>1, <4>1, <4>2
    <3>2. CASE ~(j < k)
      <4>1. next[j] = back[j - (k - 1)]
        <5>1. ~(j <= k - 1)
          BY <1>1, <3>2
        <5> QED
          BY <1>6, <5>1
      <4>2. j - (k - 1) \in 1 .. Len(q) - k /\ k + (j - (k - 1)) = j + 1
        BY <1>1, <3>2
      <4> QED
        BY <1>4, <3>2, <4>1, <4>2
    <3> QED
      BY <3>1, <3>2
  <2> QED
    BY <2>1
<1>8. IsInjective(next)
  <2>1. DOMAIN next = 1 .. Len(q) - 1
    BY <1>6, LenProperties
  <2>2. \A j, m \in 1 .. Len(q) : q[j] = q[m] => j = m
    BY <1>1, LenProperties DEF Queue, IsInjective
  <2>3. ASSUME NEW j \in 1 .. Len(q) - 1, NEW m \in 1 .. Len(q) - 1, next[j] = next[m] PROVE j = m
    <3>1. j \in 1 .. Len(q) /\ j + 1 \in 1 .. Len(q) /\ m \in 1 .. Len(q) /\ m + 1 \in 1 .. Len(q)
      BY <1>1
    <3> QED
      BY <1>1, <1>7, <2>2, <2>3, <3>1
  <2> QED
    BY <2>1, <2>3 DEF IsInjective
<1> QED
  BY <1>6, <1>7, <1>8 DEF Queue, next

\* Others at the end, as far as the limit allows; what is not cut off stays where it was.
LEMMA Extended ==
    ASSUME NEW q, Queue(q), NEW more \in Queues, Range(more) \cap Range(q) = {}
    PROVE  /\ Queue(Cut(q \o more))
           /\ \A j \in 1 .. Len(q) : j <= Len(Cut(q \o more)) => Cut(q \o more)[j] = q[j]
           /\ more # <<>> => Cut(q \o more) # <<>>
<1> DEFINE all == q \o more
           n == IF Len(all) < QueueLimit THEN Len(all) ELSE QueueLimit
           cut == SubSeq(all, 1, n)
<1>0. QueueLimit \in Nat /\ QueueLimit >= 1
  BY PlayerAssumption
<1>1. q \in Seq(Items) /\ Len(q) \in Nat /\ DOMAIN q = 1 .. Len(q)
  BY LenProperties DEF Queue
<1>2. Queue(more) /\ more \in Seq(Items) /\ Len(more) \in Nat /\ DOMAIN more = 1 .. Len(more)
  BY QueuesAreQueues, LenProperties DEF Queue
<1>3. /\ all \in Seq(Items) /\ Len(all) = Len(q) + Len(more)
      /\ \A i \in 1 .. Len(q) + Len(more) : all[i] = IF i <= Len(q) THEN q[i] ELSE more[i - Len(q)]
  BY <1>1, <1>2, ConcatProperties
<1>4. \A i, j \in 1 .. Len(all) : all[i] = all[j] => i = j
  <2>1. ASSUME NEW i \in 1 .. Len(q), NEW j \in 1 .. Len(more) PROVE q[i] # more[j]
    BY <1>1, <1>2 DEF Range
  <2>2. \A i, j \in 1 .. Len(q) : q[i] = q[j] => i = j
    BY <1>1 DEF Queue, IsInjective
  <2>3. \A i, j \in 1 .. Len(more) : more[i] = more[j] => i = j
    BY <1>2 DEF Queue, IsInjective
  <2>4. ASSUME NEW i \in 1 .. Len(all), NEW j \in 1 .. Len(all), all[i] = all[j] PROVE i = j
    <3>1. \/ i \in 1 .. Len(q) /\ all[i] = q[i]
          \/ i - Len(q) \in 1 .. Len(more) /\ all[i] = more[i - Len(q)]
      <4>1. i \in 1 .. Len(q) + Len(more)
        BY <1>3
      <4>2. CASE i <= Len(q)
        BY <1>1, <1>2, <1>3, <4>1, <4>2
      <4>3. CASE ~(i <= Len(q))
        BY <1>1, <1>2, <1>3, <4>1, <4>3
      <4> QED
        BY <4>2, <4>3
    <3>2. \/ j \in 1 .. Len(q) /\ all[j] = q[j]
          \/ j - Len(q) \in 1 .. Len(more) /\ all[j] = more[j - Len(q)]
      <4>1. j \in 1 .. Len(q) + Len(more)
        BY <1>3
      <4>2. CASE j <= Len(q)
        BY <1>1, <1>2, <1>3, <4>1, <4>2
      <4>3. CASE ~(j <= Len(q))
        BY <1>1, <1>2, <1>3, <4>1, <4>3
      <4> QED
        BY <4>2, <4>3
    <3>3. i - Len(q) = j - Len(q) => i = j
      BY <1>1, <1>2, <1>3
    <3> QED
      BY <2>1, <2>2, <2>3, <2>4, <3>1, <3>2, <3>3
  <2> QED
    BY <2>4
<1> HIDE DEF all
<1>5. n \in Nat /\ n <= Len(all) /\ (Len(more) > 0 => n > 0)
  BY <1>0, <1>1, <1>2, <1>3
<1> HIDE DEF n
<1>6. cut \in Seq(Items) /\ Len(cut) = n /\ \A i \in 1 .. n : cut[i] = all[i]
  <2>1. \A i \in 1 .. n : all[i] \in Items
    BY <1>2, <1>1, <1>3, <1>5, ElementOfSeq
  <2>2. /\ cut \in Seq(Items) /\ Len(cut) = IF 1 <= n THEN n - 1 + 1 ELSE 0
        /\ \A i \in 1 .. n - 1 + 1 : cut[i] = all[1 + i - 1]
    BY <1>5, <2>1, SubSeqProperties
  <2> QED
    BY <1>5, <2>2
<1>7. Cut(all) = cut
  BY DEF Cut, n
<1> HIDE DEF cut
<1>8. IsInjective(cut)
  <2>1. DOMAIN cut = 1 .. n
    BY <1>6, LenProperties
  <2> QED
    BY <1>3, <1>4, <1>5, <1>6, <1>1, <1>2, <2>1 DEF IsInjective
<1>9. more # <<>> => cut # <<>>
  BY <1>2, <1>5, <1>6, EmptySeq
<1>10. \A j \in 1 .. Len(q) : j <= n => cut[j] = q[j]
  BY <1>1, <1>2, <1>3, <1>5, <1>6
<1> QED
  BY <1>6, <1>7, <1>8, <1>9, <1>10 DEF Queue, all
-----------------------------------------------------------------------------
(* The screen, whenever answers come                                       *)

Requests == [item : Items, live : BOOLEAN]
Resumes == [item : Items, left : BOOLEAN]
MayWait == {press \in Presses : press.whole \/ Len(press.items) = 1}

TypeInv ==
    /\ account \in Accounts \cup {None}
    /\ waiting \in MayWait \cup {None}
    /\ mode \in Modes
    /\ requests \subseteq Requests
    /\ track \in Tracks \cup {None}
    /\ range \in Items \cup {None}
    /\ autoPlay \in BOOLEAN /\ busy \in BOOLEAN /\ sounding \in BOOLEAN /\ isPlaying \in BOOLEAN
    /\ audio \in Resources \cup {None}
    /\ resumes \subseteq Resumes
    /\ chosen \in Items \cup {None}
    /\ cutOff \in BOOLEAN /\ overridden \in BOOLEAN
    /\ download \in Items \cup {None}

\* The item that was last asked to be played is the current one, unless it was cut off the
\* queue; before the first status the queue is empty.
QueueInv ==
    /\ Queue(queue) /\ index \in Nat
    /\ ~cutOff => index \in Positions(queue) /\ chosen \in {None, Current}
    /\ account = None => queue = <<>> /\ ~cutOff

\* The track on screen and the request under way are of the item that was last asked to be
\* played, wherever the queue has gone.
ScreenInv ==
    /\ track # None => track.item = chosen
    /\ busy <=> \E r \in requests : r.live
    /\ \A r \in requests : r.live => r.item = chosen

CoreInv == TypeInv /\ QueueInv /\ ScreenInv

\* An item of a queue becomes the current one and is prepared.
Played ==
    \E q \in Seq(Items) : \E k \in 1 .. Len(q) :
        /\ Queue(q) /\ PlayAt(q, k)
        /\ mode' \in Modes /\ account' \in Accounts /\ waiting' \in {waiting, None} /\ download' = download

\* The stored queue is shown, and nothing is played.
Shown ==
    /\ account = None /\ account' \in Accounts /\ waiting' = None
    /\ queue' \in Queues /\ index' \in Positions(queue') /\ cutOff' = FALSE /\ mode' \in Modes
    /\ UNCHANGED <<requests, screenVars, audioVars, resumeVars, download>>

\* The element is silenced, and that is all.
Paused ==
    /\ Silent
    /\ UNCHANGED <<account, waiting, mode, download, queueVars, requests, screenVars, audio, resumeVars>>

\* The current item, where there is one, is an item of the queue.
LEMMA CurrentItem ==
    ASSUME Queue(queue), index \in Nat
    PROVE  /\ Current # None => index \in 1 .. Len(queue) /\ Current = queue[index] /\ Current \in Items
           /\ index \in 1 .. Len(queue) => Current = queue[index] /\ Current \in Items
           /\ queue = <<>> => Current = None
<1>1. queue \in Seq(Items) /\ Len(queue) \in Nat
  BY LenProperties DEF Queue
<1>2. CASE index \in 1 .. Len(queue)
  <2>1. queue[index] \in Items
    BY <1>1, <1>2, ElementOfSeq
  <2>2. queue # <<>>
    BY <1>1, <1>2, EmptySeq
  <2> QED
    BY <1>2, <2>1, <2>2 DEF Current
<1>3. CASE index \notin 1 .. Len(queue)
  BY <1>3 DEF Current
<1> QED
  BY <1>2, <1>3

\* The modes that lead to an item lead to one of the queue.
LEMMA NextIsInQueue ==
    ASSUME NEW i \in Nat, NEW n \in Nat, NEW step \in {-1, 1}
    PROVE  NextOnEnded(i, n) \subseteq 1 .. n /\ NextOnManual(i, n, step) \subseteq 1 .. n
BY DEF NextOnEnded, NextOnManual, RandomIndex

\* A candidate that is appended or there already has a position.
LEMMA HasPosition ==
    ASSUME NEW q, Queue(q), NEW i \in Range(q)
    PROVE  Position(q, i) \in 1 .. Len(q) /\ q[Position(q, i)] = i
<1>1. \E k \in 1 .. Len(q) : q[k] = i
  BY LenProperties DEF Queue, Range
<1> QED
  BY <1>1 DEF Position

\* A press that takes effect plays an item of a queue.
LEMMA Effect ==
    ASSUME NEW press \in MayWait, NEW q, Queue(q), NEW m \in Modes, TakeEffect(press, q, m)
    PROVE  \E p \in Seq(Items) : \E k \in 1 .. Len(p) : Queue(p) /\ PlayAt(p, k) /\ mode' \in Modes
<1>1. press.items \in Queues /\ press.items # <<>> /\ (press.whole \/ Len(press.items) = 1)
  BY DEF MayWait, Presses
<1>2. Queue(press.items) /\ press.items \in Seq(Items)
  BY <1>1, QueuesAreQueues DEF Queue
<1>3. CASE press.whole
  <2>1. PICK k \in 1 .. Len(press.items) :
           /\ PlayAt(press.items, k)
           /\ mode' \in IF k = 1 THEN {"sequence", "shuffle"} \cap Modes ELSE {"shuffle"} \cap Modes
    BY <1>3 DEF TakeEffect
  <2> QED
    BY <1>2, <2>1
<1>4. CASE ~press.whole
  <2> DEFINE i == press.items[1]
             full == IF i \in Range(q) THEN q ELSE Append(q, i)
  <2>1. PlayAt(full, Position(full, i)) /\ mode' = m
    BY <1>4 DEF TakeEffect
  <2>2. i \in Items
    BY <1>1, <1>2, <1>4, ElementOfSeq
  <2>3. Queue(full) /\ i \in Range(full)
    <3>1. CASE i \in Range(q)
      BY <3>1
    <3>2. CASE i \notin Range(q)
      <4>1. /\ Queue(Append(q, i)) /\ Len(Append(q, i)) = Len(q) + 1
            /\ Append(q, i)[Len(q) + 1] = i
        BY <2>2, <3>2, Appended
      <4>2. Len(q) + 1 \in DOMAIN Append(q, i)
        BY <4>1, LenProperties DEF Queue
      <4>3. i \in Range(Append(q, i))
        BY <4>1, <4>2 DEF Range
      <4> QED
        BY <3>2, <4>1, <4>3
    <3> QED
      BY <3>1, <3>2
  <2>4. Position(full, i) \in 1 .. Len(full)
    BY <2>3, HasPosition
  <2>5. full \in Seq(Items)
    BY <2>3 DEF Queue
  <2> QED
    BY <2>1, <2>3, <2>4, <2>5
<1> QED
  BY <1>3, <1>4

\* Who plays: the handlers of presses, of the queue and of the end of an item.
LEMMA WhoPlays ==
    ASSUME CoreInv
    PROVE  /\ \A a \in Accounts : FirstStatus(a) => Played \/ Shown
           /\ \A press \in MayWait : Press(press) =>
                 \/ Played
                 \/ /\ waiting' = press
                    /\ UNCHANGED <<account, queueVars, mode, requests, screenVars, audioVars, resumeVars, download>>
           /\ \A k \in 1 .. Len(queue) : SelectItem(k) => Played
           /\ \A step \in {-1, 1} : PlayRelative(step) => Played
           /\ Ended => Played \/ Paused
<1>1. Queue(queue) /\ queue \in Seq(Items) /\ Len(queue) \in Nat /\ index \in Nat
  BY LenProperties DEF CoreInv, QueueInv, Queue
<1>2. queue # <<>> => account \in Accounts
  BY DEF CoreInv, QueueInv, TypeInv
<1>3. \A k \in 1 .. Len(queue) : queue # <<>>
  BY EmptySeq
<1>4. ASSUME NEW k \in 1 .. Len(queue), PlayAt(queue, k), UNCHANGED <<account, waiting, mode, download>>
      PROVE  Played
  BY <1>1, <1>2, <1>3, <1>4 DEF Played, CoreInv, TypeInv
<1>5. ASSUME NEW a \in Accounts, FirstStatus(a)
      PROVE  Played \/ Shown
  <2>1. account = None /\ account' = a /\ waiting' = None /\ download' = download
    BY <1>5 DEF FirstStatus
  <2>2. PICK q \in Queues, m \in Modes :
          IF waiting = None
          THEN /\ queue' = q /\ index' \in Positions(q) /\ cutOff' = FALSE /\ mode' = m
               /\ UNCHANGED <<requests, screenVars, audioVars, resumeVars>>
          ELSE TakeEffect(waiting, q, m)
    BY <1>5 DEF FirstStatus
  <2>3. CASE waiting = None
    BY <2>1, <2>2, <2>3 DEF Shown
  <2>4. CASE waiting # None
    <3>1. waiting \in MayWait /\ Queue(q) /\ TakeEffect(waiting, q, m)
      BY <2>2, <2>4, QueuesAreQueues DEF CoreInv, TypeInv
    <3> QED
      BY <2>1, <3>1, Effect DEF Played
  <2> QED
    BY <2>3, <2>4
<1>6. ASSUME NEW press \in MayWait, Press(press)
      PROVE  \/ Played
             \/ /\ waiting' = press
                /\ UNCHANGED <<account, queueVars, mode, requests, screenVars, audioVars, resumeVars, download>>
  <2>1. CASE account = None
    BY <1>6, <2>1 DEF Press
  <2>2. CASE account # None
    <3>1. TakeEffect(press, queue, mode) /\ UNCHANGED <<waiting, account, download>>
      BY <1>6, <2>2 DEF Press
    <3>2. mode \in Modes /\ account \in Accounts
      BY <2>2 DEF CoreInv, TypeInv
    <3> QED
      BY <1>1, <3>1, <3>2, Effect DEF Played
  <2> QED
    BY <2>1, <2>2
<1>7. ASSUME NEW k \in 1 .. Len(queue), SelectItem(k) PROVE Played
  BY <1>4, <1>7 DEF SelectItem
<1>8. ASSUME NEW step \in {-1, 1}, PlayRelative(step) PROVE Played
  <2>1. PICK k \in NextOnManual(index, Len(queue), step) : SelectItem(k)
    BY <1>8 DEF PlayRelative
  <2>2. k \in 1 .. Len(queue)
    BY <1>1, NextIsInQueue
  <2> QED
    BY <1>7, <2>1, <2>2
<1>9. ASSUME Ended
      PROVE  Played \/ Paused
  <2>1. NextOnEnded(index, Len(queue)) \subseteq 1 .. Len(queue)
    BY <1>1, NextIsInQueue
  <2> QED
    BY <1>4, <1>9, <2>1 DEF Ended, Paused
<1> QED
  BY <1>5, <1>6, <1>7, <1>8, <1>9

\* Removing an item: the next one is played, or what is current stays current.
LEMMA WhenRemoved ==
    ASSUME CoreInv, NEW k \in 1 .. Len(queue), RemoveItem(k)
    PROVE  \/ Played
           \/ /\ QueueInv' /\ (~cutOff => Current' = Current)
              /\ UNCHANGED <<account, waiting, mode, download, cutOff, requests, screenVars, audioVars, resumeVars>>
<1> DEFINE next == RemoveAt(queue, k)
<1>1. Queue(queue) /\ queue \in Seq(Items) /\ Len(queue) \in Nat /\ queue # <<>> /\ index \in Nat
  BY LenProperties, EmptySeq DEF CoreInv, QueueInv, Queue
<1>2. account \in Accounts
  BY <1>1 DEF CoreInv, QueueInv, TypeInv
<1>3. /\ Queue(next) /\ Len(next) = Len(queue) - 1
      /\ \A j \in 1 .. Len(queue) - 1 : next[j] = IF j < k THEN queue[j] ELSE queue[j + 1]
  BY <1>1, Removed
<1>4. /\ next # <<>> /\ UNCHANGED <<account, waiting, mode, download>>
      /\ CASE k < index ->
                 /\ queue' = next /\ index' = index - 1
                 /\ UNCHANGED <<cutOff, requests, screenVars, audioVars, resumeVars>>
           [] k = index ->
                 PlayAt(next, IF index < Len(next) THEN index ELSE Len(next))
           [] OTHER ->
                 /\ queue' = next
                 /\ UNCHANGED <<index, cutOff, requests, screenVars, audioVars, resumeVars>>
  BY DEF RemoveItem
<1> HIDE DEF next
<1>5. next \in Seq(Items) /\ Len(next) \in Nat /\ Len(next) >= 1
  BY <1>3, <1>4, EmptySeq, LenProperties DEF Queue
<1>6. ~cutOff => index \in 1 .. Len(queue) /\ chosen \in {None, Current}
  BY <1>1 DEF CoreInv, QueueInv, Positions
<1>7. ASSUME k # index
      PROVE  /\ queue' = next /\ index' \in Nat
             /\ UNCHANGED <<cutOff, requests, screenVars, audioVars, resumeVars>>
             /\ ~cutOff => index' \in 1 .. Len(next) /\ next[index'] = queue[index]
  <2>1. CASE k < index
    <3>1. /\ queue' = next /\ index' = index - 1
          /\ UNCHANGED <<cutOff, requests, screenVars, audioVars, resumeVars>>
      BY <1>4, <2>1
    <3>2. index - 1 \in Nat
      BY <1>1, <2>1
    <3>3. ASSUME index \in 1 .. Len(queue)
          PROVE  index - 1 \in 1 .. Len(queue) - 1 /\ ~(index - 1 < k) /\ index - 1 + 1 = index
      BY <1>1, <2>1, <3>3
    <3>4. index \in 1 .. Len(queue) => index - 1 \in 1 .. Len(next) /\ next[index - 1] = queue[index]
      BY <1>3, <3>3
    <3> QED
      BY <1>6, <3>1, <3>2, <3>4
  <2>2. CASE ~(k < index)
    <3>1. queue' = next /\ UNCHANGED <<index, cutOff, requests, screenVars, audioVars, resumeVars>>
      BY <1>4, <1>7, <2>2
    <3>2. ASSUME index \in 1 .. Len(queue) PROVE index \in 1 .. Len(queue) - 1 /\ index < k
      BY <1>1, <1>7, <2>2, <3>2
    <3>3. index \in 1 .. Len(queue) => index \in 1 .. Len(next) /\ next[index] = queue[index]
      BY <1>3, <3>2
    <3> QED
      BY <1>1, <1>6, <3>1, <3>3
  <2> QED
    BY <2>1, <2>2
<1>8. CASE k # index
  <2>1. /\ queue' = next /\ index' \in Nat
        /\ UNCHANGED <<cutOff, requests, screenVars, audioVars, resumeVars>>
        /\ ~cutOff => index' \in 1 .. Len(next) /\ next[index'] = queue[index]
    BY <1>7, <1>8
  <2>2. ~cutOff => Current' = Current /\ index' \in Positions(queue')
    BY <1>4, <1>6, <2>1 DEF Current, Positions
  <2>3. chosen' = chosen
    BY <2>1 DEF screenVars
  <2>4. account' # None
    BY <1>2, <1>4, PlayerAssumption
  <2>5. QueueInv'
    BY <1>3, <1>6, <2>1, <2>2, <2>3, <2>4 DEF QueueInv
  <2> QED
    BY <1>4, <2>1, <2>2, <2>5
<1>9. CASE k = index
  <2>1. (IF index < Len(next) THEN index ELSE Len(next)) \in 1 .. Len(next)
    BY <1>5, <1>9
  <2>2. PlayAt(next, IF index < Len(next) THEN index ELSE Len(next))
    BY <1>4, <1>9
  <2>3. mode \in Modes
    BY DEF CoreInv, TypeInv
  <2> QED
    BY <1>2, <1>3, <1>4, <1>5, <2>1, <2>2, <2>3 DEF Played
<1> QED
  BY <1>8, <1>9

\* The track on screen is finished.
OnScreen == track # None /\ track.status = "ready"

\* "play" asks for the range of the track on screen.
Asked ==
    /\ OnScreen /\ resumes' = resumes \cup {[item |-> track.item, left |-> FALSE]}
    /\ UNCHANGED <<account, waiting, queueVars, mode, download, requests, screenVars, audioVars, overridden>>

\* "play" prepares the current item, pauses, or asks for the range of the track on screen.
LEMMA WhenToggled ==
    ASSUME CoreInv, TogglePlay
    PROVE  Played \/ Paused \/ Asked
<1>1. CASE isPlaying
  BY <1>1 DEF TogglePlay, Paused
<1>2. CASE ~isPlaying /\ track # None /\ track.status = "ready"
  BY <1>2 DEF TogglePlay, Asked, OnScreen
<1>3. CASE ~isPlaying /\ ~(track # None /\ track.status = "ready")
  <2>1. Current # None /\ PlayAt(queue, index) /\ UNCHANGED <<account, waiting, mode, download>>
    BY <1>3 DEF TogglePlay
  <2>2. index \in 1 .. Len(queue) /\ queue # <<>>
    BY <2>1, CurrentItem DEF CoreInv, QueueInv
  <2>3. Queue(queue) /\ queue \in Seq(Items) /\ mode \in Modes /\ account \in Accounts
    BY <2>2 DEF CoreInv, TypeInv, QueueInv, Queue
  <2> QED
    BY <2>1, <2>2, <2>3 DEF Played
<1> QED
  BY <1>1, <1>2, <1>3

\* A list is appended: what is current stays, unless it is cut off, and an empty queue gets
\* a first item.
LEMMA WhenAppended ==
    ASSUME CoreInv, NEW items \in Queues \ {<<>>}, AppendList(items)
    PROVE  /\ QueueInv' /\ cutOff' \in BOOLEAN
           /\ ~cutOff' => ~cutOff /\ (Current # None => Current' = Current)
           /\ UNCHANGED <<account, waiting, mode, requests, screenVars, audioVars, resumeVars, download>>
<1>1. PICK added \in NotQueued(items) : queue' = Cut(queue \o added)
  BY DEF AppendList
<1>2. /\ index' = IF index = 0 THEN 1 ELSE index
      /\ cutOff' = (cutOff \/ index > Len(queue')) /\ account # None
      /\ UNCHANGED <<account, waiting, mode, requests, screenVars, audioVars, resumeVars, download>>
  BY DEF AppendList
<1>3. added \in Queues /\ Range(added) = Range(items) \ Range(queue)
  BY DEF NotQueued
<1>4. Queue(queue) /\ queue \in Seq(Items) /\ Len(queue) \in Nat /\ index \in Nat
  BY LenProperties DEF CoreInv, QueueInv, Queue
<1>5. /\ Queue(queue')
      /\ \A j \in 1 .. Len(queue) : j <= Len(queue') => queue'[j] = queue[j]
      /\ added # <<>> => queue' # <<>>
  <2>1. Range(added) \cap Range(queue) = {}
    BY <1>3
  <2> QED
    BY <1>1, <1>3, <1>4, <2>1, Extended
<1>6. queue' \in Seq(Items) /\ Len(queue') \in Nat
  BY <1>5, LenProperties DEF Queue
<1>7. index' \in Nat /\ chosen' = chosen
  BY <1>2, <1>4 DEF screenVars
<1>8. ASSUME ~cutOff'
      PROVE  /\ ~cutOff /\ index' \in Positions(queue') /\ chosen \in {None, Current'}
             /\ Current # None => Current' = Current
  <2>1. ~cutOff /\ ~(index > Len(queue'))
    BY <1>2, <1>8
  <2>2. index \in Positions(queue) /\ chosen \in {None, Current}
    BY <2>1 DEF CoreInv, QueueInv
  <2>3. CASE queue = <<>>
    <3>1. added # <<>>
      <4>1. items \in Seq(Items) /\ Len(items) \in Nat \ {0} /\ DOMAIN items = 1 .. Len(items)
        BY QueuesAreQueues, EmptySeq, LenProperties DEF Queue
      <4>2. 1 \in DOMAIN items
        BY <4>1
      <4>3. items[1] \in Range(items)
        BY <4>2 DEF Range
      <4>4. Range(queue) = {}
        BY <2>3 DEF Range
      <4>5. added = <<>> => Range(added) = {}
        BY DEF Range
      <4> QED
        BY <1>3, <4>3, <4>4, <4>5
    <3>2. queue' # <<>> /\ Len(queue') >= 1
      BY <1>5, <1>6, <3>1, EmptySeq
    <3>3. index = 0
      BY <2>2, <2>3 DEF Positions
    <3>4. Current = None
      BY <1>4, <2>3, CurrentItem
    <3>5. index' \in Positions(queue')
      BY <1>2, <1>6, <3>2, <3>3 DEF Positions
    <3> QED
      BY <2>1, <2>2, <3>4, <3>5
  <2>4. CASE queue # <<>>
    <3>1. index \in 1 .. Len(queue)
      BY <2>2, <2>4 DEF Positions
    <3>2. index' = index /\ index \in 1 .. Len(queue')
      BY <1>2, <1>4, <1>6, <2>1, <3>1
    <3>3. queue' # <<>> /\ queue'[index] = queue[index]
      BY <1>5, <1>6, <3>1, <3>2, EmptySeq
    <3>4. Current' = Current
      BY <3>1, <3>2, <3>3 DEF Current
    <3>5. index' \in Positions(queue')
      BY <3>2, <3>3 DEF Positions
    <3> QED
      BY <2>1, <2>2, <3>4, <3>5
  <2> QED
    BY <2>3, <2>4
<1>9. cutOff' \in BOOLEAN
  BY <1>2, Zenon DEF CoreInv, TypeInv
<1>10. QueueInv'
  BY <1>2, <1>5, <1>7, <1>8 DEF QueueInv
<1> QED
  BY <1>2, <1>8, <1>9, <1>10

\* A played item is the current one, with its request and nothing else under way; what
\* earlier presses on "play" have asked for is asked for an item that was left.
LEMMA WhenPlayed ==
    ASSUME TypeInv, Played
    PROVE  /\ TypeInv' /\ QueueInv' /\ ScreenInv'
           /\ track' = None /\ range' = None /\ sounding' = FALSE /\ \A r \in resumes' : r.left
<1>0. PICK q \in Seq(Items) : \E k \in 1 .. Len(q) :
        /\ Queue(q) /\ PlayAt(q, k)
        /\ mode' \in Modes /\ account' \in Accounts /\ waiting' \in {waiting, None} /\ download' = download
  BY DEF Played
<1>1. PICK k \in 1 .. Len(q) :
        /\ Queue(q) /\ PlayAt(q, k)
        /\ mode' \in Modes /\ account' \in Accounts /\ waiting' \in {waiting, None} /\ download' = download
  BY <1>0
<1>2. /\ queue' = q /\ index' = k /\ cutOff' = FALSE
      /\ requests' = Aborted \cup {[item |-> q[k], live |-> TRUE]}
      /\ track' = None /\ range' = None /\ sounding' = FALSE /\ isPlaying' = FALSE
      /\ autoPlay' = TRUE /\ busy' = TRUE /\ resumes' = Left /\ audio' = audio
      /\ chosen' = q[k] /\ overridden' = FALSE
  BY <1>1 DEF PlayAt, PrepareAndPlay, Blank, Silent
<1>3. q # <<>> /\ Len(q) \in Nat /\ q[k] \in Items /\ k \in Nat
  BY EmptySeq, ElementOfSeq, LenProperties
<1>4. Current' = q[k]
  BY <1>2, <1>3 DEF Current
<1>5. \A r \in Aborted : r \in Requests /\ ~r.live
  BY DEF Aborted, TypeInv, Requests
<1>6. [item |-> q[k], live |-> TRUE] \in Requests
  BY <1>3 DEF Requests
<1>7. requests' \subseteq Requests
  BY <1>2, <1>5, <1>6
<1>8. \A r \in resumes' : r \in Resumes /\ r.left
  BY <1>2 DEF Left, TypeInv, Resumes
<1>9. TypeInv'
  BY <1>1, <1>2, <1>3, <1>7, <1>8 DEF TypeInv
<1>10. QueueInv'
  <2>1. k \in Positions(q)
    BY <1>3 DEF Positions
  <2>2. account' # None
    BY <1>1, PlayerAssumption
  <2> QED
    BY <1>1, <1>2, <1>3, <1>4, <2>1, <2>2 DEF QueueInv
<1>11. ScreenInv'
  <2>1. \A r \in requests' : r.live => r.item = q[k]
    BY <1>2, <1>5
  <2>2. \E r \in requests' : r.live
    <3>1. [item |-> q[k], live |-> TRUE] \in requests'
      BY <1>2
    <3>2. [item |-> q[k], live |-> TRUE].live
      OBVIOUS
    <3> QED
      BY <3>1, <3>2
  <2> QED
    BY <1>2, <2>1, <2>2 DEF ScreenInv
<1> QED
  BY <1>2, <1>8, <1>9, <1>10, <1>11

\* What ends a request, and what aborts all of them, leaves none that is under way.
LEMMA NoneUnderWay ==
    ASSUME CoreInv, NEW r \in requests
    PROVE  /\ r.live => \A s \in requests \ {r} : ~s.live
           /\ Ends(r) => /\ requests' \subseteq requests
                         /\ busy' \in BOOLEAN
                         /\ busy' <=> \E s \in requests' : s.live
<1>1. ASSUME r.live, NEW s \in requests \ {r}, s.live PROVE FALSE
  <2>1. r.item = s.item
    BY <1>1 DEF CoreInv, ScreenInv
  <2>2. r \in Requests /\ s \in Requests
    BY DEF CoreInv, TypeInv
  <2>3. r = [item |-> r.item, live |-> TRUE] /\ s = [item |-> s.item, live |-> TRUE]
    <3>1. r.live = TRUE /\ s.live = TRUE
      BY <1>1, <2>2 DEF Requests
    <3> QED
      BY <2>2, <3>1 DEF Requests
  <2> QED
    BY <2>1, <2>3
<1>2. ASSUME Ends(r)
      PROVE  requests' \subseteq requests /\ busy' \in BOOLEAN /\ (busy' <=> \E s \in requests' : s.live)
  <2>1. requests' = requests \ {r}
    BY <1>2 DEF Ends
  <2>2. CASE r.live
    <3>1. busy' = FALSE
      BY <1>2, <2>2 DEF Ends
    <3> QED
      BY <1>1, <2>1, <2>2, <3>1
  <2>3. CASE ~r.live
    <3>1. busy' = busy
      BY <1>2, <2>3 DEF Ends
    <3>2. busy \in BOOLEAN /\ (busy <=> \E s \in requests : s.live)
      BY DEF CoreInv, TypeInv, ScreenInv
    <3> QED
      BY <2>1, <2>3, <3>1, <3>2
  <2> QED
    BY <2>2, <2>3
<1> QED
  BY <1>1, <1>2

\* Whoever leaves the queue alone leaves the current item alone.
LEMMA QueueKept ==
    ASSUME QueueInv, UNCHANGED <<account, queueVars>>, chosen' \in {chosen, None}
    PROVE  QueueInv' /\ Current' = Current
<1>1. queue' = queue /\ index' = index /\ cutOff' = cutOff /\ account' = account
  BY DEF queueVars
<1>2. Current' = Current
  BY <1>1 DEF Current
<1> QED
  BY <1>1, <1>2 DEF QueueInv

\* Whoever leaves the screen and its request alone keeps them those of the chosen item.
LEMMA ScreenKept ==
    ASSUME ScreenInv, UNCHANGED <<requests, track, busy, chosen>>
    PROVE  ScreenInv'
BY DEF ScreenInv

\* Answers publish for the chosen item only, and the last one ends the preparation.
LEMMA WhenAnswered ==
    ASSUME CoreInv, NEW r \in requests, StillPreparing(r) \/ Ready(r) \/ Fails(r)
    PROVE  CoreInv'
<1>1. UNCHANGED <<account, waiting, queueVars, mode, resumes, chosen, download>>
  BY DEF StillPreparing, Ready, Fails, resumeVars
<1>2. QueueInv'
  BY <1>1, QueueKept DEF CoreInv
<1>3. r \in Requests /\ r.item \in Items
  BY DEF CoreInv, TypeInv, Requests
<1>4. UNCHANGED <<requests, busy>> \/ Ends(r)
  BY DEF StillPreparing, Ready, Fails
<1>5. /\ requests' \subseteq requests /\ busy' \in BOOLEAN
      /\ busy' <=> \E s \in requests' : s.live
  <2>1. CASE UNCHANGED <<requests, busy>>
    BY <2>1 DEF CoreInv, TypeInv, ScreenInv
  <2>2. CASE Ends(r)
    BY <2>2, NoneUnderWay
  <2> QED
    BY <1>4, <2>1, <2>2
<1>6. \/ UNCHANGED <<track, range>>
      \/ r.live /\ range' = r.item /\ \E status \in {"preparing", "ready", "failed"} :
                                         track' = [item |-> r.item, status |-> status]
  BY DEF StillPreparing, Ready, Fails, Publishes
<1>7. ScreenInv'
  <2>1. r.live => r.item = chosen
    BY DEF CoreInv, ScreenInv
  <2>2. track' # None => track'.item = chosen'
    BY <1>1, <1>6, <2>1 DEF CoreInv, ScreenInv
  <2>3. \A s \in requests' : s.live => s.item = chosen'
    BY <1>1, <1>5 DEF CoreInv, ScreenInv
  <2> QED
    BY <1>5, <2>2, <2>3 DEF ScreenInv
<1>8. TypeInv'
  <2>1. track' \in Tracks \cup {None} /\ range' \in Items \cup {None}
    BY <1>3, <1>6 DEF CoreInv, TypeInv, Tracks
  <2>2. /\ audio' \in Resources \cup {None}
        /\ sounding' \in BOOLEAN /\ isPlaying' \in BOOLEAN
    <3>1. \/ UNCHANGED audioVars
          \/ audio' = [item |-> r.item, loaded |-> FALSE] /\ sounding' = FALSE /\ isPlaying' = isPlaying
      BY DEF StillPreparing, Ready, Fails, Load
    <3>2. [item |-> r.item, loaded |-> FALSE] \in Resources
      BY <1>3 DEF Resources
    <3>3. CASE UNCHANGED audioVars
      BY <3>3 DEF CoreInv, TypeInv, audioVars
    <3>4. CASE audio' = [item |-> r.item, loaded |-> FALSE] /\ sounding' = FALSE /\ isPlaying' = isPlaying
      BY <3>2, <3>4 DEF CoreInv, TypeInv
    <3> QED
      BY <3>1, <3>3, <3>4
  <2>3. autoPlay' \in {autoPlay, FALSE} /\ overridden' \in {overridden, FALSE}
    BY DEF StillPreparing, Ready, Fails, resumeVars
  <2>4. autoPlay' \in BOOLEAN /\ overridden' \in BOOLEAN
    BY <2>3 DEF CoreInv, TypeInv
  <2>5. /\ account' \in Accounts \cup {None} /\ waiting' \in MayWait \cup {None} /\ mode' \in Modes
        /\ resumes' \subseteq Resumes /\ chosen' \in Items \cup {None} /\ download' \in Items \cup {None}
    BY <1>1 DEF CoreInv, TypeInv
  <2>6. cutOff' \in BOOLEAN
    BY <1>1 DEF CoreInv, TypeInv, queueVars
  <2>7. requests' \subseteq Requests /\ busy' \in BOOLEAN
    BY <1>5 DEF CoreInv, TypeInv
  <2> QED
    BY <2>1, <2>2, <2>4, <2>5, <2>6, <2>7, Zenon DEF TypeInv
<1> QED
  BY <1>2, <1>7, <1>8 DEF CoreInv

\* Everything under way is given up, whatever queue is shown then.
LEMMA WhenGivenUp ==
    ASSUME CoreInv, requests' = Aborted, Blank, Silent, autoPlay' = FALSE, busy' = FALSE,
           account' \in Accounts \cup {None}, mode' \in Modes, resumes' \in {{}, Left},
           chosen' = None, overridden' = FALSE, cutOff' \in {cutOff, FALSE},
           UNCHANGED <<waiting, audio>>, download' \in {download, None}, QueueInv'
    PROVE  CoreInv'
<1>1. \A s \in requests' : s \in Requests /\ ~s.live
  BY DEF CoreInv, TypeInv, Aborted, Requests
<1>2. track' = None /\ range' = None /\ sounding' = FALSE /\ isPlaying' = FALSE
  BY DEF Blank, Silent
<1>3. ScreenInv'
  BY <1>1, <1>2 DEF ScreenInv
<1>4. \A r \in resumes' : r \in Resumes
  <2>1. \A r \in Left : r \in Resumes
    BY DEF CoreInv, TypeInv, Left, Resumes
  <2> QED
    BY <2>1
<1>5. TypeInv'
  BY <1>1, <1>2, <1>4 DEF CoreInv, TypeInv
<1> QED
  BY <1>3, <1>5 DEF CoreInv

\* Every other handler leaves the queue, the screen and its request alone.
LEMMA WhenOther ==
    ASSUME CoreInv, UNCHANGED <<account, queueVars, requests, track, busy, chosen>>,
           \/ StatusFails \/ ChooseStrategy \/ NextMode \/ RangeSaved \/ RangeRefreshed
           \/ LoadedMetadata \/ BoundaryStops \/ EndDownload \/ \E i \in Items : StartDownload(i)
           \/ \E r \in resumes : ResumeAnswered(r)
    PROVE  CoreInv'
<1>1. QueueInv'
  BY QueueKept DEF CoreInv
<1>2. ScreenInv'
  BY ScreenKept DEF CoreInv
<1>3. track # None => track.item \in Items
  BY DEF CoreInv, TypeInv, Tracks
<1>4. ASSUME NEW i \in Items, ApplyRange(i)
      PROVE  /\ range' = i /\ isPlaying' = isPlaying
             /\ sounding' \in BOOLEAN /\ audio' \in Resources \cup {None}
  <2>1. range' = i
    BY <1>4 DEF ApplyRange
  <2>2. CASE UNCHANGED audioVars
    BY <2>1, <2>2 DEF audioVars, CoreInv, TypeInv
  <2>3. CASE track # None /\ Load(track.item)
    BY <1>3, <2>1, <2>3 DEF Load, Resources, CoreInv, TypeInv
  <2> QED
    BY <1>4, <2>1, <2>2, <2>3 DEF ApplyRange
<1>5. ASSUME UNCHANGED <<waiting, mode, download>>, range' \in Items \cup {None}, autoPlay' \in BOOLEAN,
             sounding' \in BOOLEAN, isPlaying' \in BOOLEAN, audio' \in Resources \cup {None},
             resumes' \subseteq resumes, overridden' \in BOOLEAN
      PROVE  TypeInv'
  <2>1. UNCHANGED <<account, requests, track, busy, chosen, cutOff>>
    BY DEF queueVars
  <2>2. resumes' \subseteq Resumes
    BY <1>5 DEF CoreInv, TypeInv
  <2> QED
    BY <1>5, <2>1, <2>2, Zenon DEF CoreInv, TypeInv
<1>6. TypeInv'
  <2>1. CASE StatusFails \/ ChooseStrategy \/ EndDownload \/ \E i \in Items : StartDownload(i)
    <3>1. UNCHANGED <<mode, screenVars, audioVars, resumeVars>> /\ waiting' \in {waiting, None}
          /\ download' \in Items \cup {None}
      BY <2>1 DEF StatusFails, ChooseStrategy, EndDownload, StartDownload, CoreInv, TypeInv
    <3> QED
      BY <3>1 DEF queueVars, screenVars, audioVars, resumeVars, CoreInv, TypeInv
  <2>2. CASE NextMode
    BY <2>2 DEF NextMode, queueVars, screenVars, audioVars, resumeVars, CoreInv, TypeInv
  <2>3. CASE RangeSaved
    <3>1. audio' = audio \/ (track # None /\ audio' = [item |-> track.item, loaded |-> FALSE])
      BY <2>3 DEF RangeSaved
    <3>2. track # None => [item |-> track.item, loaded |-> FALSE] \in Resources
      BY <1>3 DEF Resources
    <3>3. autoPlay' = FALSE /\ isPlaying' = FALSE /\ sounding' = FALSE
          /\ UNCHANGED <<waiting, mode, range, resumes, overridden, download>>
      BY <2>3 DEF RangeSaved, resumeVars
    <3>4. audio' \in Resources \cup {None}
      BY <3>1, <3>2, Zenon DEF CoreInv, TypeInv
    <3>5. range \in Items \cup {None} /\ overridden \in BOOLEAN
      BY DEF CoreInv, TypeInv
    <3> QED
      BY <1>5, <3>3, <3>4, <3>5
  <2>4. CASE RangeRefreshed
    <3>1. Current \in Items
      BY <2>4, CurrentItem DEF RangeRefreshed, CoreInv, QueueInv
    <3>2. ApplyRange(Current) /\ UNCHANGED <<waiting, mode, autoPlay, resumes, overridden, download>>
      BY <2>4 DEF RangeRefreshed, resumeVars
    <3>3. autoPlay \in BOOLEAN /\ isPlaying \in BOOLEAN /\ overridden \in BOOLEAN
      BY DEF CoreInv, TypeInv
    <3> QED
      BY <1>4, <1>5, <3>1, <3>2, <3>3
  <2>5. CASE LoadedMetadata
    <3>1. audio # None /\ audio' = [audio EXCEPT !.loaded = TRUE]
      BY <2>5 DEF LoadedMetadata
    <3>2. audio' \in Resources
      BY <3>1 DEF CoreInv, TypeInv, Resources
    <3>3. /\ autoPlay' \in {autoPlay, FALSE} /\ sounding' \in {sounding, TRUE, FALSE}
          /\ isPlaying' \in {isPlaying, TRUE, FALSE}
      BY <2>5 DEF LoadedMetadata, Silent
    <3>4. UNCHANGED <<waiting, mode, range, resumes, overridden, download>>
      BY <2>5 DEF LoadedMetadata, resumeVars
    <3>5. range \in Items \cup {None} /\ overridden \in BOOLEAN
      BY DEF CoreInv, TypeInv
    <3>6. autoPlay' \in BOOLEAN /\ sounding' \in BOOLEAN /\ isPlaying' \in BOOLEAN
      BY <3>3 DEF CoreInv, TypeInv
    <3> QED
      BY <1>5, <3>2, <3>4, <3>5, <3>6
  <2>6. CASE BoundaryStops
    BY <2>6 DEF BoundaryStops, Silent, queueVars, resumeVars, CoreInv, TypeInv
  <2>7. ASSUME NEW r \in resumes, ResumeAnswered(r) PROVE TypeInv'
    <3>0. r \in Resumes /\ r.item \in Items /\ r.left \in BOOLEAN
      BY DEF CoreInv, TypeInv, Resumes
    <3>1. resumes' \subseteq resumes /\ UNCHANGED <<waiting, mode, download>>
      BY <2>7 DEF ResumeAnswered
    <3>2. /\ range \in Items \cup {None} /\ overridden \in BOOLEAN /\ autoPlay \in BOOLEAN
          /\ sounding \in BOOLEAN /\ isPlaying \in BOOLEAN /\ audio \in Resources \cup {None}
      BY DEF CoreInv, TypeInv
    <3>3. overridden' \in BOOLEAN
      BY <2>7, <3>2, Zenon DEF ResumeAnswered
    <3>4. CASE UNCHANGED <<autoPlay, range, audioVars, overridden>>
      BY <1>5, <3>1, <3>2, <3>4 DEF audioVars
    <3>5. CASE autoPlay' = TRUE /\ ApplyRange(r.item)
      BY <1>4, <1>5, <3>0, <3>1, <3>2, <3>3, <3>5
    <3>6. CASE sounding' = TRUE /\ isPlaying' = TRUE /\ UNCHANGED <<autoPlay, range, audio>>
      BY <1>5, <3>1, <3>2, <3>3, <3>6
    <3> QED
      BY <2>7, <3>4, <3>5, <3>6 DEF ResumeAnswered
  <2> QED
    BY <2>1, <2>2, <2>3, <2>4, <2>5, <2>6, <2>7
<1> QED
  BY <1>1, <1>2, <1>6 DEF CoreInv

\* Every step keeps the screen of one piece.
LEMMA CoreStep ==
    ASSUME CoreInv, [Next]_vars
    PROVE  CoreInv'
<1>1. CASE Played
  BY <1>1, WhenPlayed DEF CoreInv
<1>2. ASSUME UNCHANGED <<account, queueVars, requests, track, busy, chosen>>, TypeInv' PROVE CoreInv'
  BY <1>2, QueueKept, ScreenKept DEF CoreInv
<1>3. ASSUME NEW a \in Accounts, FirstStatus(a) PROVE CoreInv'
  <2>1. CASE Shown
    <3>1. Queue(queue') /\ account' # None
      BY <2>1, QueuesAreQueues, PlayerAssumption DEF Shown
    <3>2. queue' \in Seq(Items) /\ Len(queue') \in Nat /\ index' \in Nat
      BY <2>1, <3>1, LenProperties DEF Shown, Queue, Positions
    <3>3. queue = <<>> /\ ~cutOff /\ Queue(queue) /\ index \in Nat /\ chosen \in {None, Current}
      BY <2>1 DEF Shown, CoreInv, QueueInv
    <3>4. Current = None
      BY <3>3, CurrentItem
    <3>5. chosen' = None
      BY <2>1, <3>3, <3>4 DEF Shown, screenVars
    <3>6. QueueInv'
      BY <2>1, <3>1, <3>2, <3>5 DEF Shown, QueueInv
    <3>7. UNCHANGED <<requests, track, busy, chosen>>
      BY <2>1 DEF Shown, screenVars
    <3>8. TypeInv'
      BY <2>1 DEF Shown, CoreInv, TypeInv, screenVars, audioVars, resumeVars
    <3> QED
      BY <3>6, <3>7, <3>8, ScreenKept DEF CoreInv
  <2> QED
    BY <1>1, <1>3, <2>1, WhoPlays
<1>4. ASSUME NEW press \in MayWait, Press(press) PROVE CoreInv'
  <2>1. CASE /\ waiting' = press
             /\ UNCHANGED <<account, queueVars, mode, requests, screenVars, audioVars, resumeVars, download>>
    BY <1>2, <2>1 DEF CoreInv, TypeInv, queueVars, screenVars, audioVars, resumeVars
  <2> QED
    BY <1>1, <1>4, <2>1, WhoPlays
<1>5. ASSUME NEW k \in 1 .. Len(queue), SelectItem(k) PROVE CoreInv'
  BY <1>1, <1>5, WhoPlays
<1>6. ASSUME NEW step \in {-1, 1}, PlayRelative(step) PROVE CoreInv'
  BY <1>1, <1>6, WhoPlays
<1>7. CASE Paused
  BY <1>2, <1>7 DEF CoreInv, TypeInv, Paused, queueVars, screenVars, resumeVars, Silent
<1>8. CASE Ended
  BY <1>1, <1>7, <1>8, WhoPlays
<1>9. ASSUME NEW k \in 1 .. Len(queue), RemoveItem(k) PROVE CoreInv'
  <2>1. CASE /\ QueueInv'
             /\ UNCHANGED <<account, waiting, mode, download, cutOff, requests, screenVars, audioVars, resumeVars>>
    <3>1. ScreenInv'
      BY <2>1, ScreenKept DEF CoreInv, screenVars
    <3>2. TypeInv'
      BY <2>1 DEF CoreInv, TypeInv, screenVars, audioVars, resumeVars
    <3> QED
      BY <2>1, <3>1, <3>2 DEF CoreInv
  <2> QED
    BY <1>1, <1>9, <2>1, WhenRemoved
<1>10. CASE TogglePlay
  <2>1. CASE Asked
    <3>1. track.item \in Items
      BY <2>1 DEF Asked, OnScreen, CoreInv, TypeInv, Tracks
    <3>2. [item |-> track.item, left |-> FALSE] \in Resumes
      BY <3>1 DEF Resumes
    <3>3. resumes' \subseteq Resumes
      BY <2>1, <3>2 DEF Asked, CoreInv, TypeInv
    <3>4. /\ UNCHANGED <<account, waiting, mode, download, requests, overridden>>
          /\ UNCHANGED <<queueVars, screenVars, audioVars>>
      BY <2>1 DEF Asked
    <3>5. TypeInv'
      BY <3>3, <3>4 DEF CoreInv, TypeInv, queueVars, screenVars, audioVars
    <3> QED
      BY <1>2, <3>4, <3>5 DEF screenVars
  <2> QED
    BY <1>1, <1>7, <1>10, <2>1, WhenToggled
<1>11. ASSUME NEW items \in Queues \ {<<>>}, AppendList(items) PROVE CoreInv'
  <2>1. /\ QueueInv' /\ cutOff' \in BOOLEAN
        /\ UNCHANGED <<account, waiting, mode, requests, screenVars, audioVars, resumeVars, download>>
    BY <1>11, WhenAppended
  <2>2. ScreenInv'
    BY <2>1, ScreenKept DEF CoreInv, screenVars
  <2>3. TypeInv'
    BY <2>1 DEF CoreInv, TypeInv, screenVars, audioVars, resumeVars
  <2> QED
    BY <2>1, <2>2, <2>3 DEF CoreInv
<1>12. ASSUME NEW r \in requests, StillPreparing(r) \/ Ready(r) \/ Fails(r) PROVE CoreInv'
  BY <1>12, WhenAnswered
<1>13. CASE SessionChanges
  <2>1. QueueInv'
    BY <1>13, QueueKept DEF SessionChanges, CoreInv
  <2>2. cutOff' = cutOff /\ account \in Accounts \cup {None} /\ mode \in Modes
    BY <1>13 DEF SessionChanges, queueVars, CoreInv, TypeInv
  <2> QED
    BY <1>13, <2>1, <2>2, WhenGivenUp DEF SessionChanges
<1>14. ASSUME NEW a \in Accounts, OwnerChanges(a) PROVE CoreInv'
  <2>1. Queue(queue') /\ account' # None
    BY <1>14, QueuesAreQueues, PlayerAssumption DEF OwnerChanges
  <2>2. queue' \in Seq(Items) /\ Len(queue') \in Nat /\ index' \in Nat
    BY <1>14, <2>1, LenProperties DEF OwnerChanges, Queue, Positions
  <2>3. QueueInv'
    BY <1>14, <2>1, <2>2 DEF OwnerChanges, QueueInv
  <2> QED
    BY <1>14, <2>3, WhenGivenUp DEF OwnerChanges
<1>15. CASE ClearQueue
  <2>1. queue' = <<>> /\ index' = 0 /\ chosen' = None /\ cutOff' = FALSE
    BY <1>15 DEF ClearQueue
  <2>2. Queue(<<>>)
    BY EmptySeq DEF IsInjective, Queue
  <2>3. QueueInv'
    BY <2>1, <2>2 DEF QueueInv, Positions
  <2>4. account \in Accounts \cup {None} /\ mode \in Modes
    BY DEF CoreInv, TypeInv
  <2> QED
    BY <1>15, <2>3, <2>4, WhenGivenUp DEF ClearQueue
<1>16. ASSUME \/ StatusFails \/ ChooseStrategy \/ NextMode \/ RangeSaved \/ RangeRefreshed
              \/ LoadedMetadata \/ BoundaryStops \/ EndDownload \/ \E i \in Items : StartDownload(i)
              \/ \E r \in resumes : ResumeAnswered(r)
       PROVE  CoreInv'
  <2>1. UNCHANGED <<account, queueVars, requests, track, busy, chosen>>
    BY <1>16 DEF StatusFails, ChooseStrategy, NextMode, RangeSaved, RangeRefreshed, LoadedMetadata, BoundaryStops,
       EndDownload, StartDownload, ResumeAnswered, screenVars
  <2> QED
    BY <1>16, <2>1, WhenOther
<1>17. CASE UNCHANGED vars
  BY <1>2, <1>17 DEF vars, queueVars, screenVars, audioVars, resumeVars, CoreInv, TypeInv
<1>18. \A press \in Presses : press.whole \/ Len(press.items) = 1 => press \in MayWait
  BY DEF MayWait
<1> QED
  BY <1>3, <1>4, <1>5, <1>6, <1>8, <1>9, <1>10, <1>11, <1>12, <1>13, <1>14, <1>15, <1>16, <1>17, <1>18, Zenon
     DEF Next, User, Answers, Account, Element

-----------------------------------------------------------------------------
(* What sounds, and the range in force                                     *)

\* A finished track is in the element, and nothing else is being prepared; it is what
\* sounds, unless the answer to a press that was left has started the element, and what a
\* press that was not left asks about.
SoundInv ==
    /\ ~overridden /\ ~cutOff => RangeIsCurrent
    /\ OnScreen => ~busy /\ audio # None /\ audio.item = track.item
    /\ sounding => isPlaying
    /\ sounding /\ ~overridden => OnScreen
    /\ \A r \in resumes : ~r.left => OnScreen /\ r.item = track.item

\* An empty screen and a silent element, and no question about an item that was not left.
LEMMA NothingSounds ==
    ASSUME track' = None, range' = None, sounding' = FALSE, \A r \in resumes' : r.left
    PROVE  SoundInv'
BY DEF SoundInv, OnScreen, RangeIsCurrent

\* Handlers that leave the track alone and ask nothing.
LEMMA ElementShows ==
    ASSUME SoundInv, UNCHANGED <<track, busy>>, resumes' \subseteq resumes,
           ~overridden' /\ ~cutOff' => RangeIsCurrent',
           OnScreen => audio' # None /\ audio'.item = track.item,
           sounding' => isPlaying', sounding' /\ ~overridden' => OnScreen
    PROVE  SoundInv'
BY DEF SoundInv, OnScreen

\* Handlers that leave the screen and the element alone, and ask nothing.
LEMMA SoundKept ==
    ASSUME SoundInv, UNCHANGED <<track, busy, range, audioVars, overridden>>, resumes' \subseteq resumes,
           ~overridden /\ ~cutOff' => ~cutOff /\ (range # None => Current' = Current)
    PROVE  SoundInv'
<1>1. UNCHANGED <<audio, sounding, isPlaying>>
  BY DEF audioVars
<1>2. ~overridden' /\ ~cutOff' => RangeIsCurrent'
  BY DEF SoundInv, RangeIsCurrent
<1> QED
  BY <1>1, <1>2, ElementShows DEF SoundInv

\* What the queue leaves alone stays current.
LEMMA CurrentKept ==
    ASSUME UNCHANGED queueVars
    PROVE  Current' = Current /\ cutOff' = cutOff
BY DEF queueVars, Current

\* A resource in the element is none that is missing.
LEMMA InElement ==
    ASSUME NEW i \in Items, NEW loaded \in BOOLEAN
    PROVE  [item |-> i, loaded |-> loaded] # None /\ [item |-> i, loaded |-> loaded].item = i
<1>1. [item |-> i, loaded |-> loaded] \in Resources
  BY DEF Resources
<1> QED
  BY <1>1, NullAssumption

\* A range is put in force, that of the current item or an answer that was left, and the
\* resource of the track may be loaded anew.
LEMMA RangeApplied ==
    ASSUME SoundInv, CoreInv, NEW i \in Items, ApplyRange(i), UNCHANGED <<track, busy, queueVars>>,
           resumes' \subseteq resumes, ~overridden' => ~overridden, ~overridden' /\ ~cutOff => i = Current
    PROVE  SoundInv'
<1>1. range' = i /\ Current' = Current /\ cutOff' = cutOff
  BY CurrentKept DEF ApplyRange
<1>2. ~overridden' /\ ~cutOff' => RangeIsCurrent'
  BY <1>1 DEF RangeIsCurrent
<1>3. CASE UNCHANGED audioVars
  <2>1. UNCHANGED <<audio, sounding, isPlaying>>
    BY <1>3 DEF audioVars
  <2> QED
    BY <1>2, <2>1, ElementShows DEF SoundInv
<1>4. CASE OnScreen /\ Load(track.item)
  <2>1. audio' = [item |-> track.item, loaded |-> FALSE] /\ sounding' = FALSE
    BY <1>4 DEF Load
  <2>2. track.item \in Items
    BY <1>4 DEF CoreInv, TypeInv, Tracks, OnScreen
  <2>3. audio' # None /\ audio'.item = track.item
    BY <2>1, <2>2, InElement
  <2> QED
    BY <1>2, <2>1, <2>3, ElementShows
<1> QED
  BY <1>3, <1>4 DEF ApplyRange, OnScreen

\* Answers for the chosen item find an unfinished screen, where nothing sounds but what an
\* answer that was left has started; the finished track takes its place in the element.
LEMMA SoundAnswered ==
    ASSUME SoundInv, CoreInv, NEW r \in requests, StillPreparing(r) \/ Ready(r) \/ Fails(r)
    PROVE  SoundInv'
<1>1. UNCHANGED <<queueVars, resumes>> /\ Current' = Current /\ cutOff' = cutOff
  BY CurrentKept DEF StillPreparing, Ready, Fails, resumeVars
<1>2. r.item \in Items /\ (r.live => r.item = chosen /\ busy)
  BY DEF CoreInv, TypeInv, Requests, ScreenInv
<1>3. CASE ~r.live
  <2>1. UNCHANGED <<track, range, audioVars, overridden>> /\ Ends(r)
    BY <1>3 DEF StillPreparing, Ready, Fails, Publishes, resumeVars
  <2>2. busy' = busy
    BY <1>3, <2>1 DEF Ends
  <2> QED
    BY <1>1, <2>1, <2>2, SoundKept
<1>4. CASE r.live
  <2>1. ~OnScreen /\ (sounding => overridden) /\ \A s \in resumes' : s.left
    BY <1>1, <1>2, <1>4 DEF SoundInv
  <2>2. ~cutOff => r.item = Current
    BY <1>2, <1>4, PlayerAssumption DEF CoreInv, QueueInv
  <2>3. CASE StillPreparing(r) \/ Fails(r)
    <3>1. UNCHANGED <<audio, sounding, isPlaying, overridden>>
      BY <2>3 DEF StillPreparing, Fails, audioVars, resumeVars
    <3>2. \/ track' = track
          \/ track' = [item |-> r.item, status |-> "preparing"]
          \/ track' = [item |-> r.item, status |-> "failed"]
      BY <2>3 DEF StillPreparing, Fails
    <3>3. ~OnScreen'
      BY <2>1, <3>2 DEF OnScreen
    <3>4. range' \in {range, r.item}
      BY <2>3 DEF StillPreparing, Fails
    <3>5. ~overridden' /\ ~cutOff' => RangeIsCurrent'
      BY <1>1, <2>2, <3>1, <3>4 DEF SoundInv, RangeIsCurrent
    <3> QED
      BY <2>1, <3>1, <3>3, <3>5 DEF SoundInv
  <2>4. CASE Ready(r)
    <3>1. /\ busy' = FALSE /\ overridden' = FALSE /\ range' = r.item
          /\ track' = [item |-> r.item, status |-> "ready"]
          /\ audio' = [item |-> r.item, loaded |-> FALSE] /\ sounding' = FALSE
      BY <1>4, <2>4 DEF Ready, Ends, Publishes, Load
    <3>2. audio' # None /\ audio'.item = r.item
      BY <1>2, <3>1, InElement
    <3>3. track'.item = r.item
      BY <3>1
    <3>4. ~cutOff' => RangeIsCurrent'
      BY <1>1, <2>2, <3>1 DEF RangeIsCurrent
    <3> QED
      BY <2>1, <3>1, <3>2, <3>3, <3>4 DEF SoundInv
  <2> QED
    BY <2>3, <2>4
<1> QED
  BY <1>3, <1>4

\* The element: it starts to sound with the track on screen only.
LEMMA SoundOfElement ==
    ASSUME SoundInv, CoreInv, LoadedMetadata \/ RangeSaved \/ BoundaryStops
    PROVE  SoundInv'
<1>1. /\ UNCHANGED <<track, range, busy, resumes, overridden>>
      /\ Current' = Current /\ cutOff' = cutOff
  BY CurrentKept DEF LoadedMetadata, RangeSaved, BoundaryStops, resumeVars
<1>2. ~overridden' /\ ~cutOff' => RangeIsCurrent'
  BY <1>1 DEF SoundInv, RangeIsCurrent
<1>3. CASE LoadedMetadata
  <2>1. audio # None /\ audio' = [audio EXCEPT !.loaded = TRUE]
    BY <1>3 DEF LoadedMetadata
  <2>2. audio \in Resources
    BY <2>1 DEF CoreInv, TypeInv
  <2>3. audio.item \in Items /\ audio' = [item |-> audio.item, loaded |-> TRUE]
    BY <2>1, <2>2 DEF Resources
  <2>4. audio' # None /\ audio'.item = audio.item
    BY <2>3, InElement
  <2>5. (sounding' => isPlaying') /\ (sounding' /\ ~overridden' => OnScreen)
    <3>1. \/ sounding' = FALSE
          \/ OnScreen /\ sounding' = TRUE /\ isPlaying' = TRUE
          \/ sounding' = sounding /\ isPlaying' = isPlaying
      BY <1>3, Zenon DEF LoadedMetadata, Silent, MayStart, OnScreen
    <3> QED
      BY <1>1, <3>1 DEF SoundInv
  <2> QED
    BY <1>1, <1>2, <2>4, <2>5, ElementShows DEF SoundInv
<1>4. CASE RangeSaved
  <2>1. sounding' = FALSE
    BY <1>4 DEF RangeSaved
  <2>2. audio' = audio \/ (OnScreen /\ audio' = [item |-> track.item, loaded |-> FALSE])
    BY <1>4 DEF RangeSaved, OnScreen
  <2>3. OnScreen => track.item \in Items
    BY DEF CoreInv, TypeInv, Tracks, OnScreen
  <2>4. OnScreen => audio' # None /\ audio'.item = track.item
    BY <2>2, <2>3, InElement DEF SoundInv
  <2> QED
    BY <1>1, <1>2, <2>1, <2>4, ElementShows
<1>5. CASE BoundaryStops
  <2>1. UNCHANGED audio /\ sounding' = FALSE
    BY <1>5 DEF BoundaryStops, Silent
  <2> QED
    BY <1>1, <1>2, <2>1, ElementShows DEF SoundInv
<1> QED
  BY <1>3, <1>4, <1>5

\* The answer to a press that was not left concerns the track on screen; any other is on
\* record as soon as it takes effect.
LEMMA SoundResumed ==
    ASSUME SoundInv, CoreInv, NEW r \in resumes, ResumeAnswered(r)
    PROVE  SoundInv'
<1>1. /\ UNCHANGED <<queueVars, track, busy>> /\ Current' = Current /\ cutOff' = cutOff
      /\ resumes' \subseteq resumes
  BY CurrentKept DEF ResumeAnswered
<1>2. r.item \in Items
  BY DEF CoreInv, TypeInv, Resumes
<1>3. ASSUME ~r.left PROVE OnScreen /\ (~cutOff => r.item = Current)
  <2>1. OnScreen /\ r.item = track.item
    BY <1>3 DEF SoundInv
  <2>2. r.item = chosen
    BY <2>1 DEF CoreInv, ScreenInv, OnScreen
  <2> QED
    BY <1>2, <2>1, <2>2, PlayerAssumption DEF CoreInv, QueueInv
<1>4. CASE UNCHANGED <<range, audioVars, overridden>>
  BY <1>1, <1>4, SoundKept
<1>5. ASSUME overridden' = (overridden \/ r.left)
      PROVE  ~overridden' => ~overridden /\ ~r.left
  BY <1>5
<1>6. CASE ApplyRange(r.item) /\ overridden' = (overridden \/ r.left)
  BY <1>1, <1>2, <1>3, <1>5, <1>6, RangeApplied
<1>7. CASE sounding' = TRUE /\ isPlaying' = TRUE /\ overridden' = (overridden \/ r.left) /\ UNCHANGED <<range, audio>>
  <2>1. ~overridden' => ~overridden /\ OnScreen
    BY <1>3, <1>5, <1>7
  <2>2. ~overridden' /\ ~cutOff' => RangeIsCurrent'
    BY <1>1, <1>7, <2>1 DEF SoundInv, RangeIsCurrent
  <2> QED
    BY <1>1, <1>7, <2>1, <2>2, ElementShows DEF SoundInv
<1> QED
  BY <1>4, <1>6, <1>7 DEF ResumeAnswered

\* Every step keeps what sounds that of the current item.
LEMMA SoundStep ==
    ASSUME SoundInv, CoreInv, [Next]_vars
    PROVE  SoundInv'
<1>1. CASE Played
  BY <1>1, WhenPlayed, NothingSounds DEF CoreInv
<1>2. ASSUME UNCHANGED <<queueVars, screenVars, audioVars, resumeVars>> PROVE SoundInv'
  <2>1. UNCHANGED <<track, range, busy, resumes, overridden>> /\ Current' = Current /\ cutOff' = cutOff
    BY <1>2, CurrentKept DEF screenVars, resumeVars
  <2> QED
    BY <1>2, <2>1, SoundKept
<1>3. ASSUME NEW a \in Accounts, FirstStatus(a) PROVE SoundInv'
  <2>1. CASE Shown
    <3>1. queue = <<>> /\ ~cutOff /\ Queue(queue) /\ index \in Nat
      BY <2>1 DEF Shown, CoreInv, QueueInv
    <3>2. Current = None
      BY <3>1, CurrentItem
    <3>3. ~overridden => range = None
      BY <3>1, <3>2 DEF SoundInv, RangeIsCurrent
    <3>4. UNCHANGED <<track, range, busy, audioVars, resumes, overridden>>
      BY <2>1 DEF Shown, screenVars, resumeVars
    <3> QED
      BY <3>1, <3>3, <3>4, SoundKept
  <2> QED
    BY <1>1, <1>3, <2>1, WhoPlays
<1>4. ASSUME NEW press \in MayWait, Press(press) PROVE SoundInv'
  BY <1>1, <1>2, <1>4, WhoPlays
<1>5. ASSUME NEW k \in 1 .. Len(queue), SelectItem(k) PROVE SoundInv'
  BY <1>1, <1>5, WhoPlays
<1>6. ASSUME NEW step \in {-1, 1}, PlayRelative(step) PROVE SoundInv'
  BY <1>1, <1>6, WhoPlays
<1>7. CASE Paused
  <2>1. /\ UNCHANGED <<track, range, busy, resumes, overridden, audio>> /\ sounding' = FALSE
        /\ Current' = Current /\ cutOff' = cutOff
    BY <1>7, CurrentKept DEF Paused, screenVars, resumeVars, Silent
  <2>2. ~overridden' /\ ~cutOff' => RangeIsCurrent'
    BY <2>1 DEF SoundInv, RangeIsCurrent
  <2> QED
    BY <2>1, <2>2, ElementShows DEF SoundInv
<1>8. CASE Ended
  BY <1>1, <1>7, <1>8, WhoPlays
<1>9. ASSUME NEW k \in 1 .. Len(queue), RemoveItem(k) PROVE SoundInv'
  <2>1. CASE (~cutOff => Current' = Current) /\ UNCHANGED <<cutOff, screenVars, audioVars, resumeVars>>
    <3>1. UNCHANGED <<track, range, busy, resumes, overridden>>
      BY <2>1 DEF screenVars, resumeVars
    <3> QED
      BY <2>1, <3>1, SoundKept
  <2> QED
    BY <1>1, <1>9, <2>1, WhenRemoved
<1>10. CASE TogglePlay
  <2>1. CASE Asked
    <3>1. /\ UNCHANGED <<track, range, busy, audio, sounding, isPlaying, overridden>>
          /\ Current' = Current /\ cutOff' = cutOff
      BY <2>1, CurrentKept DEF Asked, screenVars, audioVars
    <3>2. OnScreen /\ OnScreen' /\ resumes' = resumes \cup {[item |-> track.item, left |-> FALSE]}
      BY <2>1, <3>1 DEF Asked, OnScreen
    <3>3. \A r \in resumes' : ~r.left => r.item = track'.item
      BY <3>1, <3>2 DEF SoundInv
    <3>4. RangeIsCurrent' <=> RangeIsCurrent
      BY <3>1 DEF RangeIsCurrent
    <3> QED
      BY <3>1, <3>2, <3>3, <3>4 DEF SoundInv
  <2> QED
    BY <1>1, <1>7, <1>10, <2>1, WhenToggled
<1>11. ASSUME NEW items \in Queues \ {<<>>}, AppendList(items) PROVE SoundInv'
  <2>1. /\ ~cutOff' => ~cutOff /\ (Current # None => Current' = Current)
        /\ UNCHANGED <<screenVars, audioVars, resumeVars>>
    BY <1>11, WhenAppended
  <2>2. UNCHANGED <<track, range, busy, resumes, overridden>>
    BY <2>1 DEF screenVars, resumeVars
  <2>3. ~overridden /\ ~cutOff => (range # None => Current # None)
    BY DEF SoundInv, RangeIsCurrent
  <2> QED
    BY <2>1, <2>2, <2>3, SoundKept
<1>12. ASSUME NEW r \in requests, StillPreparing(r) \/ Ready(r) \/ Fails(r) PROVE SoundInv'
  BY <1>12, SoundAnswered
<1>13. ASSUME SessionChanges \/ ClearQueue \/ \E a \in Accounts : OwnerChanges(a) PROVE SoundInv'
  <2>1. track' = None /\ range' = None /\ sounding' = FALSE /\ resumes' \in {{}, Left}
    BY <1>13 DEF SessionChanges, ClearQueue, OwnerChanges, Blank, Silent
  <2>2. \A r \in Left : r.left
    BY DEF Left, CoreInv, TypeInv, Resumes
  <2>3. \A r \in resumes' : r.left
    BY <2>1, <2>2
  <2> QED
    BY <2>1, <2>3, NothingSounds
<1>14. CASE RangeRefreshed
  <2>1. ApplyRange(Current) /\ UNCHANGED <<track, busy, queueVars, resumes, overridden>>
    BY <1>14 DEF RangeRefreshed, resumeVars
  <2>2. Current \in Items
    BY <1>14, CurrentItem DEF RangeRefreshed, CoreInv, QueueInv
  <2> QED
    BY <2>1, <2>2, RangeApplied
<1>15. CASE LoadedMetadata \/ RangeSaved \/ BoundaryStops
  BY <1>15, SoundOfElement
<1>16. ASSUME NEW r \in resumes, ResumeAnswered(r) PROVE SoundInv'
  BY <1>16, SoundResumed
<1>17. CASE StatusFails \/ ChooseStrategy \/ NextMode \/ EndDownload \/ \E i \in Items : StartDownload(i)
  <2>1. UNCHANGED <<queueVars, screenVars, audioVars, resumeVars>>
    BY <1>17 DEF StatusFails, ChooseStrategy, NextMode, EndDownload, StartDownload
  <2> QED
    BY <1>2, <2>1
<1>18. CASE UNCHANGED vars
  BY <1>2, <1>18 DEF vars
<1>19. \A press \in Presses : press.whole \/ Len(press.items) = 1 => press \in MayWait
  BY DEF MayWait
<1> QED
  BY <1>3, <1>4, <1>5, <1>6, <1>8, <1>9, <1>10, <1>11, <1>12, <1>13, <1>14, <1>15, <1>16, <1>17, <1>18, <1>19,
     Zenon DEF Next, User, Answers, Account, Element

-----------------------------------------------------------------------------
(* The theorems                                                            *)

\* An empty player is of one piece, and silent.
LEMMA PlayerStart ==
    ASSUME Init
    PROVE  CoreInv /\ SoundInv
<1>1. QueueInv
  <2>1. Queue(<<>>)
    BY EmptySeq DEF IsInjective, Queue
  <2> QED
    BY <2>1 DEF Init, QueueInv, Positions
<1>2. TypeInv
  BY PlayerAssumption DEF Init, TypeInv
<1>3. ScreenInv /\ SoundInv
  BY DEF Init, ScreenInv, SoundInv, OnScreen, RangeIsCurrent
<1> QED
  BY <1>1, <1>2, <1>3 DEF CoreInv

\* The track on screen and the request under way are of the item that was last asked to be
\* played, with answers as late as they like; that item is the one at the current position,
\* which is one of the queue, unless appending a playlist has cut it off; and the player is
\* busy exactly while the request is under way: handlePlay, handlePlaylist, playAt,
\* removeQueueItem, clearQueue, restore and waitForPreparedTrack in any order, for any
\* limit of the queue.
THEOREM ScreenStaysConsistent == Spec => []ScreenIsConsistent
<1>1. Init => CoreInv
  BY PlayerStart
<1>2. CoreInv /\ [Next]_vars => CoreInv'
  BY CoreStep
<1>3. CoreInv => ScreenIsConsistent
  <2> SUFFICES ASSUME CoreInv PROVE ScreenIsConsistent
    OBVIOUS
  <2>1. queue \in Seq(Items) /\ IsInjective(queue) /\ index \in Nat
    BY DEF CoreInv, QueueInv, Queue
  <2>2. TypeOK
    BY <2>1 DEF CoreInv, TypeInv, MayWait, Requests, Resumes, TypeOK
  <2> QED
    BY <2>2 DEF ScreenIsConsistent, CoreInv, ScreenInv, QueueInv
<1> QED
  BY <1>1, <1>2, <1>3, PTL DEF Spec

\* What sounds is the item that was last asked to be played, and the range in force that of
\* the current item, until the late answer to a press on "play" takes effect or the current
\* item is cut off the queue; and the button always offers to pause what sounds.  The old
\* resource that stays in the element after a switch never starts again by itself,
\* whichever of loadedmetadata, the range editor, the five second refresh, the boundary
\* timer and the answers comes first.
THEOREM SoundStaysCurrent == Spec => []SoundIsCurrent
<1>1. Init => CoreInv /\ SoundInv
  BY PlayerStart
<1>2. CoreInv /\ SoundInv /\ [Next]_vars => CoreInv' /\ SoundInv'
  BY CoreStep, SoundStep
<1>3. CoreInv /\ SoundInv => SoundIsCurrent
  BY DEF CoreInv, ScreenInv, SoundInv, OnScreen, SoundIsCurrent
<1> QED
  BY <1>1, <1>2, <1>3, PTL DEF Spec
=============================================================================
