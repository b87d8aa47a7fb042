----------------------------- MODULE SearchProofs -----------------------------
(* Theorems about the kept searches, for any videos, accounts, page sizes,   *)
(* numbers of pages and limits of sessions.                                  *)
EXTENDS Search, FiniteSetTheorems, SequenceTheorems, WellFoundedInduction, TLAPS

-----------------------------------------------------------------------------
(* The newest sessions of a set                                            *)

\* Sessions by their ids, each handed out once.
Numbered(S, n) ==
    /\ \A s \in S : s.id \in 1 .. n
    /\ \A s, t \in S : s.id = t.id => s = t

Newer(S, s) == {t \in S : t.id > s.id}

\* Numbered sessions are finitely many.
LEMMA NumberedIsFinite ==
    ASSUME NEW n \in Nat, NEW S, Numbered(S, n), NEW T \in SUBSET S
    PROVE  IsFiniteSet(T) /\ Cardinality(T) \in Nat
<1> DEFINE f == [s \in S |-> s.id]
<1>1. f \in Injection(S, 1 .. n)
  BY DEF Numbered, Injection, IsInjective
<1>2. IsFiniteSet(1 .. n)
  BY FS_Interval
<1>3. IsFiniteSet(S)
  BY <1>1, <1>2, FS_Injection
<1>4. IsFiniteSet(T)
  BY <1>3, FS_Subset
<1> QED
  BY <1>4, FS_CardinalityType

\* One of them is the oldest.
LEMMA OldestOf ==
    ASSUME NEW n \in Nat, NEW S, Numbered(S, n), S # {}
    PROVE  \E m \in S : \A s \in S : m.id <= s.id
<1> DEFINE Ages == {s.id : s \in S}
           Less == {ss \in Nat \X Nat : ss[1] < ss[2]}
<1>1. IsWellFoundedOn(Less, Nat)
  BY NatLessThanWellFounded DEF OpToRel
<1>2. \A s \in S : s.id \in Nat
  BY DEF Numbered
<1>3. Ages \subseteq Nat /\ Ages # {}
  BY <1>2
<1>4. \E x \in Ages : \A y \in Ages : ~ (<<y, x>> \in Less)
  <2> HIDE DEF Less, Ages
  <2> QED
    BY <1>1, <1>3, WFMin
<1>5. PICK m \in S : \A s \in S : ~ (<<s.id, m.id>> \in Less)
  BY <1>4
<1>6. ASSUME NEW s \in S PROVE m.id <= s.id
  <2>1. ~(s.id < m.id)
    BY <1>2, <1>5
  <2> QED
    BY <1>2, <2>1
<1> QED
  BY <1>6

\* And one the newest.
LEMMA NewestOf ==
    ASSUME NEW n \in Nat, NEW S, Numbered(S, n), S # {}
    PROVE  \E m \in S : \A s \in S : s.id <= m.id
<1> DEFINE Ages == {n - s.id : s \in S}
           Less == {ss \in Nat \X Nat : ss[1] < ss[2]}
<1>1. IsWellFoundedOn(Less, Nat)
  BY NatLessThanWellFounded DEF OpToRel
<1>2. \A s \in S : s.id \in Nat /\ n - s.id \in Nat
  BY DEF Numbered
<1>3. Ages \subseteq Nat /\ Ages # {}
  BY <1>2
<1>4. \E x \in Ages : \A y \in Ages : ~ (<<y, x>> \in Less)
  <2> HIDE DEF Less, Ages
  <2> QED
    BY <1>1, <1>3, WFMin
<1>5. PICK m \in S : \A s \in S : ~ (<<n - s.id, n - m.id>> \in Less)
  BY <1>4
<1>6. ASSUME NEW s \in S PROVE s.id <= m.id
  <2>1. ~(n - s.id < n - m.id)
    BY <1>2, <1>5
  <2> QED
    BY <1>2, <2>1
<1> QED
  BY <1>6

\* LIMIT -1 OFFSET k leaves at most k sessions; when it finds one to delete it leaves
\* exactly k, all of them newer.
LEMMA Evicted ==
    ASSUME NEW n \in Nat, NEW S, Numbered(S, n), NEW k \in Nat
    PROVE  /\ Cardinality(S \ Beyond(S, k)) <= k
           /\ \A u \in Beyond(S, k) : /\ Cardinality(S \ Beyond(S, k)) = k
                                      /\ \A t \in S \ Beyond(S, k) : t.id > u.id
<1> DEFINE Kept == S \ Beyond(S, k)
<1>1. /\ Kept \subseteq S /\ Numbered(Kept, n)
      /\ Numbered(Beyond(S, k), n)
      /\ IsFiniteSet(Kept) /\ Cardinality(Kept) \in Nat
      /\ \A s \in S : Newer(S, s) \subseteq S
  BY NumberedIsFinite DEF Numbered, Beyond, Newer
<1>2. \A s \in S : IsFiniteSet(Newer(S, s)) /\ Cardinality(Newer(S, s)) \in Nat
  BY <1>1, NumberedIsFinite
<1>3. /\ \A s \in Kept : Cardinality(Newer(S, s)) < k
      /\ \A u \in Beyond(S, k) : u \in S /\ Cardinality(Newer(S, u)) >= k
  BY <1>2 DEF Beyond, Newer
<1>4. \A s \in S : s.id \in Nat
  BY DEF Numbered
<1> HIDE DEF Kept
<1>5. Cardinality(Kept) <= k
  <2>1. CASE Kept = {}
    BY <2>1, FS_EmptySet
  <2>2. CASE Kept # {}
    <3>1. PICK m \in Kept : \A s \in Kept : m.id <= s.id
      BY <1>1, <2>2, OldestOf
    <3>2. \A s \in Kept \ {m} : s \in S /\ s.id > m.id
      BY <1>1, <1>4, <3>1 DEF Numbered
    <3>3. Kept \ {m} \subseteq Newer(S, m)
      BY <3>2 DEF Newer
    <3>4. m \in S /\ Cardinality(Newer(S, m)) < k /\ Cardinality(Newer(S, m)) \in Nat
      BY <1>1, <1>2, <1>3, <3>1
    <3>5. Cardinality(Kept \ {m}) <= Cardinality(Newer(S, m))
      BY <1>2, <3>3, <3>4, FS_Subset
    <3>6. Cardinality(Kept \ {m}) = Cardinality(Kept) - 1
      BY <1>1, <3>1, FS_RemoveElement
    <3> QED
      BY <1>1, <3>4, <3>5, <3>6
  <2> QED
    BY <2>1, <2>2
<1>6. ASSUME NEW u \in Beyond(S, k), NEW t \in Kept PROVE t.id > u.id
  <2>1. t \in S /\ u \in S /\ t.id \in Nat /\ u.id \in Nat
    BY <1>1, <1>3, <1>4
  <2>2. SUFFICES ASSUME t.id <= u.id PROVE FALSE
    BY <2>1
  <2>3. Newer(S, u) \subseteq Newer(S, t)
    BY <1>4, <2>1, <2>2 DEF Newer
  <2>4. Cardinality(Newer(S, u)) <= Cardinality(Newer(S, t))
    BY <1>2, <2>1, <2>3, FS_Subset
  <2> QED
    BY <1>2, <1>3, <2>1, <2>4
<1>7. ASSUME NEW u \in Beyond(S, k) PROVE Cardinality(Kept) >= k
  <2>1. PICK b \in Beyond(S, k) : \A s \in Beyond(S, k) : s.id <= b.id
    BY <1>1, NewestOf
  <2>2. b \in S /\ b.id \in Nat
    BY <1>3, <1>4
  <2>3. Newer(S, b) \subseteq Kept
    BY <1>4, <2>1, <2>2 DEF Newer, Kept
  <2>4. Cardinality(Newer(S, b)) <= Cardinality(Kept)
    BY <1>1, <2>3, FS_Subset
  <2> QED
    BY <1>1, <1>2, <1>3, <2>1, <2>2, <2>4
<1> QED
  BY <1>1, <1>5, <1>6, <1>7 DEF Kept

-----------------------------------------------------------------------------
(* Sessions with their pages                                               *)

Pools == SeqOf(Bvids, PageSize * MaxPages)

Rows == [id : Nat, owner : Owners, source : Sources, key : Logins \cup {None}, total : Nat \cup {None},
         pool : Pools \cup {None}, pages : [Pages -> (SUBSET Bvids) \cup {None}]]

\* A video is on one page only.
NoVideoTwice(s) == \A p, q \in Pages :
    p # q /\ None \notin {s.pages[p], s.pages[q]} => s.pages[p] \cap s.pages[q] = {}

\* What a search shows from its first page on stays as long as it is kept.
Same(s, t) ==
    /\ t.id = s.id /\ t.owner = s.owner /\ t.source = s.source /\ t.key = s.key
    /\ \A p \in Pages : s.pages[p] \in {None, t.pages[p]}
    /\ s.pool \in {None, t.pool} /\ s.total \in {None, t.total}

\* A page is recorded, or was before; nothing else of the session changes.
LEMMA Committed ==
    ASSUME NEW s \in Rows, NoVideoTwice(s), NEW p \in Pages, NEW S \in SUBSET Bvids, NEW total \in Nat \cup {None}
    PROVE  LET t == Commit(s, p, S, total)
           IN  /\ t \in Rows /\ NoVideoTwice(t) /\ Same(s, t) /\ t.pool = s.pool
               /\ \A q \in Pages \ {p} : t.pages[q] = s.pages[q]
<1> DEFINE videos == NewVideos(s, S)
           pages == [s.pages EXCEPT ![p] = videos]
           counted == KnownTotal(s, videos, total)
           t == Commit(s, p, S, total)
<1>1. CASE s.pages[p] # None
  <2>1. t = s
    BY <1>1 DEF Commit
  <2> QED
    BY <2>1 DEF Same
<1>2. CASE s.pages[p] = None
  <2>1. t = [s EXCEPT !.pages = pages, !.total = counted]
    BY <1>2 DEF Commit
  <2>2. s.pages \in [Pages -> (SUBSET Bvids) \cup {None}] /\ s.total \in Nat \cup {None}
    BY DEF Rows
  <2>3. videos \in SUBSET Bvids /\ \A q \in Pages : s.pages[q] # None => videos \cap s.pages[q] = {}
    BY DEF NewVideos, Seen
  <2>4. counted \in Nat \cup {None} /\ s.total \in {None, counted}
    BY <2>2 DEF KnownTotal
  <2> HIDE DEF videos, counted
  <2>5. /\ pages \in [Pages -> (SUBSET Bvids) \cup {None}]
        /\ pages[p] = videos /\ \A q \in Pages \ {p} : pages[q] = s.pages[q]
    BY <2>2, <2>3
  <2> HIDE DEF pages
  <2>6. /\ t \in Rows /\ t.pages = pages /\ t.total = counted /\ t.pool = s.pool
        /\ t.id = s.id /\ t.owner = s.owner /\ t.source = s.source /\ t.key = s.key
    BY <2>1, <2>4, <2>5 DEF Rows
  <2> HIDE DEF t
  <2>7. NoVideoTwice(t)
    BY <2>3, <2>5, <2>6 DEF NoVideoTwice
  <2>8. Same(s, t)
    BY <1>2, <2>4, <2>5, <2>6 DEF Same
  <2> QED
    BY <2>5, <2>6, <2>7, <2>8 DEF t
<1> QED
  BY <1>1, <1>2

-----------------------------------------------------------------------------
(* What holds of the kept sessions, and how a step changes them            *)

OfOwner(S, o) == {s \in S : s.owner = o}

\* The number of pages of a search over the local records is known with their pool.
Counted(s) == subject.kind = "words" /\ s.source = "local" => (s.pool = None => s.total = None)

SessionsInv ==
    /\ subject \in [kind : {"words", "bv", "douyin"}, video : Bvids]
    /\ lastId \in 0 .. MaxSearches
    /\ sessions \subseteq Rows /\ Numbered(sessions, lastId)
    /\ \A s \in sessions : NoVideoTwice(s) /\ Counted(s)
    /\ \A o \in Owners : Cardinality(OfOwner(sessions, o)) <= KeepOwner

\* A session goes only for a new one with KeepOwner or KeepAll newer ones.
Outlived(s) ==
    /\ Cardinality(sessions') <= KeepAll
    /\ \A o \in Owners : Cardinality({t \in sessions' : t.owner = o}) <= KeepOwner
    /\ \/ Cardinality({t \in sessions' : t.owner = s.owner /\ t.id > s.id}) = KeepOwner
       \/ Cardinality({t \in sessions' : t.id > s.id}) = KeepAll

Fixed == \A s \in sessions :
    \/ \E t \in sessions' : Same(s, t)
    \/ sessions' = sessions \ {s}
    \/ Outlived(s)

\* A set of sessions that are all there, perhaps changed, holds no more of an owner.
LEMMA NoMoreOf ==
    ASSUME NEW n \in Nat, NEW S, NEW T, Numbered(S, n), Numbered(T, n), NEW o,
           \A t \in T : \E s \in S : s.id = t.id /\ s.owner = t.owner
    PROVE  Cardinality(OfOwner(T, o)) <= Cardinality(OfOwner(S, o))
<1> DEFINE From == OfOwner(T, o)
           To == OfOwner(S, o)
           f == [t \in From |-> CHOOSE s \in To : s.id = t.id]
<1>1. \A t \in From : \E s \in To : s.id = t.id
  BY DEF OfOwner
<1>2. \A t \in From : f[t] \in To /\ f[t].id = t.id
  BY <1>1
<1>3. f \in [From -> To]
  BY <1>2
<1>4. \A t, u \in From : f[t] = f[u] => t = u
  BY <1>2 DEF OfOwner, Numbered
<1> HIDE DEF f
<1>5. f \in Injection(From, To)
  BY <1>3, <1>4 DEF Injection, IsInjective
<1>6. IsFiniteSet(To)
  BY NumberedIsFinite DEF OfOwner
<1> QED
  BY <1>5, <1>6, FS_Injection

\* One session is changed where it stands.
LEMMA OneChanges ==
    ASSUME SessionsInv, UNCHANGED <<subject, lastId>>, NEW s \in sessions, NEW t \in Rows,
           NoVideoTwice(t), Counted(t), Same(s, t), sessions' = (sessions \ {s}) \cup {t}
    PROVE  SessionsInv' /\ Fixed
<1>1. lastId \in Nat /\ Numbered(sessions, lastId) /\ t.id = s.id /\ t.owner = s.owner
  BY SearchAssumption DEF SessionsInv, Same
<1>2. Numbered(sessions', lastId)
  BY <1>1 DEF Numbered
<1>3. \A u \in sessions' : \E v \in sessions : v.id = u.id /\ v.owner = u.owner
  BY <1>1
<1>4. ASSUME NEW o \in Owners PROVE Cardinality(OfOwner(sessions', o)) <= KeepOwner
  <2>1. Cardinality(OfOwner(sessions', o)) <= Cardinality(OfOwner(sessions, o))
    BY <1>1, <1>2, <1>3, NoMoreOf
  <2>2. Cardinality(OfOwner(sessions, o)) \in Nat
    BY <1>1, NumberedIsFinite DEF OfOwner
  <2>3. Cardinality(OfOwner(sessions', o)) \in Nat
    BY <1>1, <1>2, NumberedIsFinite DEF OfOwner
  <2>4. Cardinality(OfOwner(sessions, o)) <= KeepOwner
    BY DEF SessionsInv
  <2> QED
    BY <2>1, <2>2, <2>3, <2>4, SearchAssumption
<1>5. SessionsInv'
  <2>1. \A u \in sessions' : u \in Rows /\ NoVideoTwice(u) /\ Counted(u)
    BY DEF SessionsInv
  <2>2. \A u \in sessions' : Counted(u) <=> Counted(u)'
    BY DEF Counted
  <2> QED
    BY <1>2, <1>4, <2>1, <2>2 DEF SessionsInv, OfOwner, Counted, NoVideoTwice
<1>6. Fixed
  BY DEF Fixed, Same
<1> QED
  BY <1>5, <1>6

\* A search begins: sessions over the limits go, the oldest first.
LEMMA OneAdded ==
    ASSUME SessionsInv, NEW o \in Owners, NEW t \in Rows, NoVideoTwice(t), Counted(t),
           t.id = lastId + 1, t.owner = o, lastId' = lastId + 1, lastId < MaxSearches, UNCHANGED subject,
           sessions' = Retained(o) \cup {t}
    PROVE  SessionsInv' /\ Fixed
<1> DEFINE own == OfOwner(sessions, o)
           left == sessions \ Beyond(own, KeepOwner - 1)
           kept == left \ Beyond(left, KeepAll - 1)
<1>1. /\ lastId \in Nat /\ MaxSearches \in Nat /\ Numbered(sessions, lastId)
      /\ KeepOwner \in Nat \ {0} /\ KeepAll \in Nat \ {0}
      /\ KeepOwner - 1 \in Nat /\ KeepAll - 1 \in Nat
  BY SearchAssumption DEF SessionsInv
<1>2. kept = Retained(o)
  BY DEF Retained, OfOwner
<1>3. own \subseteq sessions /\ left \subseteq sessions /\ kept \subseteq left
  BY DEF OfOwner
<1>4. Numbered(own, lastId) /\ Numbered(left, lastId) /\ Numbered(kept, lastId)
  BY <1>1, <1>3 DEF Numbered
<1> HIDE DEF own, left, kept
<1>5. /\ Cardinality(own \ Beyond(own, KeepOwner - 1)) <= KeepOwner - 1
      /\ \A u \in Beyond(own, KeepOwner - 1) :
            /\ Cardinality(own \ Beyond(own, KeepOwner - 1)) = KeepOwner - 1
            /\ \A s \in own \ Beyond(own, KeepOwner - 1) : s.id > u.id
  <2> DEFINE k == KeepOwner - 1
  <2>1. k \in Nat
    BY <1>1
  <2> HIDE DEF k
  <2>2. /\ Cardinality(own \ Beyond(own, k)) <= k
        /\ \A u \in Beyond(own, k) :
              /\ Cardinality(own \ Beyond(own, k)) = k
              /\ \A s \in own \ Beyond(own, k) : s.id > u.id
    BY <1>1, <1>4, <2>1, Evicted
  <2> QED
    BY <2>2 DEF k
<1>6. /\ Cardinality(kept) <= KeepAll - 1
      /\ \A u \in Beyond(left, KeepAll - 1) : Cardinality(kept) = KeepAll - 1 /\ \A s \in kept : s.id > u.id
  <2> DEFINE k == KeepAll - 1
  <2>1. k \in Nat /\ kept = left \ Beyond(left, k)
    BY <1>1 DEF kept
  <2> HIDE DEF k
  <2>2. /\ Cardinality(left \ Beyond(left, k)) <= k
        /\ \A u \in Beyond(left, k) :
              /\ Cardinality(left \ Beyond(left, k)) = k
              /\ \A s \in left \ Beyond(left, k) : s.id > u.id
    BY <1>1, <1>4, <2>1, Evicted
  <2> QED
    BY <2>1, <2>2 DEF k
<1>7. Beyond(own, KeepOwner - 1) \subseteq own /\ Beyond(left, KeepAll - 1) \subseteq left
  BY DEF Beyond
<1>8. \A s \in sessions : s.id \in Nat /\ s.id < t.id /\ s # t
  BY <1>1 DEF Numbered
<1>9. OfOwner(left, o) = own \ Beyond(own, KeepOwner - 1)
  BY <1>7 DEF OfOwner, own, left
<1>10. sessions' = kept \cup {t} /\ t \notin kept
  BY <1>2, <1>3, <1>8
<1>11. Numbered(sessions', lastId')
  BY <1>1, <1>4, <1>8, <1>10 DEF Numbered
<1>12. \A S \in SUBSET sessions : IsFiniteSet(S) /\ Cardinality(S) \in Nat
  BY <1>1, NumberedIsFinite
<1>13. \A S \in SUBSET kept : IsFiniteSet(S) /\ Cardinality(S) \in Nat /\ Cardinality(S \cup {t}) = Cardinality(S) + 1
  <2> SUFFICES ASSUME NEW S \in SUBSET kept
               PROVE  IsFiniteSet(S) /\ Cardinality(S) \in Nat /\ Cardinality(S \cup {t}) = Cardinality(S) + 1
    OBVIOUS
  <2>1. IsFiniteSet(S) /\ Cardinality(S) \in Nat /\ t \notin S
    BY <1>3, <1>10, <1>12
  <2> QED
    BY <2>1, FS_AddElement
<1>14. Cardinality(sessions') <= KeepAll
  <2>1. Cardinality(kept) \in Nat /\ Cardinality(sessions') = Cardinality(kept) + 1
    BY <1>10, <1>13
  <2> QED
    BY <1>1, <1>6, <2>1
<1>15. ASSUME NEW x \in Owners PROVE Cardinality(OfOwner(sessions', x)) <= KeepOwner
  <2>1. OfOwner(kept, x) \subseteq kept /\ OfOwner(kept, x) \subseteq OfOwner(left, x)
    BY <1>3 DEF OfOwner
  <2>2. OfOwner(left, x) \subseteq OfOwner(sessions, x) /\ OfOwner(sessions, x) \subseteq sessions
    BY <1>3 DEF OfOwner
  <2>3. /\ Cardinality(OfOwner(kept, x)) \in Nat /\ Cardinality(OfOwner(left, x)) \in Nat
        /\ IsFiniteSet(OfOwner(left, x)) /\ IsFiniteSet(OfOwner(sessions, x))
        /\ Cardinality(OfOwner(sessions, x)) \in Nat
    BY <1>3, <1>12, <2>1, <2>2
  <2>4. Cardinality(OfOwner(kept, x)) <= Cardinality(OfOwner(left, x))
    BY <2>1, <2>3, FS_Subset
  <2>5. CASE x = o
    <3>1. OfOwner(sessions', x) = OfOwner(kept, x) \cup {t}
      BY <1>10, <2>5 DEF OfOwner
    <3>2. Cardinality(OfOwner(sessions', x)) = Cardinality(OfOwner(kept, x)) + 1
      BY <1>13, <2>1, <3>1
    <3>3. Cardinality(OfOwner(left, x)) <= KeepOwner - 1
      BY <1>5, <1>9, <2>5
    <3> QED
      BY <1>1, <2>3, <2>4, <3>2, <3>3
  <2>6. CASE x # o
    <3>1. OfOwner(sessions', x) = OfOwner(kept, x)
      BY <1>10, <2>6 DEF OfOwner
    <3>2. Cardinality(OfOwner(left, x)) <= Cardinality(OfOwner(sessions, x))
      BY <2>2, <2>3, FS_Subset
    <3>3. Cardinality(OfOwner(sessions, x)) <= KeepOwner
      BY DEF SessionsInv
    <3> QED
      BY <1>1, <2>3, <2>4, <3>1, <3>2, <3>3
  <2> QED
    BY <2>5, <2>6
<1>16. SessionsInv'
  <2>1. \A u \in sessions' : u \in Rows /\ NoVideoTwice(u) /\ Counted(u)
    BY <1>3, <1>10 DEF SessionsInv
  <2>2. \A u \in sessions' : Counted(u) <=> Counted(u)'
    BY DEF Counted
  <2>3. lastId' \in 0 .. MaxSearches
    BY <1>1
  <2> QED
    BY <1>11, <1>15, <2>1, <2>2, <2>3 DEF SessionsInv, OfOwner, NoVideoTwice, Rows
<1>17. ASSUME NEW u \in Beyond(left, KeepAll - 1), NEW s \in sessions, s.id <= u.id
       PROVE  Cardinality({x \in sessions' : x.id > s.id}) = KeepAll
  <2>1. u \in sessions /\ u.id \in Nat /\ s.id \in Nat
    BY <1>3, <1>7, <1>8
  <2>2. \A x \in kept : x.id > s.id
    <3> SUFFICES ASSUME NEW x \in kept PROVE x.id > s.id
      OBVIOUS
    <3>1. x.id > u.id /\ x.id \in Nat
      BY <1>3, <1>6, <1>8
    <3> QED
      BY <1>17, <2>1, <3>1
  <2>3. t.id > s.id
    BY <1>8, <2>1
  <2>4. {x \in sessions' : x.id > s.id} = kept \cup {t}
    BY <1>10, <2>2, <2>3
  <2>5. Cardinality(kept \cup {t}) = Cardinality(kept) + 1 /\ Cardinality(kept) = KeepAll - 1
    BY <1>6, <1>13
  <2>6. Cardinality(kept \cup {t}) = KeepAll
    BY <1>1, <2>5
  <2> QED
    BY <2>4, <2>6
<1>18. ASSUME NEW s \in Beyond(own, KeepOwner - 1), Beyond(left, KeepAll - 1) \cap own = {}
       PROVE  Cardinality({x \in sessions' : x.owner = s.owner /\ x.id > s.id}) = KeepOwner
  <2>1. s \in sessions /\ s.owner = o /\ s.id \in Nat
    BY <1>3, <1>7, <1>8 DEF own, OfOwner
  <2>2. OfOwner(kept, o) = OfOwner(left, o)
    <3>1. \A x \in OfOwner(left, o) : x \in own
      BY <1>9
    <3> QED
      BY <1>3, <1>18, <3>1 DEF OfOwner, kept
  <2>3. \A x \in OfOwner(kept, o) : x.id > s.id
    BY <1>5, <1>9, <2>2
  <2>4. t.id > s.id
    BY <1>8, <2>1
  <2>5. {x \in sessions' : x.owner = s.owner /\ x.id > s.id} = OfOwner(kept, o) \cup {t}
    BY <1>10, <2>1, <2>3, <2>4 DEF OfOwner
  <2>6. OfOwner(kept, o) \subseteq kept
    BY DEF OfOwner
  <2>7. Cardinality(OfOwner(kept, o) \cup {t}) = Cardinality(OfOwner(kept, o)) + 1
    BY <1>13, <2>6
  <2>8. Cardinality(OfOwner(kept, o)) = KeepOwner - 1
    BY <1>5, <1>9, <2>2
  <2>9. Cardinality(OfOwner(kept, o) \cup {t}) = KeepOwner
    BY <1>1, <2>7, <2>8
  <2> QED
    BY <2>5, <2>9
<1>19. ASSUME NEW s \in sessions PROVE s \in kept \/ Outlived(s)
  <2>1. \A x \in Owners : Cardinality({y \in sessions' : y.owner = x}) <= KeepOwner
    BY <1>15 DEF OfOwner
  <2>2. ASSUME NEW u \in Beyond(left, KeepAll - 1), s.id <= u.id PROVE Outlived(s)
    BY <1>14, <1>17, <2>1, <2>2 DEF Outlived
  <2>3. CASE s \in Beyond(left, KeepAll - 1)
    BY <1>8, <2>2, <2>3
  <2>4. CASE s \in Beyond(own, KeepOwner - 1) /\ Beyond(left, KeepAll - 1) \cap own = {}
    BY <1>14, <1>18, <2>1, <2>4 DEF Outlived
  <2>5. ASSUME s \in Beyond(own, KeepOwner - 1), NEW u \in Beyond(left, KeepAll - 1) \cap own PROVE Outlived(s)
    <3>1. u \in own \ Beyond(own, KeepOwner - 1)
      BY <1>7, <2>5 DEF left
    <3>2. u.id > s.id /\ u.id \in Nat /\ s.id \in Nat
      BY <1>3, <1>5, <1>8, <2>5, <3>1
    <3> QED
      BY <2>2, <2>5, <3>2
  <2>6. s \in left \/ s \in Beyond(own, KeepOwner - 1)
    BY DEF left
  <2>7. s \in left => s \in kept \/ s \in Beyond(left, KeepAll - 1)
    BY DEF kept
  <2> QED
    BY <2>3, <2>4, <2>5, <2>6, <2>7
<1>20. Fixed
  <2>1. \A s \in kept : s \in sessions' /\ Same(s, s)
    BY <1>10 DEF Same
  <2> QED
    BY <1>19, <2>1 DEF Fixed
<1> QED
  BY <1>16, <1>20

-----------------------------------------------------------------------------
(* Requests                                                                *)

Calls == [search : Ids, page : Pages, by : 1 .. MaxRequests]
Waits == [id : 1 .. MaxRequests, search : Ids, page : Pages]

\* A page is asked for once and is not recorded yet; only words are searched for.
CallsInv ==
    /\ calls \subseteq Calls
    /\ \A c \in calls : c.search <= lastId
    /\ subject.kind # "words" => calls = {}
    /\ \A c, d \in calls : c.search = d.search /\ c.page = d.page => c = d
    /\ \A c \in calls, s \in sessions : c.search = s.id => s.source # "local" /\ s.pages[c.page] = None

\* Who waits has a call that will answer.
WaitInv ==
    /\ waiting \subseteq Waits
    /\ subject.kind = "words" => \A w \in waiting : UnderWay(w.search, w.page)

IInv == SessionsInv /\ CallsInv /\ WaitInv

\* The source and the login of a search.
LEMMA Selected ==
    ASSUME NEW k \in Logins, NEW ask \in Attempts, Selection(k, ask) # None
    PROVE  /\ Selection(k, ask).source \in Sources /\ Selection(k, ask).key \in Logins \cup {None}
           /\ k.owner \in Owners /\ ask.page \in Pages
<1>1. k.owner \in Owners
  BY DEF Logins, Owners
<1>2. ask.page \in Pages /\ ask.choice \in {"auto", "local", "bilibili", "kernel"}
  BY DEF Attempts
<1>3. \/ ask.choice \in {"local", "bilibili"} /\ Selection(k, ask) = [source |-> ask.choice, key |-> None]
      \/ Selection(k, ask) = [source |-> "bilibili", key |-> None]
      \/ Selection(k, ask) = [source |-> "kernel", key |-> k]
  BY DEF Selection
<1>4. CASE ask.choice \in {"local", "bilibili"} /\ Selection(k, ask) = [source |-> ask.choice, key |-> None]
  BY <1>1, <1>2, <1>4 DEF Sources
<1>5. CASE Selection(k, ask) = [source |-> "bilibili", key |-> None]
  BY <1>1, <1>2, <1>5 DEF Sources
<1>6. CASE Selection(k, ask) = [source |-> "kernel", key |-> k]
  BY <1>1, <1>2, <1>6 DEF Sources
<1> QED
  BY <1>3, <1>4, <1>5, <1>6

\* The session of a request that is not refused: a new one, or one that is kept.
LEMMA SessionAsked ==
    ASSUME SessionsInv, NEW k \in Logins, NEW ask \in Attempts, SearchSession(k, ask)
    PROVE  /\ Session(k, ask) \in Rows /\ NoVideoTwice(Session(k, ask)) /\ Counted(Session(k, ask))
           /\ Session(k, ask).source = Selection(k, ask).source /\ Session(k, ask).owner = k.owner
           /\ \/ /\ Session(k, ask).id = lastId + 1 /\ lastId' = lastId + 1 /\ lastId < MaxSearches
                 /\ Others(k, ask) = Retained(k.owner)
              \/ /\ Session(k, ask) \in sessions /\ lastId' = lastId
                 /\ Others(k, ask) = sessions \ {Session(k, ask)}
<1> DEFINE at == Selection(k, ask)
<1>1. /\ at # None /\ at.source \in Sources /\ at.key \in Logins \cup {None} /\ k.owner \in Owners
      /\ lastId \in Nat
  BY Selected, SearchAssumption DEF SearchSession, SessionsInv
<1> HIDE DEF at
<1>2. CASE ask.search = None
  <2>1. /\ Session(k, ask) = NewSession(k.owner, at) /\ Others(k, ask) = Retained(k.owner)
        /\ lastId' = lastId + 1 /\ lastId < MaxSearches
    BY <1>2 DEF Session, Others, SearchSession, at
  <2> DEFINE s == NewSession(k.owner, at)
  <2>2. /\ s.id = lastId + 1 /\ s.owner = k.owner /\ s.source = at.source /\ s.total = None
        /\ s.pages = [p \in Pages |-> None]
    BY DEF NewSession
  <2>3. s \in Rows
    BY <1>1 DEF NewSession, Rows
  <2>4. NoVideoTwice(s) /\ Counted(s)
    BY <2>2 DEF NoVideoTwice, Counted
  <2> HIDE DEF s
  <2> QED
    BY <2>1, <2>2, <2>3, <2>4 DEF s, at
<1>3. CASE ask.search # None
  <2>1. Valid(k, ask, at) # {} /\ lastId' = lastId /\ Session(k, ask) = CHOOSE s \in Valid(k, ask, at) : TRUE
    BY <1>3 DEF SearchSession, Session, at
  <2>2. Session(k, ask) \in Valid(k, ask, at)
    BY <2>1
  <2>3. Session(k, ask) \in sessions /\ Session(k, ask).owner = k.owner /\ Session(k, ask).source = at.source
    BY <2>2 DEF Valid
  <2>4. Others(k, ask) = sessions \ {Session(k, ask)}
    BY <1>3 DEF Others
  <2>5. Session(k, ask) \in Rows /\ NoVideoTwice(Session(k, ask)) /\ Counted(Session(k, ask))
    BY <2>3 DEF SessionsInv
  <2> QED
    BY <2>1, <2>3, <2>4, <2>5 DEF at
<1> QED
  BY <1>2, <1>3

\* A request stores its session again, with no more than pages recorded.
LEMMA Stored ==
    ASSUME SessionsInv, NEW k \in Logins, NEW ask \in Attempts, SearchSession(k, ask), NEW t \in Rows,
           NoVideoTwice(t), Counted(t), Same(Session(k, ask), t), Store(k, ask, t), UNCHANGED subject
    PROVE  SessionsInv' /\ Fixed
<1> DEFINE s == Session(k, ask)
<1>1. sessions' = Others(k, ask) \cup {t} /\ k.owner \in Owners
  BY Selected DEF Store, SearchSession
<1>2. t.id = s.id /\ t.owner = s.owner /\ Same(s, t)
  BY DEF Same
<1>3. CASE /\ s.id = lastId + 1 /\ lastId' = lastId + 1 /\ lastId < MaxSearches
           /\ Others(k, ask) = Retained(k.owner)
  <2>1. s.owner = k.owner
    BY SessionAsked
  <2> HIDE DEF s
  <2> QED
    BY <1>1, <1>2, <1>3, <2>1, OneAdded
<1>4. CASE s \in sessions /\ lastId' = lastId /\ Others(k, ask) = sessions \ {s}
  <2> HIDE DEF s
  <2> QED
    BY <1>1, <1>2, <1>4, OneChanges
<1> QED
  BY <1>3, <1>4, SessionAsked

\* The calls under way still answer for pages that are not recorded.
LEMMA CallsKept ==
    ASSUME SessionsInv, CallsInv, NEW k \in Logins, NEW ask \in Attempts, SearchSession(k, ask), NEW t \in Rows,
           Same(Session(k, ask), t), Store(k, ask, t),
           subject.kind = "words" => t = Session(k, ask) \/ Session(k, ask).source = "local"
    PROVE  /\ \A c \in calls, u \in sessions' : c.search = u.id => u.source # "local" /\ u.pages[c.page] = None
           /\ \A c \in calls : c.search <= lastId'
<1> DEFINE s == Session(k, ask)
           others == Others(k, ask)
<1>1. sessions' = others \cup {t} /\ t.id = s.id
  BY DEF Store, Same
<1>2. lastId \in Nat
  BY SearchAssumption DEF SessionsInv
<1>3. \/ s.id = lastId + 1 /\ lastId' = lastId + 1 /\ others = Retained(k.owner)
      \/ s \in sessions /\ lastId' = lastId /\ others = sessions \ {s}
  BY SessionAsked
<1>4. Retained(k.owner) \subseteq sessions
  BY DEF Retained
<1> HIDE DEF s, others
<1>5. others \subseteq sessions /\ (s.id = lastId + 1 \/ s \in sessions)
  BY <1>3, <1>4
<1>6. lastId' \in Nat /\ lastId <= lastId'
  BY <1>2, <1>3
<1>7. \A c \in calls : c \in Calls /\ c.search \in Nat /\ c.search <= lastId
  BY DEF CallsInv, Calls, Ids
<1>8. ASSUME NEW c \in calls, NEW u \in sessions', c.search = u.id
      PROVE  u.source # "local" /\ u.pages[c.page] = None
  <2>1. CASE u \in sessions
    BY <1>8, <2>1 DEF CallsInv
  <2>2. CASE u = t
    <3>1. s \in sessions /\ c.search = s.id
      BY <1>1, <1>2, <1>5, <1>7, <1>8, <2>2
    <3>2. s.source # "local" /\ s.pages[c.page] = None
      BY <3>1 DEF CallsInv
    <3>3. subject.kind = "words"
      BY DEF CallsInv
    <3>4. u = s
      BY <2>2, <3>2, <3>3 DEF s
    <3> QED
      BY <3>2, <3>4
  <2> QED
    BY <1>1, <1>5, <2>1, <2>2
<1>9. \A c \in calls : c.search <= lastId'
  BY <1>2, <1>6, <1>7
<1> QED
  BY <1>8, <1>9

\* A page is answered without an await: nothing but the session of the request changes.
LEMMA Served ==
    ASSUME IInv, NEW k \in Logins, NEW ask \in Attempts, SearchSession(k, ask), NEW t \in Rows,
           NoVideoTwice(t), Counted(t), Same(Session(k, ask), t), Store(k, ask, t),
           UNCHANGED <<subject, calls, waiting>>,
           subject.kind = "words" => t = Session(k, ask) \/ Session(k, ask).source = "local"
    PROVE  IInv' /\ Fixed
<1>1. SessionsInv' /\ Fixed
  BY Stored DEF IInv
<1>2. CallsInv'
  <2>1. /\ \A c \in calls, u \in sessions' : c.search = u.id => u.source # "local" /\ u.pages[c.page] = None
        /\ \A c \in calls : c.search <= lastId'
    BY CallsKept DEF IInv
  <2>2. CallsInv
    BY DEF IInv
  <2> QED
    BY <2>1, <2>2 DEF CallsInv
<1>3. WaitInv'
  BY DEF IInv, WaitInv, UnderWay
<1> QED
  BY <1>1, <1>2, <1>3 DEF IInv

\* A session that shows the same after each of two changes shows the same after both.
LEMMA SameTwice ==
    ASSUME NEW s, NEW t, NEW u, Same(s, t), Same(t, u)
    PROVE  Same(s, u)
<1>1. \A p \in Pages : s.pages[p] \in {None, u.pages[p]}
  BY DEF Same
<1> QED
  BY <1>1 DEF Same

\* A BV id or a Douyin link.
LEMMA DirectServed ==
    ASSUME IInv, NEW k \in Logins, NEW ask \in Attempts, SearchSession(k, ask), ServeDirect(k, ask)
    PROVE  IInv' /\ Fixed
<1> DEFINE s == Session(k, ask)
           p == ask.page
<1>1. PICK S \in SUBSET {subject.video} : Store(k, ask, Commit(s, p, S, 1))
  BY DEF ServeDirect
<1> DEFINE t == Commit(s, p, S, 1)
<1>2. UNCHANGED <<subject, calls, waiting>> /\ subject.kind # "words"
  BY DEF ServeDirect
<1>3. SessionsInv /\ S \in SUBSET Bvids /\ 1 \in Nat \cup {None} /\ p \in Pages
  <2>1. SessionsInv
    BY DEF IInv
  <2>2. S \in SUBSET Bvids
    BY <2>1 DEF SessionsInv
  <2>3. p \in Pages
    BY DEF Attempts
  <2> QED
    BY <2>1, <2>2, <2>3
<1>4. s \in Rows /\ NoVideoTwice(s) /\ Counted(s)
  BY <1>3, SessionAsked
<1> HIDE DEF s, p
<1>5. t \in Rows /\ NoVideoTwice(t) /\ Same(s, t)
  BY <1>3, <1>4, Committed
<1>6. Counted(t)
  BY <1>2 DEF Counted
<1>7. Store(k, ask, t) /\ Same(Session(k, ask), t)
  BY <1>1, <1>5 DEF s
<1> HIDE DEF t
<1> QED
  BY <1>2, <1>5, <1>6, <1>7, Served

\* The matches in an order, cut to the last page.
LEMMA PoolCut ==
    ASSUME NEW matches \in Seq(Bvids)
    PROVE  /\ SubSeq(matches, 1, Min({PageSize * MaxPages, Len(matches)})) \in Pools
           /\ (Len(matches) + PageSize - 1) \div PageSize \in Nat
<1> DEFINE most == PageSize * MaxPages
           n == Min({most, Len(matches)})
<1>1. PageSize \in Nat \ {0} /\ MaxPages \in Nat \ {0} /\ Len(matches) \in Nat
  BY SearchAssumption
<1>2. most \in Nat
  BY <1>1
<1>3. n \in Nat /\ n <= most /\ n <= Len(matches)
  <2>1. CASE most <= Len(matches)
    <3>1. n = most
      BY <1>1, <1>2, <2>1 DEF Min
    <3> QED
      BY <1>1, <1>2, <2>1, <3>1
  <2>2. CASE Len(matches) < most
    <3>1. n = Len(matches)
      BY <1>1, <1>2, <2>2 DEF Min
    <3> QED
      BY <1>1, <1>2, <2>2, <3>1
  <2> HIDE DEF most
  <2> QED
    BY <1>1, <1>2, <2>1, <2>2
<1> HIDE DEF most, n
<1>4. SubSeq(matches, 1, n) \in [1 .. n -> Bvids]
  <2>1. \A i \in 1 .. n : matches[i] \in Bvids
    BY <1>1, <1>3
  <2>2. SubSeq(matches, 1, n) \in Seq(Bvids) /\ Len(SubSeq(matches, 1, n)) = IF 1 <= n THEN n - 1 + 1 ELSE 0
    BY <1>3, <2>1, SubSeqProperties
  <2>3. Len(SubSeq(matches, 1, n)) = n
    BY <1>3, <2>2
  <2> DEFINE q == SubSeq(matches, 1, n)
  <2>4. q \in Seq(Bvids) /\ Len(q) = n
    BY <2>2, <2>3
  <2> HIDE DEF q
  <2>5. q \in [1 .. n -> Bvids]
    BY <2>4
  <2> QED
    BY <2>5 DEF q
<1>5. SubSeq(matches, 1, n) \in SeqOf(Bvids, most)
  BY <1>2, <1>3, <1>4 DEF SeqOf
<1>6. (Len(matches) + PageSize - 1) \div PageSize \in Nat
  BY <1>1
<1> QED
  BY <1>5, <1>6 DEF n, most, Pools

\* What the local records tell is a sequence of videos.
LEMMA MatchesAreSequences == Matches \subseteq Seq(Bvids)
<1>1. ASSUME NEW S \in SUBSET Bvids, NEW f \in SetToSeqs(S) PROVE f \in Seq(Bvids)
  <2>1. Cardinality(S) \in Nat
    BY FS_Subset, FS_CardinalityType, SearchAssumption
  <2>2. f \in [1 .. Cardinality(S) -> S]
    BY DEF SetToSeqs
  <2>3. f \in [1 .. Cardinality(S) -> Bvids]
    BY <2>2
  <2> QED
    BY <2>1, <2>3
<1> QED
  BY <1>1 DEF Matches

\* The local records: the first page asked for freezes the matches and counts their pages.
LEMMA PoolFrozen ==
    ASSUME SessionsInv, subject.kind = "words", NEW s \in Rows, NoVideoTwice(s), Counted(s), s.source = "local",
           NEW matches \in Matches
    PROVE  LET t == [s EXCEPT !.pool = Pool(s, matches), !.total = PoolPages(s, matches)]
           IN  /\ t \in Rows /\ NoVideoTwice(t) /\ Same(s, t) /\ t.pool # None
               /\ \A p \in Pages : OnPage(t.pool, p) \in SUBSET Bvids
<1> DEFINE pool == Pool(s, matches)
           count == PoolPages(s, matches)
           t == [s EXCEPT !.pool = pool, !.total = count]
<1>1. /\ SubSeq(matches, 1, Min({PageSize * MaxPages, Len(matches)})) \in Pools
      /\ (Len(matches) + PageSize - 1) \div PageSize \in Nat
  BY MatchesAreSequences, PoolCut
<1>2. s.pool \in Pools \cup {None} /\ s.total \in Nat \cup {None}
  BY DEF Rows
<1>3. pool \in Pools /\ count \in Nat \cup {None}
  BY <1>1, <1>2 DEF Pool, PoolPages
<1>4. s.pool \in {None, pool} /\ s.total \in {None, count}
  BY DEF Pool, PoolPages, Counted
<1> HIDE DEF pool, count
<1>5. t \in Rows
  BY <1>3 DEF Rows
<1>6. /\ t.pool = pool /\ t.total = count /\ t.pages = s.pages
      /\ t.id = s.id /\ t.owner = s.owner /\ t.source = s.source /\ t.key = s.key
  BY DEF Rows
<1> HIDE DEF t
<1>7. NoVideoTwice(t)
  BY <1>6 DEF NoVideoTwice
<1>8. Same(s, t)
  BY <1>4, <1>6 DEF Same
<1>9. t.pool # None
  BY <1>3, <1>6, NullAssumption DEF Pools
<1>10. \A p \in Pages : OnPage(t.pool, p) \in SUBSET Bvids
  <2>1. PICK m \in Nat : pool \in [1 .. m -> Bvids]
    BY <1>3 DEF Pools, SeqOf
  <2> QED
    BY <1>6, <2>1 DEF OnPage
<1> QED
  BY <1>5, <1>7, <1>8, <1>9, <1>10 DEF t, pool, count

\* Words, searched for in the local records.
LEMMA LocalServed ==
    ASSUME IInv, NEW k \in Logins, NEW ask \in Attempts, SearchSession(k, ask), NEW matches \in Matches,
           ServeLocal(k, ask, matches)
    PROVE  IInv' /\ Fixed
<1> DEFINE s == Session(k, ask)
           p == ask.page
           t == [s EXCEPT !.pool = Pool(s, matches), !.total = PoolPages(s, matches)]
           u == Commit(t, p, OnPage(t.pool, p), t.total)
<1>1. /\ subject.kind = "words" /\ Selection(k, ask).source = "local"
      /\ Store(k, ask, u) /\ UNCHANGED <<subject, calls, waiting>>
  BY DEF ServeLocal
<1>2. SessionsInv /\ p \in Pages
  BY DEF IInv, Attempts
<1>3. s \in Rows /\ NoVideoTwice(s) /\ Counted(s) /\ s.source = "local"
  BY <1>1, <1>2, SessionAsked
<1> HIDE DEF s, p
<1>4. /\ t \in Rows /\ NoVideoTwice(t) /\ Same(s, t) /\ t.pool # None
      /\ OnPage(t.pool, p) \in SUBSET Bvids
  BY <1>1, <1>2, <1>3, PoolFrozen
<1> HIDE DEF t
<1>5. t.total \in Nat \cup {None}
  BY <1>4 DEF Rows
<1>6. u \in Rows /\ NoVideoTwice(u) /\ Same(t, u) /\ u.pool = t.pool
  BY <1>2, <1>4, <1>5, Committed
<1> HIDE DEF u
<1>7. Same(s, u)
  BY <1>4, <1>6, SameTwice
<1>8. Counted(u)
  BY <1>4, <1>6 DEF Counted
<1>9. Store(k, ask, u) /\ Same(Session(k, ask), u) /\ Session(k, ask).source = "local"
  BY <1>1, <1>3, <1>7 DEF s
<1> QED
  BY <1>1, <1>6, <1>8, <1>9, Served

\* The session of a request has an id that was handed out.
LEMMA AskedId ==
    ASSUME SessionsInv, NEW k \in Logins, NEW ask \in Attempts, SearchSession(k, ask)
    PROVE  Session(k, ask).id \in Ids /\ Session(k, ask).id <= lastId'
<1> DEFINE s == Session(k, ask)
<1>1. \/ s.id = lastId + 1 /\ lastId' = lastId + 1 /\ lastId < MaxSearches
      \/ s \in sessions /\ lastId' = lastId
  BY SessionAsked
<1> HIDE DEF s
<1>2. lastId \in Nat /\ lastId <= MaxSearches /\ MaxSearches \in Nat
  BY SearchAssumption DEF SessionsInv
<1>3. s \in sessions => s.id \in 1 .. lastId
  BY DEF SessionsInv, Numbered
<1>4. s.id \in Ids /\ s.id <= lastId'
  BY <1>1, <1>2, <1>3 DEF Ids
<1> QED
  BY <1>4 DEF s

\* A request stores its session as it was and awaits an answer.
LEMMA Awaited ==
    ASSUME IInv, NEW k \in Logins, NEW ask \in Attempts, SearchSession(k, ask), NEW n \in 1 .. MaxRequests,
           Await(k, ask, n), UNCHANGED subject
    PROVE  /\ SessionsInv' /\ Fixed /\ waiting' \subseteq Waits
           /\ waiting' = waiting \cup {[id |-> n, search |-> Session(k, ask).id, page |-> ask.page]}
           /\ \A c \in calls, u \in sessions' : c.search = u.id => u.source # "local" /\ u.pages[c.page] = None
           /\ \A c \in calls : c.search <= lastId'
<1> DEFINE s == Session(k, ask)
<1>1. /\ Store(k, ask, s)
      /\ waiting' = waiting \cup {[id |-> n, search |-> s.id, page |-> ask.page]}
  BY DEF Await
<1>2. SessionsInv /\ CallsInv /\ WaitInv /\ ask.page \in Pages
  BY DEF IInv, Attempts
<1>3. s \in Rows /\ NoVideoTwice(s) /\ Counted(s) /\ s.id \in Ids
  BY <1>2, SessionAsked, AskedId
<1>4. Same(s, s)
  BY DEF Same
<1>5. SessionsInv' /\ Fixed
  BY <1>1, <1>2, <1>3, <1>4, Stored
<1>6. /\ \A c \in calls, u \in sessions' : c.search = u.id => u.source # "local" /\ u.pages[c.page] = None
      /\ \A c \in calls : c.search <= lastId'
  BY <1>1, <1>2, <1>3, <1>4, CallsKept
<1>7. waiting' \subseteq Waits
  BY <1>1, <1>2, <1>3 DEF WaitInv, Waits
<1> QED
  BY <1>1, <1>5, <1>6, <1>7

\* A request that awaits the kernel's look at a Douyin link.
LEMMA DouyinAsked ==
    ASSUME IInv, NEW k \in Logins, NEW ask \in Attempts, SearchSession(k, ask), NEW n \in 1 .. MaxRequests,
           AskDouyin(k, ask, n)
    PROVE  IInv' /\ Fixed
<1>1. subject.kind = "douyin" /\ Await(k, ask, n) /\ UNCHANGED <<subject, calls>>
  BY DEF AskDouyin
<1>2. CallsInv
  BY DEF IInv
<1>3. /\ SessionsInv' /\ Fixed /\ waiting' \subseteq Waits
      /\ \A c \in calls, u \in sessions' : c.search = u.id => u.source # "local" /\ u.pages[c.page] = None
      /\ \A c \in calls : c.search <= lastId'
  BY <1>1, Awaited
<1>4. CallsInv'
  BY <1>1, <1>2, <1>3 DEF CallsInv
<1>5. WaitInv'
  BY <1>1, <1>3 DEF WaitInv
<1> QED
  BY <1>3, <1>4, <1>5 DEF IInv

\* A request that asks the provider, or waits for the call of another.
LEMMA RemoteAsked ==
    ASSUME IInv, NEW k \in Logins, NEW ask \in Attempts, SearchSession(k, ask), ~Frozen(k, ask),
           NEW n \in 1 .. MaxRequests, ServeRemote(k, ask, n)
    PROVE  IInv' /\ Fixed
<1> DEFINE s == Session(k, ask)
           p == ask.page
           call == [search |-> s.id, page |-> p, by |-> n]
<1>1. /\ subject.kind = "words" /\ Selection(k, ask).source # "local" /\ Await(k, ask, n) /\ UNCHANGED subject
      /\ calls' = IF UnderWay(s.id, p) THEN calls ELSE calls \cup {call}
      /\ Store(k, ask, s)
  BY DEF ServeRemote, Await
<1>2. SessionsInv /\ CallsInv /\ WaitInv /\ p \in Pages
  BY DEF IInv, Attempts
<1>3. /\ SessionsInv' /\ Fixed /\ waiting' \subseteq Waits
      /\ waiting' = waiting \cup {[id |-> n, search |-> s.id, page |-> p]}
      /\ \A c \in calls, u \in sessions' : c.search = u.id => u.source # "local" /\ u.pages[c.page] = None
      /\ \A c \in calls : c.search <= lastId'
  BY <1>1, Awaited
<1>4. s.source # "local" /\ s.id \in Ids /\ s.id <= lastId' /\ s.pages[p] = None /\ s \in sessions'
  BY <1>1, <1>2, SessionAsked, AskedId DEF Frozen, Store
<1> HIDE DEF s, p
<1>5. \A u \in sessions' : u.id = s.id => u = s
  BY <1>3, <1>4 DEF SessionsInv, Numbered
<1>6. call \in Calls
  BY <1>2, <1>4 DEF Calls
<1>7. calls \subseteq calls' /\ \E c \in calls' : c.search = s.id /\ c.page = p
  <2>1. CASE UnderWay(s.id, p)
    BY <1>1, <2>1 DEF UnderWay
  <2>2. CASE ~UnderWay(s.id, p)
    <3>1. call \in calls' /\ calls \subseteq calls' /\ call.search = s.id /\ call.page = p
      BY <1>1, <2>2
    <3> HIDE DEF call
    <3> QED
      BY <3>1
  <2> QED
    BY <2>1, <2>2
<1>8. CallsInv'
  <2>1. CASE UnderWay(s.id, p)
    BY <1>1, <1>2, <1>3, <2>1 DEF CallsInv
  <2>2. CASE ~UnderWay(s.id, p)
    <3>1. calls' = calls \cup {call} /\ call.search = s.id /\ call.page = p
      BY <1>1, <2>2
    <3> HIDE DEF call
    <3>2. \A c \in calls : ~(c.search = call.search /\ c.page = call.page)
      BY <2>2, <3>1 DEF UnderWay
    <3>3. \A u \in sessions' : call.search = u.id => u.source # "local" /\ u.pages[call.page] = None
      BY <1>4, <1>5, <3>1
    <3> QED
      BY <1>1, <1>2, <1>3, <1>4, <1>6, <3>1, <3>2, <3>3 DEF CallsInv
  <2> QED
    BY <2>1, <2>2
<1>9. WaitInv'
  <2>1. ASSUME NEW w \in waiting' PROVE UnderWay(w.search, w.page)'
    <3>1. CASE w \in waiting
      BY <1>1, <1>2, <1>7, <3>1 DEF WaitInv, UnderWay
    <3>2. CASE w = [id |-> n, search |-> s.id, page |-> p]
      BY <1>7, <3>2 DEF UnderWay
    <3> QED
      BY <1>3, <3>1, <3>2
  <2> QED
    BY <1>3, <2>1 DEF WaitInv
<1> QED
  BY <1>3, <1>8, <1>9 DEF IInv

-----------------------------------------------------------------------------
(* Answers, expiry and a restart                                           *)

\* Sessions that stay as they are.
LEMMA SessionsStay ==
    ASSUME SessionsInv, UNCHANGED <<subject, sessions, lastId>>
    PROVE  SessionsInv' /\ Fixed
<1>1. SessionsInv'
  BY DEF SessionsInv, OfOwner, Counted, NoVideoTwice
<1>2. Fixed
  BY DEF Fixed, Same
<1> QED
  BY <1>1, <1>2

\* A call that ends leaves nobody who waits for it.
LEMMA WaitersKept ==
    ASSUME WaitInv, NEW c \in calls, calls' = calls \ {c}, waiting' = waiting \ Waiters(c), UNCHANGED subject
    PROVE  WaitInv'
<1>1. ASSUME subject.kind = "words", NEW w \in waiting' PROVE UnderWay(w.search, w.page)'
  <2>1. PICK d \in calls : d.search = w.search /\ d.page = w.page
    BY <1>1 DEF WaitInv, UnderWay
  <2>2. d # c
    BY <2>1 DEF Waiters
  <2> QED
    BY <2>1, <2>2 DEF UnderWay
<1> QED
  BY <1>1 DEF WaitInv

\* No page but page p of session n has changed.
OthersStay(n, p) == \A u \in sessions' : \E s \in sessions :
    /\ u.id = s.id /\ u.source = s.source
    /\ \A q \in Pages : ~(s.id = n /\ q = p) => u.pages[q] = s.pages[q]

\* An answer is recorded in its session, if that is still there.
LEMMA Recorded ==
    ASSUME SessionsInv, NEW n, NEW p \in Pages, NEW S \in SUBSET Bvids, NEW total \in Nat \cup {None},
           Record(n, p, S, total), UNCHANGED <<subject, lastId>>,
           subject.kind = "words" => \A s \in sessions : s.id = n => s.source # "local"
    PROVE  SessionsInv' /\ Fixed /\ OthersStay(n, p)
<1> DEFINE t(s) == Commit(s, p, S, total)
<1>1. sessions' = {IF s.id = n THEN t(s) ELSE s : s \in sessions}
  BY DEF Record
<1>2. \A s \in sessions : s \in Rows /\ NoVideoTwice(s) /\ Counted(s)
  BY DEF SessionsInv
<1>3. ASSUME NEW s \in sessions
      PROVE  /\ t(s) \in Rows /\ NoVideoTwice(t(s)) /\ Same(s, t(s)) /\ t(s).pool = s.pool
             /\ \A q \in Pages \ {p} : t(s).pages[q] = s.pages[q]
  BY <1>2, Committed
<1>4. \A s \in sessions : t(s).id = s.id /\ t(s).source = s.source
  BY <1>3 DEF Same
<1> HIDE DEF t
<1>5. CASE \E s \in sessions : s.id = n
  <2>1. PICK s \in sessions : s.id = n
    BY <1>5
  <2>2. \A x \in sessions : x.id = n => x = s
    BY <2>1 DEF SessionsInv, Numbered
  <2>3. sessions' = (sessions \ {s}) \cup {t(s)}
    BY <1>1, <2>1, <2>2
  <2>4. Counted(t(s))
    BY <1>4, <2>1 DEF Counted
  <2>5. SessionsInv' /\ Fixed
    BY <1>3, <2>3, <2>4, OneChanges
  <2> QED
    BY <1>3, <1>4, <2>1, <2>3, <2>5 DEF OthersStay
<1>6. CASE \A s \in sessions : s.id # n
  <2>1. sessions' = sessions
    BY <1>1, <1>6
  <2>2. SessionsInv'
    BY <2>1 DEF SessionsInv, Counted
  <2>3. Fixed
    BY <2>1 DEF Fixed, Same
  <2> QED
    BY <2>1, <2>2, <2>3 DEF OthersStay
<1> QED
  BY <1>5, <1>6

\* The provider has answered: the page of the call is recorded and the call ends.
LEMMA Answered ==
    ASSUME IInv, NEW c \in calls, NEW S \in SUBSET Bvids, NEW total \in Nat \cup {None},
           ProviderAnswers(c, S, total)
    PROVE  IInv' /\ Fixed
<1>1. /\ Record(c.search, c.page, S, total) /\ UNCHANGED <<subject, lastId>>
      /\ calls' = calls \ {c} /\ waiting' = waiting \ Waiters(c)
  BY DEF ProviderAnswers
<1>2. SessionsInv /\ CallsInv /\ WaitInv
  BY DEF IInv
<1>3. c.page \in Pages
  BY <1>2 DEF CallsInv, Calls
<1>4. subject.kind = "words" => \A s \in sessions : s.id = c.search => s.source # "local"
  BY <1>2 DEF CallsInv
<1>5. SessionsInv' /\ Fixed /\ OthersStay(c.search, c.page)
  BY <1>1, <1>2, <1>3, <1>4, Recorded
<1>6. CallsInv'
  <2>1. ASSUME NEW d \in calls', NEW u \in sessions', d.search = u.id
        PROVE  u.source # "local" /\ u.pages[d.page] = None
    <3>1. d \in calls /\ d # c /\ d.page \in Pages
      BY <1>1, <1>2 DEF CallsInv, Calls
    <3>2. ~(d.search = c.search /\ d.page = c.page)
      BY <1>2, <3>1 DEF CallsInv
    <3>3. PICK s \in sessions :
            /\ u.id = s.id /\ u.source = s.source
            /\ \A q \in Pages : ~(s.id = c.search /\ q = c.page) => u.pages[q] = s.pages[q]
      BY <1>5 DEF OthersStay
    <3>4. s.source # "local" /\ s.pages[d.page] = None
      BY <1>2, <2>1, <3>1, <3>3 DEF CallsInv
    <3> QED
      BY <2>1, <3>1, <3>2, <3>3, <3>4
  <2> QED
    BY <1>1, <1>2, <2>1 DEF CallsInv
<1>7. WaitInv'
  BY <1>1, <1>2, WaitersKept
<1> QED
  BY <1>5, <1>6, <1>7 DEF IInv

\* The provider has failed: the call ends and nothing is recorded.
LEMMA Failed ==
    ASSUME IInv, NEW c \in calls, ProviderFails(c)
    PROVE  IInv' /\ Fixed
<1>1. /\ UNCHANGED <<subject, sessions, lastId>>
      /\ calls' = calls \ {c} /\ waiting' = waiting \ Waiters(c)
  BY DEF ProviderFails
<1>2. SessionsInv /\ CallsInv /\ WaitInv
  BY DEF IInv
<1>3. SessionsInv' /\ Fixed
  BY <1>1, <1>2, SessionsStay
<1>4. CallsInv'
  BY <1>1, <1>2 DEF CallsInv
<1>5. WaitInv'
  BY <1>1, <1>2, WaitersKept
<1> QED
  BY <1>3, <1>4, <1>5 DEF IInv

\* The kernel has looked a Douyin link up, or not found it.
LEMMA Looked ==
    ASSUME IInv, subject.kind = "douyin", NEW w \in waiting, DouyinAnswers(w) \/ DouyinFails(w)
    PROVE  IInv' /\ Fixed
<1>1. UNCHANGED <<subject, lastId, calls>> /\ waiting' = waiting \ {w}
  BY DEF DouyinAnswers, DouyinFails
<1>2. SessionsInv /\ CallsInv /\ WaitInv /\ calls = {}
  BY DEF IInv, CallsInv
<1>3. ASSUME DouyinAnswers(w) PROVE SessionsInv' /\ Fixed
  <2>1. Record(w.search, 1, {subject.video}, 1)
    BY <1>3 DEF DouyinAnswers
  <2>2. 1 \in Pages /\ {subject.video} \in SUBSET Bvids /\ 1 \in Nat \cup {None}
    BY <1>2, SearchAssumption DEF SessionsInv, Pages
  <2>3. subject.kind = "words" => \A s \in sessions : s.id = w.search => s.source # "local"
    OBVIOUS
  <2> QED
    BY <1>1, <1>2, <2>1, <2>2, <2>3, Recorded
<1>4. ASSUME DouyinFails(w) PROVE SessionsInv' /\ Fixed
  <2>1. UNCHANGED <<subject, sessions, lastId>>
    BY <1>1, <1>4 DEF DouyinFails
  <2> QED
    BY <1>2, <2>1, SessionsStay
<1>5. CallsInv' /\ WaitInv'
  BY <1>1, <1>2 DEF CallsInv, WaitInv
<1>6. SessionsInv' /\ Fixed
  BY <1>3, <1>4
<1> QED
  BY <1>5, <1>6 DEF IInv

\* A session is deleted after its time.
LEMMA Expired ==
    ASSUME IInv, NEW s \in sessions, Expire(s)
    PROVE  IInv' /\ Fixed
<1>1. sessions' = sessions \ {s} /\ UNCHANGED <<subject, lastId, calls, waiting>>
  BY DEF Expire
<1>2. SessionsInv /\ CallsInv /\ WaitInv /\ lastId \in Nat
  BY SearchAssumption DEF IInv, SessionsInv
<1>3. Numbered(sessions, lastId) /\ Numbered(sessions', lastId)
  BY <1>1, <1>2 DEF SessionsInv, Numbered
<1>4. ASSUME NEW o \in Owners PROVE Cardinality(OfOwner(sessions', o)) <= KeepOwner
  <2>1. Cardinality(OfOwner(sessions', o)) <= Cardinality(OfOwner(sessions, o))
    BY <1>1, <1>2, <1>3, NoMoreOf
  <2>2. Cardinality(OfOwner(sessions, o)) \in Nat
    BY <1>2, <1>3, NumberedIsFinite DEF OfOwner
  <2>3. Cardinality(OfOwner(sessions', o)) \in Nat
    BY <1>2, <1>3, NumberedIsFinite DEF OfOwner
  <2>4. Cardinality(OfOwner(sessions, o)) <= KeepOwner
    BY <1>2 DEF SessionsInv
  <2> QED
    BY <2>1, <2>2, <2>3, <2>4, SearchAssumption
<1>5. SessionsInv'
  <2>1. \A x \in sessions' : x \in Rows /\ NoVideoTwice(x) /\ Counted(x)
    BY <1>1, <1>2 DEF SessionsInv
  <2>2. \A x \in sessions' : Counted(x)'
    BY <1>1, <2>1 DEF Counted
  <2> QED
    BY <1>1, <1>2, <1>3, <1>4, <2>1, <2>2 DEF SessionsInv, OfOwner, Counted, NoVideoTwice
<1>6. Fixed
  BY <1>1 DEF Fixed, Same
<1>7. CallsInv' /\ WaitInv'
  BY <1>1, <1>2 DEF CallsInv, WaitInv, UnderWay
<1> QED
  BY <1>5, <1>6, <1>7 DEF IInv

\* The process ends and starts again: nobody waits, no call is under way.
LEMMA Restarted ==
    ASSUME IInv, Restart
    PROVE  IInv' /\ Fixed
<1>1. UNCHANGED <<subject, sessions, lastId>> /\ calls' = {} /\ waiting' = {}
  BY DEF Restart
<1>2. SessionsInv' /\ Fixed
  BY <1>1, SessionsStay DEF IInv
<1> QED
  BY <1>1, <1>2 DEF IInv, CallsInv, WaitInv

-----------------------------------------------------------------------------
(* Every step                                                              *)

\* A request for a page that is not recorded, of any kind and source.
LEMMA Requested ==
    ASSUME IInv, NEW k \in Logins, NEW ask \in Attempts, PostHandler(k, ask)
    PROVE  IInv' /\ Fixed
<1>1. SearchSession(k, ask) /\ ~Frozen(k, ask)
  BY DEF PostHandler
<1>2. CASE ServeDirect(k, ask)
  BY <1>1, <1>2, DirectServed
<1>3. CASE \E matches \in Matches : ServeLocal(k, ask, matches)
  BY <1>1, <1>3, LocalServed
<1>4. CASE \E n \in 1 .. MaxRequests : AskDouyin(k, ask, n)
  BY <1>1, <1>4, DouyinAsked
<1>5. CASE \E n \in 1 .. MaxRequests : ServeRemote(k, ask, n)
  BY <1>1, <1>5, RemoteAsked
<1> QED
  BY <1>2, <1>3, <1>4, <1>5 DEF PostHandler

\* Whatever the provider or the kernel answers, and whenever.
LEMMA ProviderSteps ==
    ASSUME IInv, Provider
    PROVE  IInv' /\ Fixed
<1>1. ASSUME NEW c \in calls, NEW a \in KernelPages \cup BilibiliPages, NEW S \in Normalized(a.videos),
             ProviderAnswers(c, S, a.total)
      PROVE  IInv' /\ Fixed
  <2>1. a \in KernelPages
    BY DEF BilibiliPages
  <2>2. S \in SUBSET Bvids /\ a.total \in Nat \cup {None}
    BY <2>1, SearchAssumption DEF KernelPages, Normalized
  <2> QED
    BY <1>1, <2>2, Answered
<1>2. ASSUME NEW c \in calls, ProviderFails(c) PROVE IInv' /\ Fixed
  BY <1>2, Failed
<1>3. ASSUME subject.kind = "douyin", NEW w \in waiting, DouyinAnswers(w) \/ DouyinFails(w) PROVE IInv' /\ Fixed
  BY <1>3, Looked
<1> QED
  BY <1>1, <1>2, <1>3 DEF Provider

\* The step lemma: IInv is kept, and no step takes back what a search has shown.
LEMMA Stepped ==
    ASSUME IInv, Next
    PROVE  IInv' /\ Fixed
<1>1. CASE \E k \in Logins, ask \in Attempts : PostHandler(k, ask)
  BY <1>1, Requested
<1>2. CASE Provider
  BY <1>2, ProviderSteps
<1>3. CASE \E s \in sessions : Expire(s)
  BY <1>3, Expired
<1>4. CASE Restart
  BY <1>4, Restarted
<1> QED
  BY <1>1, <1>2, <1>3, <1>4 DEF Next

\* Nothing is kept and nobody waits when the database is created.
LEMMA Begun == Init => IInv
<1> SUFFICES ASSUME Init PROVE IInv
  OBVIOUS
<1>1. sessions = {} /\ lastId = 0 /\ calls = {} /\ waiting = {}
  BY DEF Init
<1>2. \A o \in Owners : Cardinality(OfOwner(sessions, o)) <= KeepOwner
  <2>1. \A o \in Owners : OfOwner(sessions, o) = {}
    BY <1>1 DEF OfOwner
  <2>2. Cardinality({}) = 0 /\ KeepOwner \in Nat
    BY FS_EmptySet, SearchAssumption
  <2> QED
    BY <2>1, <2>2
<1>3. SessionsInv
  BY <1>1, <1>2, SearchAssumption DEF Init, SessionsInv, Numbered
<1> QED
  BY <1>1, <1>3 DEF IInv, CallsInv, WaitInv

\* IInv is an invariant.
LEMMA Kept == Spec => []IInv
<1>1. IInv /\ UNCHANGED vars => IInv'
  <2> SUFFICES ASSUME IInv, UNCHANGED vars PROVE IInv'
    OBVIOUS
  <2>1. UNCHANGED <<subject, sessions, lastId, calls, waiting>>
    BY DEF vars
  <2>2. SessionsInv'
    BY <2>1, SessionsStay DEF IInv
  <2> QED
    BY <2>1, <2>2 DEF IInv, CallsInv, WaitInv, UnderWay
<1>2. IInv /\ [Next]_vars => IInv'
  BY <1>1, Stepped
<1> QED
  BY <1>2, Begun, PTL DEF Spec

\* IInv says at least what the run checks.
LEMMA Sound == IInv => SearchSound
<1> SUFFICES ASSUME IInv PROVE SearchSound
  OBVIOUS
<1>1. SessionsInv /\ CallsInv /\ WaitInv
  BY DEF IInv
<1>2. TypeOK
  <2>1. ASSUME NEW s \in sessions
        PROVE  /\ s.id \in 1 .. lastId /\ s.owner \in Owners /\ s.source \in Sources
               /\ s.key \in Logins \cup {None} /\ s.total \in Nat \cup {None}
               /\ s.pages \in [Pages -> (SUBSET Bvids) \cup {None}]
    BY <1>1 DEF SessionsInv, Rows, Numbered
  <2> QED
    BY <1>1, <2>1, SearchAssumption DEF TypeOK, SessionsInv, CallsInv, Calls, WaitInv, Waits
<1>3. \A s \in sessions : NoVideoTwice(s)
  BY <1>1 DEF SessionsInv
<1> QED
  BY <1>1, <1>2, <1>3 DEF SearchSound, NoVideoTwice, CallsInv, WaitInv

\* For any number of videos, accounts, pages and sessions: no video is on two pages of a
\* search, a page under way is asked for once and a recorded one never, and who waits for a
\* page has a call that will answer (sessions.ts, cache.ts).
THEOREM SearchesAreSound == Spec => []SearchSound
  BY Kept, Sound, PTL

\* What a search has shown stays as it was for as long as it is kept, and a search that goes
\* early goes for a new one, after those that are older (commitPage, createSession).
THEOREM RecordedPagesStay == Spec => PagesAreFixed
<1> DEFINE A == [\A s \in sessions :
       \/ \E t \in sessions' : /\ t.id = s.id /\ t.owner = s.owner /\ t.source = s.source /\ t.key = s.key
                                /\ \A p \in Pages : s.pages[p] \in {None, t.pages[p]}
                                /\ s.pool \in {None, t.pool} /\ s.total \in {None, t.total}
       \/ sessions' = sessions \ {s}
       \/ /\ Cardinality(sessions') <= KeepAll
          /\ \A o \in Owners : Cardinality({t \in sessions' : t.owner = o}) <= KeepOwner
          /\ \/ Cardinality({t \in sessions' : t.owner = s.owner /\ t.id > s.id}) = KeepOwner
             \/ Cardinality({t \in sessions' : t.id > s.id}) = KeepAll]_vars
<1>1. IInv /\ [Next]_vars => A
  BY Stepped DEF Fixed, Same, Outlived
<1> QED
  BY <1>1, Kept, PTL DEF Spec, PagesAreFixed
=============================================================================
