----------------------------- MODULE LookupTabProofs -----------------------------
(***************************************************************************)
(* Theorems about the lookups of Douyin items, for any number of jobs,     *)
(* requests, items, browsers, waiters and cached details, and about a tab  *)
(* and its account, for any accounts, pages, entries and numbers of        *)
(* changes and requests.  Both keep sequences without repetition: the      *)
(* waiters for a browser, the cache, and the order of a playlist.          *)
(***************************************************************************)
EXTENDS DouyinLookup, AccountTab, FiniteSetTheorems, SequenceTheorems, TLAPS

-----------------------------------------------------------------------------
(* Sequences without repetition: the waiters and the cache                 *)

Distinct(q, S) == q \in Seq(S) /\ IsInjective(q)

\* Positions and members of a sequence without repetition.
LEMMA DistinctFacts ==
    ASSUME NEW S, NEW q, Distinct(q, S)
    PROVE  /\ q \in Seq(S) /\ Len(q) \in Nat /\ DOMAIN q = 1 .. Len(q)
           /\ \A i \in 1 .. Len(q) : q[i] \in S
           /\ \A i, j \in 1 .. Len(q) : q[i] = q[j] => i = j
<1>1. q \in Seq(S) /\ Len(q) \in Nat /\ DOMAIN q = 1 .. Len(q)
  BY LenProperties DEF Distinct
<1>2. \A i \in 1 .. Len(q) : q[i] \in S
  BY <1>1, ElementOfSeq
<1> QED
  BY <1>1, <1>2 DEF Distinct, IsInjective

\* What makes a sequence distinct.
LEMMA MakesDistinct ==
    ASSUME NEW S, NEW q \in Seq(S), \A i, j \in 1 .. Len(q) : q[i] = q[j] => i = j
    PROVE  Distinct(q, S)
BY LenProperties DEF Distinct, IsInjective

\* Something new is put at the end.
LEMMA Appended ==
    ASSUME NEW S, NEW q, Distinct(q, S), NEW e \in S, e \notin ToSet(q)
    PROVE  /\ Distinct(Append(q, e), S) /\ Len(Append(q, e)) = Len(q) + 1
           /\ ToSet(Append(q, e)) = ToSet(q) \cup {e}
<1> DEFINE r == Append(q, e)
<1>1. /\ q \in Seq(S) /\ Len(q) \in Nat /\ DOMAIN q = 1 .. Len(q)
      /\ \A i, j \in 1 .. Len(q) : q[i] = q[j] => i = j
  BY DistinctFacts
<1>2. /\ r \in Seq(S) /\ Len(r) = Len(q) + 1
      /\ \A i \in 1 .. Len(q) : r[i] = q[i]
      /\ r[Len(q) + 1] = e
  BY <1>1, AppendProperties
<1> HIDE DEF r
<1>3. DOMAIN r = 1 .. Len(q) + 1
  BY <1>2, LenProperties
<1>4. \A i \in 1 .. Len(q) : q[i] # e
  BY <1>1 DEF ToSet
<1>5. \A i, j \in 1 .. Len(r) : r[i] = r[j] => i = j
  <2>1. ASSUME NEW i \in 1 .. Len(q) + 1, NEW j \in 1 .. Len(q) + 1, r[i] = r[j] PROVE i = j
    <3>1. (i \in 1 .. Len(q) \/ i = Len(q) + 1) /\ (j \in 1 .. Len(q) \/ j = Len(q) + 1)
      BY <1>1
    <3> QED
      BY <1>1, <1>2, <1>4, <2>1, <3>1
  <2> QED
    BY <1>2, <2>1
<1>6. ToSet(r) = ToSet(q) \cup {e}
  <2>1. ASSUME NEW x \in ToSet(r) PROVE x \in ToSet(q) \cup {e}
    <3>1. PICK i \in 1 .. Len(q) + 1 : x = r[i]
      BY <1>3 DEF ToSet
    <3>2. i \in 1 .. Len(q) \/ i = Len(q) + 1
      BY <1>1
    <3> QED
      BY <1>1, <1>2, <3>1, <3>2 DEF ToSet
  <2>2. ASSUME NEW x \in ToSet(q) PROVE x \in ToSet(r)
    <3>1. PICK i \in 1 .. Len(q) : x = q[i]
      BY <1>1 DEF ToSet
    <3>2. x = r[i] /\ i \in 1 .. Len(q) + 1
      BY <1>1, <1>2, <3>1
    <3> QED
      BY <1>3, <3>2 DEF ToSet
  <2>3. e \in ToSet(r)
    <3>1. Len(q) + 1 \in 1 .. Len(q) + 1
      BY <1>1
    <3> QED
      BY <1>2, <1>3, <3>1 DEF ToSet
  <2> QED
    BY <2>1, <2>2, <2>3
<1> QED
  BY <1>2, <1>5, <1>6, MakesDistinct DEF r

\* The element at one position is taken out.
LEMMA TakenOut ==
    ASSUME NEW S, NEW q, Distinct(q, S), NEW k \in 1 .. Len(q)
    PROVE  /\ Distinct(RemoveAt(q, k), S) /\ Len(RemoveAt(q, k)) = Len(q) - 1
           /\ ToSet(RemoveAt(q, k)) = ToSet(q) \ {q[k]}
<1> DEFINE front == SubSeq(q, 1, k - 1)
           back == SubSeq(q, k + 1, Len(q))
           r == RemoveAt(q, k)
<1>0. Len(q) \in Nat /\ k \in Nat /\ 1 <= k /\ k <= Len(q)
  BY DistinctFacts
<1>1. /\ q \in Seq(S) /\ Len(q) \in Nat /\ DOMAIN q = 1 .. Len(q) /\ k \in Nat /\ 1 <= k /\ k <= Len(q)
      /\ \A i, j \in 1 .. Len(q) : q[i] = q[j] => i = j
  BY DistinctFacts
<1>2. \A j \in 1 .. Len(q) : q[j] \in S
  BY DistinctFacts
<1>3. front \in Seq(S) /\ Len(front) = k - 1 /\ \A j \in 1 .. k - 1 : front[j] = q[j]
  <2>1. \A j \in 1 .. k - 1 : q[j] \in S
    BY <1>1, <1>2
  <2>2. /\ front \in Seq(S) /\ Len(front) = IF 1 <= k - 1 THEN k - 1 - 1 + 1 ELSE 0
        /\ \A j \in 1 .. k - 1 - 1 + 1 : front[j] = q[1 + j - 1]
    BY <1>1, <2>1, SubSeqProperties
  <2> QED
    BY <1>1, <2>2
<1>4. back \in Seq(S) /\ Len(back) = Len(q) - k /\ \A j \in 1 .. Len(q) - k : back[j] = q[k + j]
  <2>1. \A j \in k + 1 .. Len(q) : q[j] \in S
    BY <1>1, <1>2
  <2>2. /\ back \in Seq(S) /\ Len(back) = IF k + 1 <= Len(q) THEN Len(q) - (k + 1) + 1 ELSE 0
        /\ \A j \in 1 .. Len(q) - (k + 1) + 1 : back[j] = q[k + 1 + j - 1]
    BY <1>1, <2>1, SubSeqProperties
  <2> QED
    BY <1>0, <2>2
<1>5. r = front \o back
  BY DEF RemoveAt
<1> HIDE DEF front, back, r
<1>6. /\ r \in Seq(S) /\ Len(r) = Len(q) - 1
      /\ \A j \in 1 .. Len(q) - 1 : r[j] = IF j <= k - 1 THEN front[j] ELSE back[j - (k - 1)]
  <2>1. /\ r \in Seq(S) /\ Len(r) = Len(front) + Len(back)
        /\ \A j \in 1 .. Len(front) + Len(back) :
              r[j] = IF j <= Len(front) THEN front[j] ELSE back[j - Len(front)]
    BY <1>3, <1>4, <1>5, ConcatProperties
  <2>2. Len(front) = k - 1 /\ Len(front) + Len(back) = Len(q) - 1
    BY <1>1, <1>3, <1>4
  <2> QED
    BY <2>1, <2>2
<1>7. ASSUME NEW j \in 1 .. Len(q) - 1 PROVE r[j] = IF j < k THEN q[j] ELSE q[j + 1]
  <2>1. CASE j < k
    BY <1>1, <1>3, <1>6, <2>1
  <2>2. CASE ~(j < k)
    <3>1. ~(j <= k - 1)
      BY <1>1, <2>2
    <3>2. r[j] = back[j - (k - 1)]
      BY <1>6, <3>1
    <3>3. j - (k - 1) \in 1 .. Len(q) - k /\ k + (j - (k - 1)) = j + 1
      BY <1>1, <2>2
    <3> QED
      BY <1>4, <2>2, <3>2, <3>3
  <2> QED
    BY <2>1, <2>2
<1>8. ASSUME NEW j \in 1 .. Len(q) - 1, NEW m \in 1 .. Len(q) - 1, r[j] = r[m] PROVE j = m
  <2>1. j \in 1 .. Len(q) /\ j + 1 \in 1 .. Len(q) /\ m \in 1 .. Len(q) /\ m + 1 \in 1 .. Len(q)
    BY <1>1
  <2> QED
    BY <1>1, <1>7, <1>8, <2>1
<1>9. DOMAIN r = 1 .. Len(q) - 1
  BY <1>6, LenProperties
<1>10. ASSUME NEW x \in ToSet(r) PROVE x \in ToSet(q) \ {q[k]}
  <2>1. PICK j \in 1 .. Len(q) - 1 : x = r[j]
    BY <1>9, <1>10 DEF ToSet
  <2>2. j \in 1 .. Len(q) /\ j + 1 \in 1 .. Len(q) /\ (j < k => j # k) /\ (~(j < k) => j + 1 # k)
    BY <1>1
  <2>3. (x = q[j] /\ j # k) \/ (x = q[j + 1] /\ j + 1 # k)
    BY <1>7, <2>1, <2>2
  <2> QED
    BY <1>1, <2>2, <2>3 DEF ToSet
<1>11. ASSUME NEW x \in ToSet(q) \ {q[k]} PROVE x \in ToSet(r)
  <2>1. PICK i \in 1 .. Len(q) : x = q[i]
    BY <1>1, <1>11 DEF ToSet
  <2>2. i # k
    BY <1>11, <2>1
  <2>3. CASE i < k
    <3>1. i \in 1 .. Len(q) - 1
      BY <1>1, <2>3
    <3> QED
      BY <1>7, <1>9, <2>1, <2>3, <3>1 DEF ToSet
  <2>4. CASE ~(i < k)
    <3>1. i - 1 \in 1 .. Len(q) - 1 /\ ~(i - 1 < k) /\ (i - 1) + 1 = i
      BY <1>1, <2>2, <2>4
    <3>2. r[i - 1] = q[(i - 1) + 1]
      BY <1>7, <3>1
    <3> QED
      BY <1>9, <2>1, <3>1, <3>2 DEF ToSet
  <2> QED
    BY <2>3, <2>4
<1>12. ToSet(r) = ToSet(q) \ {q[k]}
  BY <1>10, <1>11
<1>13. Distinct(r, S)
  BY <1>6, <1>8, MakesDistinct
<1> QED
  BY <1>6, <1>12, <1>13 DEF r

\* The first is taken, from a queue or a full cache.
LEMMA FirstTaken ==
    ASSUME NEW S, NEW q, Distinct(q, S), q # <<>>
    PROVE  /\ Distinct(Tail(q), S) /\ Len(Tail(q)) = Len(q) - 1
           /\ Head(q) \in ToSet(q) /\ ToSet(Tail(q)) = ToSet(q) \ {Head(q)}
<1>1. /\ q \in Seq(S) /\ Len(q) \in Nat /\ DOMAIN q = 1 .. Len(q)
      /\ \A i, j \in 1 .. Len(q) : q[i] = q[j] => i = j
  BY DistinctFacts
<1>2. /\ Tail(q) \in Seq(S) /\ Len(Tail(q)) = Len(q) - 1
      /\ \A i \in 1 .. Len(Tail(q)) : Tail(q)[i] = q[i + 1]
  BY <1>1, HeadTailProperties
<1>3. 1 \in 1 .. Len(q) /\ Head(q) = q[1]
  BY <1>1, EmptySeq
<1> DEFINE r == Tail(q)
<1> HIDE DEF r
<1>4. DOMAIN r = 1 .. Len(q) - 1
  BY <1>2, LenProperties DEF r
<1>5. \A i \in 1 .. Len(q) - 1 : r[i] = q[i + 1]
  BY <1>2 DEF r
<1>6. \A i, j \in 1 .. Len(r) : r[i] = r[j] => i = j
  <2>1. ASSUME NEW i \in 1 .. Len(q) - 1, NEW j \in 1 .. Len(q) - 1, r[i] = r[j] PROVE i = j
    <3>1. i + 1 \in 1 .. Len(q) /\ j + 1 \in 1 .. Len(q)
      BY <1>1
    <3>2. i + 1 = j + 1
      BY <1>1, <1>5, <2>1, <3>1
    <3> QED
      BY <3>2
  <2> QED
    BY <1>2, <2>1 DEF r
<1>7. ASSUME NEW x \in ToSet(r) PROVE x \in ToSet(q) \ {Head(q)}
  <2>1. PICK i \in 1 .. Len(q) - 1 : x = r[i]
    BY <1>4, <1>7 DEF ToSet
  <2>2. i + 1 \in 1 .. Len(q) /\ i + 1 # 1
    BY <1>1
  <2>3. x = q[i + 1] /\ x # q[1]
    BY <1>1, <1>3, <1>5, <2>1, <2>2
  <2> QED
    BY <1>1, <1>3, <2>2, <2>3 DEF ToSet
<1>8. ASSUME NEW x \in ToSet(q) \ {Head(q)} PROVE x \in ToSet(r)
  <2>1. PICK i \in 1 .. Len(q) : x = q[i]
    BY <1>1, <1>8 DEF ToSet
  <2>2. i # 1
    BY <1>3, <1>8, <2>1
  <2>3. i - 1 \in 1 .. Len(q) - 1 /\ (i - 1) + 1 = i
    BY <1>1, <2>2
  <2>4. r[i - 1] = q[(i - 1) + 1]
    BY <1>5, <2>3
  <2> QED
    BY <1>4, <2>1, <2>3, <2>4 DEF ToSet
<1>9. Head(q) \in ToSet(q)
  BY <1>1, <1>3 DEF ToSet
<1>10. ToSet(r) = ToSet(q) \ {Head(q)}
  BY <1>7, <1>8
<1>11. Distinct(r, S)
  BY <1>2, <1>6, MakesDistinct DEF r
<1> QED
  BY <1>2, <1>9, <1>10, <1>11 DEF r

\* An element is taken out, wherever it stands.
LEMMA TakenOutFirst ==
    ASSUME NEW S, NEW q, Distinct(q, S), NEW e \in ToSet(q)
    PROVE  /\ Distinct(RemoveFirst(q, e), S) /\ Len(RemoveFirst(q, e)) = Len(q) - 1
           /\ ToSet(RemoveFirst(q, e)) = ToSet(q) \ {e}
<1>1. /\ q \in Seq(S) /\ Len(q) \in Nat /\ DOMAIN q = 1 .. Len(q)
      /\ \A i, j \in 1 .. Len(q) : q[i] = q[j] => i = j
  BY DistinctFacts
<1>2. PICK k \in 1 .. Len(q) : q[k] = e
  BY <1>1 DEF ToSet
<1>3. {i \in 1 .. Len(q) : q[i] = e} = {k}
  BY <1>1, <1>2
<1>4. Min({k}) = k
  BY DEF Min
<1>5. SelectInSeq(q, LAMBDA v : v = e) = k
  BY <1>3, <1>4 DEF SelectInSeq
<1>6. RemoveFirst(q, e) = RemoveAt(q, k)
  BY <1>2, <1>5 DEF RemoveFirst
<1> QED
  BY <1>2, <1>6, TakenOut

-----------------------------------------------------------------------------
(* The pool: who holds a slot, who is given one, who waits                 *)

\* Callers at one of the awaits S.
At(p, S) == {c \in Callers : p[c] \in S}

Elsewhere == {"idle", "linking", "sleeping", "downloading"}
Waits == {"waiting"}
Grants == {"granted"}
Stages == Elsewhere \cup Waits \cup Grants \cup Holding

\* Slots and waiters add up, for positions p, queue q, value f and count w.
Pooled(p, q, f, w) ==
    /\ Distinct(q, Callers) /\ ToSet(q) = At(p, Waits)
    /\ f \in Nat /\ f + Cardinality(At(p, Holding)) + Cardinality(At(p, Grants)) = MaxBrowsers
    /\ w \in Nat /\ w = Len(q) + Cardinality(At(p, Grants))

\* A caller is elsewhere, waits, is granted a slot or holds one, and never two of these.
LEMMA StagesDiffer ==
    /\ Elsewhere \cap Waits = {} /\ Elsewhere \cap Grants = {} /\ Elsewhere \cap Holding = {}
    /\ Waits \cap Grants = {} /\ Waits \cap Holding = {} /\ Grants \cap Holding = {}
    /\ Elsewhere \subseteq Stages /\ Waits \subseteq Stages /\ Grants \subseteq Stages /\ Holding \subseteq Stages
BY DEF Elsewhere, Waits, Grants, Holding, Stages

\* Callers can be counted wherever they stand.
LEMMA CallersAreFinite ==
    ASSUME NEW p, NEW S
    PROVE  IsFiniteSet(At(p, S)) /\ Cardinality(At(p, S)) \in Nat
<1>1. IsFiniteSet(Callers)
  BY FS_Union, LookupAssumption DEF Callers
<1>2. IsFiniteSet(At(p, S))
  BY <1>1, FS_Subset DEF At
<1> QED
  BY <1>2, FS_CardinalityType

\* How one caller's move changes who is at S.
Moved(p, c, to) == [p EXCEPT ![c] = to]

\* A caller that moves within S, or outside of it.
LEMMA Stays ==
    ASSUME NEW p \in [Callers -> Stages], NEW c \in Callers, NEW to, NEW S, p[c] \in S <=> to \in S
    PROVE  At(Moved(p, c, to), S) = At(p, S)
BY DEF At, Moved

\* A caller that comes to stand in S adds one.
LEMMA Enters ==
    ASSUME NEW p \in [Callers -> Stages], NEW c \in Callers, NEW to, NEW S, p[c] \notin S, to \in S
    PROVE  /\ At(Moved(p, c, to), S) = At(p, S) \cup {c} /\ c \notin At(p, S)
           /\ Cardinality(At(Moved(p, c, to), S)) = Cardinality(At(p, S)) + 1
<1>1. At(Moved(p, c, to), S) = At(p, S) \cup {c} /\ c \notin At(p, S)
  BY DEF At, Moved
<1>2. IsFiniteSet(At(p, S))
  BY CallersAreFinite
<1>3. Cardinality(At(p, S) \cup {c}) = Cardinality(At(p, S)) + 1
  BY <1>1, <1>2, FS_AddElement
<1> QED
  BY <1>1, <1>3

\* A caller that leaves S takes one away.
LEMMA Leaves ==
    ASSUME NEW p \in [Callers -> Stages], NEW c \in Callers, NEW to, NEW S, p[c] \in S, to \notin S
    PROVE  /\ At(Moved(p, c, to), S) = At(p, S) \ {c} /\ c \in At(p, S)
           /\ Cardinality(At(Moved(p, c, to), S)) = Cardinality(At(p, S)) - 1
<1>1. At(Moved(p, c, to), S) = At(p, S) \ {c} /\ c \in At(p, S)
  BY DEF At, Moved
<1>2. IsFiniteSet(At(p, S))
  BY CallersAreFinite
<1>3. Cardinality(At(p, S) \ {c}) = Cardinality(At(p, S)) - 1
  BY <1>1, <1>2, FS_RemoveElement
<1> QED
  BY <1>1, <1>3

\* A caller moves among those that hold a slot, or among those that have to do with none.
LEMMA MovesWithin ==
    ASSUME NEW p \in [Callers -> Stages], NEW q, NEW f, NEW w, Pooled(p, q, f, w), NEW c \in Callers, NEW to,
           \/ p[c] \in Holding /\ to \in Holding
           \/ p[c] \in Elsewhere /\ to \in Elsewhere
    PROVE  Pooled(Moved(p, c, to), q, f, w)
<1> DEFINE r == Moved(p, c, to)
<1>1. (p[c] \in Holding <=> to \in Holding) /\ (p[c] \in Grants <=> to \in Grants) /\ (p[c] \in Waits <=> to \in Waits)
  BY StagesDiffer
<1>2. At(r, Holding) = At(p, Holding)
  BY <1>1, Stays
<1>3. At(r, Grants) = At(p, Grants)
  BY <1>1, Stays
<1>4. At(r, Waits) = At(p, Waits)
  BY <1>1, Stays
<1> HIDE DEF r
<1> QED
  BY <1>2, <1>3, <1>4 DEF Pooled, r

\* A free slot is taken.
LEMMA SlotTaken ==
    ASSUME NEW p \in [Callers -> Stages], NEW q, NEW f, NEW w, Pooled(p, q, f, w), NEW c \in Callers,
           p[c] \in Elsewhere, f # 0, NEW to \in Holding
    PROVE  Pooled(Moved(p, c, to), q, f - 1, w)
<1> DEFINE r == Moved(p, c, to)
<1>1. /\ p[c] \notin Holding /\ to \in Holding
      /\ (p[c] \in Grants <=> to \in Grants) /\ (p[c] \in Waits <=> to \in Waits)
  BY StagesDiffer
<1>2. Cardinality(At(r, Holding)) = Cardinality(At(p, Holding)) + 1
  BY <1>1, Enters
<1>3. At(r, Grants) = At(p, Grants)
  BY <1>1, Stays
<1>4. At(r, Waits) = At(p, Waits)
  BY <1>1, Stays
<1>5. Cardinality(At(p, Holding)) \in Nat /\ Cardinality(At(p, Grants)) \in Nat /\ f \in Nat
  BY CallersAreFinite DEF Pooled
<1> HIDE DEF r
<1>6. f - 1 \in Nat /\ f - 1 + Cardinality(At(r, Holding)) + Cardinality(At(r, Grants)) = MaxBrowsers
  BY <1>2, <1>3, <1>5 DEF Pooled
<1> QED
  BY <1>3, <1>4, <1>6 DEF Pooled, r

\* A caller joins those who wait.
LEMMA Joins ==
    ASSUME NEW p \in [Callers -> Stages], NEW q, NEW f, NEW w, Pooled(p, q, f, w), NEW c \in Callers,
           p[c] \in Elsewhere, NEW to \in Waits
    PROVE  Pooled(Moved(p, c, to), Append(q, c), f, w + 1)
<1> DEFINE r == Moved(p, c, to)
<1>1. /\ (p[c] \in Holding <=> to \in Holding) /\ (p[c] \in Grants <=> to \in Grants)
      /\ p[c] \notin Waits /\ to \in Waits
  BY StagesDiffer
<1>2. At(r, Holding) = At(p, Holding)
  BY <1>1, Stays
<1>3. At(r, Grants) = At(p, Grants)
  BY <1>1, Stays
<1>4. At(r, Waits) = At(p, Waits) \cup {c} /\ c \notin At(p, Waits)
  BY <1>1, Enters
<1>5. Distinct(q, Callers) /\ ToSet(q) = At(p, Waits)
  BY DEF Pooled
<1>6. /\ Distinct(Append(q, c), Callers) /\ Len(Append(q, c)) = Len(q) + 1
      /\ ToSet(Append(q, c)) = ToSet(q) \cup {c}
  BY <1>4, <1>5, Appended
<1>7. Cardinality(At(p, Grants)) \in Nat /\ Len(q) \in Nat
  BY <1>5, CallersAreFinite, DistinctFacts
<1> HIDE DEF r
<1>8. w + 1 \in Nat /\ w + 1 = Len(Append(q, c)) + Cardinality(At(r, Grants))
  BY <1>3, <1>6, <1>7 DEF Pooled
<1> QED
  BY <1>2, <1>3, <1>4, <1>5, <1>6, <1>8 DEF Pooled, r

\* A caller that was given a slot goes on.
LEMMA GoesOn ==
    ASSUME NEW p \in [Callers -> Stages], NEW q, NEW f, NEW w, Pooled(p, q, f, w), NEW c \in Callers,
           p[c] \in Grants, NEW to \in Holding
    PROVE  Pooled(Moved(p, c, to), q, f, w - 1)
<1> DEFINE r == Moved(p, c, to)
<1>1. /\ p[c] \notin Holding /\ to \in Holding /\ p[c] \in Grants /\ to \notin Grants
      /\ (p[c] \in Waits <=> to \in Waits)
  BY StagesDiffer
<1>2. Cardinality(At(r, Holding)) = Cardinality(At(p, Holding)) + 1
  BY <1>1, Enters
<1>3. Cardinality(At(r, Grants)) = Cardinality(At(p, Grants)) - 1
  BY <1>1, Leaves
<1>4. At(r, Waits) = At(p, Waits)
  BY <1>1, Stays
<1>5. /\ Cardinality(At(p, Holding)) \in Nat /\ Cardinality(At(p, Grants)) \in Nat
      /\ Cardinality(At(r, Grants)) \in Nat /\ Len(q) \in Nat
  BY CallersAreFinite, DistinctFacts DEF Pooled
<1> HIDE DEF r
<1>6. f + Cardinality(At(r, Holding)) + Cardinality(At(r, Grants)) = MaxBrowsers
  BY <1>2, <1>3, <1>5 DEF Pooled
<1>7. w - 1 \in Nat /\ w - 1 = Len(q) + Cardinality(At(r, Grants))
  BY <1>3, <1>5 DEF Pooled
<1> QED
  BY <1>4, <1>6, <1>7 DEF Pooled, r

\* Somebody who waits gives up.
LEMMA GivesUp ==
    ASSUME NEW p \in [Callers -> Stages], NEW q, NEW f, NEW w, Pooled(p, q, f, w), NEW c \in Callers,
           p[c] \in Waits, NEW to \in Elsewhere
    PROVE  Pooled(Moved(p, c, to), RemoveFirst(q, c), f, w - 1)
<1> DEFINE r == Moved(p, c, to)
<1>1. /\ (p[c] \in Holding <=> to \in Holding) /\ (p[c] \in Grants <=> to \in Grants)
      /\ p[c] \in Waits /\ to \notin Waits
  BY StagesDiffer
<1>2. At(r, Holding) = At(p, Holding)
  BY <1>1, Stays
<1>3. At(r, Grants) = At(p, Grants)
  BY <1>1, Stays
<1>4. At(r, Waits) = At(p, Waits) \ {c} /\ c \in At(p, Waits)
  BY <1>1, Leaves
<1>5. Distinct(q, Callers) /\ ToSet(q) = At(p, Waits)
  BY DEF Pooled
<1>6. /\ Distinct(RemoveFirst(q, c), Callers) /\ Len(RemoveFirst(q, c)) = Len(q) - 1
      /\ ToSet(RemoveFirst(q, c)) = ToSet(q) \ {c}
  BY <1>4, <1>5, TakenOutFirst
<1>7. Cardinality(At(p, Grants)) \in Nat /\ Len(q) \in Nat /\ Len(RemoveFirst(q, c)) \in Nat
  BY <1>5, <1>6, CallersAreFinite, DistinctFacts
<1> HIDE DEF r
<1>8. w - 1 \in Nat /\ w - 1 = Len(RemoveFirst(q, c)) + Cardinality(At(r, Grants))
  BY <1>3, <1>6, <1>7 DEF Pooled
<1> QED
  BY <1>2, <1>3, <1>4, <1>5, <1>6, <1>8 DEF Pooled, r

\* A slot goes to the first of those who wait.
LEMMA HandedOver ==
    ASSUME NEW p \in [Callers -> Stages], NEW q, Distinct(q, Callers), ToSet(q) = At(p, Waits), q # <<>>,
           NEW to \in Grants
    PROVE  /\ Head(q) \in Callers /\ p[Head(q)] \in Waits
           /\ Distinct(Tail(q), Callers) /\ Len(Tail(q)) = Len(q) - 1
           /\ ToSet(Tail(q)) = At(Moved(p, Head(q), to), Waits)
           /\ At(Moved(p, Head(q), to), Holding) = At(p, Holding)
           /\ Cardinality(At(Moved(p, Head(q), to), Grants)) = Cardinality(At(p, Grants)) + 1
<1> DEFINE h == Head(q)
<1>1. /\ Distinct(Tail(q), Callers) /\ Len(Tail(q)) = Len(q) - 1
      /\ h \in ToSet(q) /\ ToSet(Tail(q)) = ToSet(q) \ {h}
  BY FirstTaken
<1> HIDE DEF h
<1>2. h \in Callers /\ p[h] \in Waits
  BY <1>1 DEF At
<1>3. /\ (p[h] \in Holding <=> to \in Holding) /\ p[h] \notin Grants /\ to \in Grants
      /\ p[h] \in Waits /\ to \notin Waits
  BY <1>2, StagesDiffer
<1>4. At(Moved(p, h, to), Holding) = At(p, Holding)
  BY <1>2, <1>3, Stays
<1>5. Cardinality(At(Moved(p, h, to), Grants)) = Cardinality(At(p, Grants)) + 1
  BY <1>2, <1>3, Enters
<1>6. At(Moved(p, h, to), Waits) = At(p, Waits) \ {h}
  BY <1>2, <1>3, Leaves
<1> QED
  BY <1>1, <1>2, <1>4, <1>5, <1>6 DEF h

\* semaphore.release by a caller that holds a slot, or that was given one and gives up.
Handed(p, c, to) ==
    /\ p \in [Callers -> Stages]
    /\ p[c] = to
    /\ \A d \in Callers \ {c} : p[d] = pc[d] \/ (pc[d] = "waiting" /\ p[d] = "granted")

\* semaphore.release: the slot goes to the first waiter, or is free.
LEMMA SlotReturned ==
    ASSUME pc \in [Callers -> Stages], Pooled(pc, queue, free, waiting), NEW c \in Callers,
           NEW to \in Elsewhere, Release(Moved(pc, c, to)), pc[c] \in Holding \cup Grants
    PROVE  /\ Handed(pc', c, to)
           /\ Pooled(pc', queue', free', IF pc[c] \in Holding THEN waiting ELSE waiting - 1)
<1> DEFINE r == Moved(pc, c, to)
           count == IF pc[c] \in Holding THEN waiting ELSE waiting - 1
<1>1. r \in [Callers -> Stages] /\ r[c] = to /\ \A d \in Callers \ {c} : r[d] = pc[d]
  BY StagesDiffer DEF Moved
<1>2. At(r, Waits) = At(pc, Waits)
  <2>1. pc[c] \in Waits <=> to \in Waits
    BY StagesDiffer
  <2> QED
    BY <2>1, Stays
<1>3. /\ Cardinality(At(pc, Holding)) \in Nat /\ Cardinality(At(pc, Grants)) \in Nat
      /\ Cardinality(At(r, Grants)) \in Nat /\ Cardinality(At(r, Holding)) \in Nat
      /\ Distinct(queue, Callers) /\ ToSet(queue) = At(r, Waits) /\ Len(queue) \in Nat
      /\ free \in Nat /\ waiting \in Nat
  BY <1>2, CallersAreFinite, DistinctFacts DEF Pooled
<1>4. /\ free + Cardinality(At(r, Holding)) + Cardinality(At(r, Grants)) + 1 = MaxBrowsers
      /\ count = Len(queue) + Cardinality(At(r, Grants))
  <2>1. /\ free + Cardinality(At(pc, Holding)) + Cardinality(At(pc, Grants)) = MaxBrowsers
        /\ waiting = Len(queue) + Cardinality(At(pc, Grants))
    BY DEF Pooled
  <2>2. CASE pc[c] \in Holding
    <3>1. /\ pc[c] \in Holding /\ to \notin Holding /\ (pc[c] \in Grants <=> to \in Grants)
      BY <2>2, StagesDiffer
    <3>2. Cardinality(At(r, Holding)) = Cardinality(At(pc, Holding)) - 1
      BY <3>1, Leaves
    <3>3. At(r, Grants) = At(pc, Grants)
      BY <3>1, Stays
    <3> HIDE DEF r
    <3> QED
      BY <1>3, <2>1, <2>2, <3>2, <3>3
  <2>3. CASE pc[c] \in Grants
    <3>1. /\ pc[c] \in Grants /\ to \notin Grants /\ (pc[c] \in Holding <=> to \in Holding) /\ pc[c] \notin Holding
      BY <2>3, StagesDiffer
    <3>2. Cardinality(At(r, Grants)) = Cardinality(At(pc, Grants)) - 1
      BY <3>1, Leaves
    <3>3. At(r, Holding) = At(pc, Holding)
      BY <3>1, Stays
    <3> HIDE DEF r
    <3> QED
      BY <1>3, <2>1, <3>1, <3>2, <3>3
  <2> QED
    BY <2>2, <2>3
<1>5. \/ queue = <<>> /\ pc' = r /\ free' = free + 1 /\ queue' = queue
      \/ queue # <<>> /\ pc' = Moved(r, Head(queue), "granted") /\ queue' = Tail(queue) /\ free' = free
  BY DEF Release, Moved
<1> HIDE DEF r, count
<1>6. CASE queue = <<>> /\ pc' = r /\ free' = free + 1 /\ queue' = queue
  <2>1. free' \in Nat /\ free' + Cardinality(At(r, Holding)) + Cardinality(At(r, Grants)) = MaxBrowsers
    BY <1>3, <1>4, <1>6
  <2>2. count \in Nat
    BY <1>3, <1>4
  <2>3. Pooled(r, queue, free', count)
    BY <1>3, <1>4, <2>1, <2>2 DEF Pooled
  <2> QED
    BY <1>1, <1>6, <2>3 DEF Handed, count
<1>7. CASE queue # <<>> /\ pc' = Moved(r, Head(queue), "granted") /\ queue' = Tail(queue) /\ free' = free
  <2> DEFINE h == Head(queue)
             s == Moved(r, h, "granted")
  <2>1. "granted" \in Grants
    BY DEF Grants
  <2>2. /\ h \in Callers /\ r[h] \in Waits
        /\ Distinct(Tail(queue), Callers) /\ Len(Tail(queue)) = Len(queue) - 1
        /\ ToSet(Tail(queue)) = At(s, Waits)
        /\ At(s, Holding) = At(r, Holding)
        /\ Cardinality(At(s, Grants)) = Cardinality(At(r, Grants)) + 1
    BY <1>1, <1>3, <1>7, <2>1, HandedOver
  <2>3. h # c /\ pc[h] = "waiting"
    BY <1>1, <2>2, StagesDiffer DEF Waits
  <2>4. s \in [Callers -> Stages] /\ s[c] = to /\ s[h] = "granted" /\ \A d \in Callers \ {c, h} : s[d] = pc[d]
    BY <1>1, <2>1, <2>2, <2>3, StagesDiffer DEF Moved
  <2>5. Len(Tail(queue)) \in Nat /\ Cardinality(At(s, Grants)) \in Nat
    BY <2>2, DistinctFacts, CallersAreFinite
  <2> HIDE DEF h, s
  <2>6. free + Cardinality(At(s, Holding)) + Cardinality(At(s, Grants)) = MaxBrowsers
    BY <1>3, <1>4, <2>2
  <2>7. count \in Nat /\ count = Len(Tail(queue)) + Cardinality(At(s, Grants))
    <3> DEFINE short == Len(Tail(queue))
               granted == Cardinality(At(s, Grants))
    <3>1. Cardinality(At(r, Grants)) \in Nat /\ Len(queue) \in Nat /\ count = Len(queue) + Cardinality(At(r, Grants))
      BY <1>3, <1>4
    <3>2. short = Len(queue) - 1 /\ granted = Cardinality(At(r, Grants)) + 1 /\ short \in Nat /\ granted \in Nat
      BY <2>2, <2>5
    <3> HIDE DEF short, granted
    <3>3. count \in Nat /\ count = short + granted
      BY <3>1, <3>2
    <3> QED
      BY <3>3 DEF short, granted
  <2>8. Pooled(s, Tail(queue), free, count)
    BY <1>3, <2>2, <2>6, <2>7 DEF Pooled
  <2>9. Handed(s, c, to)
    BY <2>3, <2>4 DEF Handed
  <2> QED
    BY <1>7, <2>8, <2>9 DEF h, s, count
<1> QED
  BY <1>5, <1>6, <1>7

-----------------------------------------------------------------------------
(* The invariant                                                           *)

Looks == [item : Items \cup {NoItem}, attempt : 0 .. 1, found : {"pending", "item", "crash"},
          last : {"none", "refusal", "item"}, end : Ends \cup {"open"},
          shown : SUBSET {"refusal", "item", "crash"}]

\* What the future and the latest payload say did happen.
ShownTrue(l) ==
    /\ l.found = "item"    => "item" \in l.shown
    /\ l.found = "crash"   => "crash" \in l.shown
    /\ l.found = "pending" => l.shown \subseteq {"refusal"}
    /\ l.last = "item"     => "item" \in l.shown
    /\ l.last = "refusal"  => "refusal" \in l.shown
    /\ l.last = "none"     => l.shown \cap {"refusal", "item"} = {}

EndTrue(l) ==
    /\ l.end = "ok"          => "item" \in l.shown
    /\ l.end = "unavailable" => l.shown = {"refusal"}
    /\ l.end = "timeout"     => l.shown = {}
    /\ l.end = "crashed"     => "crash" \in l.shown

\* A lookup at one of its awaits.  Once the browser is closed only the end is kept.
LookOk(l, at) ==
    /\ l \in Looks
    /\ at \notin {"idle", "downloading"} => l.item \in Items
    /\ ShownTrue(l)
    /\ l.end # "open" => at \in {"leaving", "closing", "stopping"}
    /\ at # "stopping" => EndTrue(l)

\* Where a caller can have a browser.
Browsing == {"context", "preparing", "loading", "watching", "leaving", "closing", "stopping"}

Lookups(p, k) ==
    /\ p \in [Callers -> Stages] /\ k \in [Callers -> Looks]
    /\ \A c \in Callers : LookOk(k[c], p[c])

Fits(s) == Distinct(s, Items) /\ Len(s) <= MaxCached

Browsers(p, b) == b \subseteq At(p, Browsing)

LookupInv ==
    /\ Lookups(pc, look)
    /\ Pooled(pc, queue, free, waiting) /\ waiting <= MaxWaiting
    /\ Browsers(pc, chrome) /\ stray \subseteq Jobs
    /\ sandbox \in BOOLEAN
    /\ Fits(cache)

\* Who has a browser open holds a slot.
LEMMA SetsDiffer ==
    /\ Browsing \subseteq Holding
    /\ {"leaving", "closing", "stopping"} \subseteq Browsing
    /\ "idle" \in Elsewhere /\ "linking" \in Elsewhere /\ "sleeping" \in Elsewhere /\ "downloading" \in Elsewhere
    /\ "starting" \in Holding /\ "sandboxed" \in Holding /\ "fallback" \in Holding /\ "plain" \in Holding
BY DEF Browsing, Holding, Elsewhere

\* One lookup moves, the others stay.
LEMMA LooksMove ==
    ASSUME NEW p, NEW k, Lookups(p, k), NEW c \in Callers, NEW to \in Stages, NEW l, LookOk(l, to)
    PROVE  Lookups(Moved(p, c, to), [k EXCEPT ![c] = l])
<1>1. Moved(p, c, to) \in [Callers -> Stages] /\ [k EXCEPT ![c] = l] \in [Callers -> Looks]
  BY DEF Lookups, Moved, LookOk
<1>2. ASSUME NEW d \in Callers PROVE LookOk([k EXCEPT ![c] = l][d], Moved(p, c, to)[d])
  <2>1. CASE d = c
    BY <2>1 DEF Lookups, Moved
  <2>2. CASE d # c
    BY <2>2 DEF Lookups, Moved
  <2> QED
    BY <2>1, <2>2
<1> QED
  BY <1>1, <1>2 DEF Lookups

\* One lookup moves, and perhaps one that waits is given its slot.
LEMMA LooksHanded ==
    ASSUME NEW p, NEW k, Lookups(pc, k), NEW c \in Callers, NEW to \in Stages, NEW l, LookOk(l, to),
           Handed(p, c, to)
    PROVE  Lookups(p, [k EXCEPT ![c] = l])
<1>1. [k EXCEPT ![c] = l] \in [Callers -> Looks]
  BY DEF Lookups, LookOk
<1>2. ASSUME NEW d \in Callers PROVE LookOk([k EXCEPT ![c] = l][d], p[d])
  <2>1. CASE d = c
    BY <2>1 DEF Lookups, Handed
  <2>2. CASE d # c
    <3>1. [k EXCEPT ![c] = l][d] = k[d] /\ LookOk(k[d], pc[d])
      BY <2>2 DEF Lookups
    <3>2. CASE p[d] = pc[d]
      BY <3>1, <3>2
    <3>3. CASE pc[d] = "waiting" /\ p[d] = "granted"
      BY <3>1, <3>3 DEF LookOk
    <3> QED
      BY <2>2, <3>2, <3>3 DEF Handed
  <2> QED
    BY <2>1, <2>2
<1> QED
  BY <1>1, <1>2 DEF Lookups, Handed

\* A caller moves, and only its own browser comes or goes.
LEMMA BrowsersMove ==
    ASSUME NEW p \in [Callers -> Stages], NEW b, Browsers(p, b), NEW c \in Callers, NEW to \in Stages,
           NEW b2, b2 \subseteq b \cup {c}, c \in b2 => to \in Browsing
    PROVE  Browsers(Moved(p, c, to), b2)
BY DEF Browsers, At, Moved

\* A caller gives its slot back without a browser; whoever gets the slot has none yet.
LEMMA BrowsersHanded ==
    ASSUME NEW p, NEW b, Browsers(pc, b), NEW c \in Callers, NEW to, Handed(p, c, to),
           NEW b2, b2 \subseteq b \ {c}
    PROVE  Browsers(p, b2)
<1>1. ASSUME NEW d \in b2 PROVE d \in Callers /\ p[d] \in Browsing
  <2>1. d \in Callers /\ pc[d] \in Browsing /\ d # c
    BY <1>1 DEF Browsers, At
  <2>2. pc[d] # "waiting"
    BY <2>1 DEF Browsing
  <2> QED
    BY <2>1, <2>2 DEF Handed
<1> QED
  BY <1>1 DEF Browsers, At

\* A caller keeps its slot, or keeps having to do with none.
Steps(c, to, l) ==
    /\ \/ pc[c] \in Holding /\ to \in Holding
       \/ pc[c] \in Elsewhere /\ to \in Elsewhere
    /\ LookOk(l, to)
    /\ pc' = Moved(pc, c, to) /\ look' = [look EXCEPT ![c] = l]
    /\ UNCHANGED <<pool, cache, stray>>
    /\ chrome' \subseteq chrome \cup {c} /\ (c \in chrome' => to \in Browsing)
    /\ sandbox' \in BOOLEAN

\* A caller moves on, and nothing of the others changes.
LEMMA StepKeeps ==
    ASSUME LookupInv, NEW c \in Callers, NEW to, NEW l, Steps(c, to, l)
    PROVE  LookupInv'
<1>1. to \in Stages
  BY StagesDiffer DEF Steps
<1>2. pc \in [Callers -> Stages] /\ Lookups(pc, look) /\ Pooled(pc, queue, free, waiting) /\ Browsers(pc, chrome)
  BY DEF LookupInv, Lookups
<1>3. Lookups(pc', look')
  <2>1. LookOk(l, to) /\ pc' = Moved(pc, c, to) /\ look' = [look EXCEPT ![c] = l]
    BY DEF Steps
  <2> QED
    BY <1>1, <1>2, <2>1, LooksMove
<1>4. Pooled(pc', queue', free', waiting')
  <2>1. Pooled(Moved(pc, c, to), queue, free, waiting)
    BY <1>2, MovesWithin DEF Steps
  <2>2. pc' = Moved(pc, c, to) /\ queue' = queue /\ free' = free /\ waiting' = waiting
    BY DEF Steps, pool
  <2> QED
    BY <2>1, <2>2
<1>5. Browsers(pc', chrome')
  <2>1. chrome' \subseteq chrome \cup {c} /\ (c \in chrome' => to \in Browsing) /\ pc' = Moved(pc, c, to)
    BY DEF Steps
  <2> QED
    BY <1>1, <1>2, <2>1, BrowsersMove
<1>6. waiting' <= MaxWaiting /\ stray' \subseteq Jobs /\ sandbox' \in BOOLEAN
  BY DEF LookupInv, Steps, pool
<1>7. Fits(cache')
  BY DEF LookupInv, Steps
<1> QED
  BY <1>3, <1>4, <1>5, <1>6, <1>7 DEF LookupInv, Fits, Lookups, Pooled, Browsers

\* A caller gives its slot back, or up, and the first that waits gets it.
GivesBack(c, to, l) ==
    /\ pc[c] \in Holding \cup Grants /\ to \in Elsewhere
    /\ LookOk(l, to)
    /\ Release(Moved(pc, c, to)) /\ look' = [look EXCEPT ![c] = l]
    /\ waiting' = IF pc[c] \in Holding THEN waiting ELSE waiting - 1
    /\ chrome' \subseteq chrome \ {c} /\ stray' \subseteq Jobs
    /\ UNCHANGED sandbox

\* A caller gives a slot back, which moves the first waiter too.
LEMMA GivingBackKeeps ==
    ASSUME LookupInv, NEW c \in Callers, NEW to, NEW l, GivesBack(c, to, l), Fits(cache')
    PROVE  LookupInv'
<1>1. to \in Stages /\ to \in Elsewhere
  BY StagesDiffer DEF GivesBack
<1>2. pc \in [Callers -> Stages] /\ Lookups(pc, look) /\ Pooled(pc, queue, free, waiting) /\ Browsers(pc, chrome)
  BY DEF LookupInv, Lookups
<1>3. /\ Handed(pc', c, to)
      /\ Pooled(pc', queue', free', waiting')
  <2>1. Release(Moved(pc, c, to)) /\ pc[c] \in Holding \cup Grants
    BY DEF GivesBack
  <2>2. /\ Handed(pc', c, to)
        /\ Pooled(pc', queue', free', IF pc[c] \in Holding THEN waiting ELSE waiting - 1)
    BY <1>1, <1>2, <2>1, SlotReturned
  <2> QED
    BY <2>2 DEF GivesBack
<1>4. Lookups(pc', look')
  <2>1. LookOk(l, to) /\ look' = [look EXCEPT ![c] = l]
    BY DEF GivesBack
  <2> QED
    BY <1>1, <1>2, <1>3, <2>1, LooksHanded
<1>5. Browsers(pc', chrome')
  <2>1. chrome' \subseteq chrome \ {c}
    BY DEF GivesBack
  <2> QED
    BY <1>2, <1>3, <2>1, BrowsersHanded
<1>6. stray' \subseteq Jobs /\ sandbox' \in BOOLEAN
  BY DEF LookupInv, GivesBack
<1>7. waiting' <= MaxWaiting
  <2>1. waiting' = waiting \/ waiting' = waiting - 1
    BY DEF GivesBack
  <2>2. waiting \in Nat /\ waiting <= MaxWaiting /\ MaxWaiting \in Nat
    BY LookupAssumption DEF LookupInv, Pooled
  <2> QED
    BY <2>1, <2>2
<1> QED
  BY <1>3, <1>4, <1>5, <1>6, <1>7 DEF LookupInv, Fits, Lookups, Pooled, Browsers

-----------------------------------------------------------------------------
(* What a lookup knows                                                     *)

\* Where a caller stands and what its lookup knows.
LEMMA LookFacts ==
    ASSUME LookupInv, NEW c \in Callers
    PROVE  /\ pc \in [Callers -> Stages] /\ look \in [Callers -> Looks]
           /\ pc[c] \in Stages /\ look[c] \in Looks /\ LookOk(look[c], pc[c])
           /\ look = [look EXCEPT ![c] = look[c]] /\ pc = Moved(pc, c, pc[c])
BY DEF LookupInv, Lookups, Moved

\* A caller that has to do with no lookup.
LEMMA BlankOk == LookOk(Blank, "idle") /\ LookOk(Blank, "downloading") /\ Blank \in Looks
BY LookupAssumption DEF LookOk, Blank, Looks, ShownTrue, EndTrue, Ends

\* A lookup nothing has happened in yet.
FreshLook(i, n) == [Blank EXCEPT !.item = i, !.attempt = n]

\* A new attempt has seen nothing.
LEMMA FreshOk ==
    ASSUME NEW i \in Items, NEW n \in 0 .. 1, NEW at
    PROVE  LookOk(FreshLook(i, n), at)
BY DEF LookOk, FreshLook, Blank, Looks, ShownTrue, EndTrue, Ends

\* A lookup that moves on with what it knows.
LEMMA LookGoesOn ==
    ASSUME NEW l, NEW at, LookOk(l, at), NEW to, at \notin {"idle", "downloading"}, at # "stopping",
           l.end # "open" => to \in {"leaving", "closing", "stopping"}
    PROVE  LookOk(l, to)
BY DEF LookOk

\* A lookup that only keeps how it ends.
FailedLook(c, as) == [Blank EXCEPT !.item = look[c].item, !.attempt = look[c].attempt, !.end = as]

\* A lookup that fails without an answer ends in an error or as cancelled.
LEMMA FailedOk ==
    ASSUME NEW c, look[c] \in Looks, look[c].item \in Items, NEW as \in Ends \cup {"open"}, NEW to,
           \/ to = "stopping"
           \/ to \in {"leaving", "closing"} /\ as \in {"error", "cancelled"}
    PROVE  LookOk(FailedLook(c, as), to)
<1>1. FailedLook(c, as) \in Looks /\ FailedLook(c, as).item \in Items /\ FailedLook(c, as).end = as
  BY DEF FailedLook, Blank, Looks
<1>2. ShownTrue(FailedLook(c, as))
  BY DEF FailedLook, Blank, ShownTrue
<1>3. to # "stopping" => EndTrue(FailedLook(c, as))
  BY <1>1 DEF EndTrue
<1> QED
  BY <1>1, <1>2, <1>3 DEF LookOk

\* What follows the end of an attempt.
LEMMA AfterOk ==
    ASSUME NEW c, look[c] \in Looks, look[c].item \in Items, NEW end
    PROVE  After(c, end) \in Elsewhere /\ LookOk(Kept(c, After(c, end)), After(c, end))
<1>1. After(c, end) \in {"downloading", "sleeping", "idle"}
  BY DEF After
<1>2. CASE After(c, end) = "sleeping"
  <2>1. Kept(c, "sleeping") = [Blank EXCEPT !.item = look[c].item]
    BY DEF Kept
  <2>2. LookOk([Blank EXCEPT !.item = look[c].item], "sleeping")
    BY DEF LookOk, Blank, Looks, ShownTrue, EndTrue, Ends
  <2> QED
    BY <1>2, <2>1, <2>2, SetsDiffer
<1>3. CASE After(c, end) # "sleeping"
  <2>1. Kept(c, After(c, end)) = Blank
    BY <1>3 DEF Kept
  <2> QED
    BY <1>1, <1>3, <2>1, BlankOk, SetsDiffer
<1> QED
  BY <1>2, <1>3

\* An answer or a crash is noted.
LEMMA AnswerOk ==
    ASSUME NEW l, NEW at, LookOk(l, at), NEW answer \in {"refusal", "item"}, l.end = "open"
    PROVE  LookOk([l EXCEPT !.last = answer, !.shown = @ \cup {answer},
                            !.found = IF answer = "item" /\ @ = "pending" THEN "item" ELSE @], at)
<1> DEFINE n == [l EXCEPT !.last = answer, !.shown = @ \cup {answer},
                          !.found = IF answer = "item" /\ @ = "pending" THEN "item" ELSE @]
<1>1. l \in Looks /\ (at \notin {"idle", "downloading"} => l.item \in Items) /\ ShownTrue(l)
  BY DEF LookOk
<1>2. /\ n \in Looks /\ n.item = l.item /\ n.end = "open" /\ n.last = answer
      /\ n.shown = l.shown \cup {answer}
      /\ n.found = IF answer = "item" /\ l.found = "pending" THEN "item" ELSE l.found
  BY <1>1 DEF Looks
<1> HIDE DEF n
<1>3. ShownTrue(n)
  BY <1>1, <1>2 DEF ShownTrue
<1>4. EndTrue(n)
  BY <1>2 DEF EndTrue
<1> QED
  BY <1>1, <1>2, <1>3, <1>4 DEF LookOk, n

\* A crash of the page decides the future only if nothing else did.
LEMMA CrashOk ==
    ASSUME NEW l, NEW at, LookOk(l, at), l.end = "open"
    PROVE  LookOk([l EXCEPT !.shown = @ \cup {"crash"}, !.found = IF @ = "pending" THEN "crash" ELSE @], at)
<1> DEFINE n == [l EXCEPT !.shown = @ \cup {"crash"}, !.found = IF @ = "pending" THEN "crash" ELSE @]
<1>1. l \in Looks /\ (at \notin {"idle", "downloading"} => l.item \in Items) /\ ShownTrue(l)
  BY DEF LookOk
<1>2. /\ n \in Looks /\ n.item = l.item /\ n.end = "open" /\ n.last = l.last
      /\ n.shown = l.shown \cup {"crash"}
      /\ n.found = IF l.found = "pending" THEN "crash" ELSE l.found
  BY <1>1 DEF Looks
<1> HIDE DEF n
<1>3. ShownTrue(n)
  BY <1>1, <1>2 DEF ShownTrue
<1>4. EndTrue(n)
  BY <1>2 DEF EndTrue
<1> QED
  BY <1>1, <1>2, <1>3, <1>4 DEF LookOk, n

\* The outcome is decided from what happened.
LEMMA OutcomeOk ==
    ASSUME NEW c, LookOk(look[c], "leaving"), look[c].end = "open"
    PROVE  LookOk([look[c] EXCEPT !.end = Outcome(c)], "closing")
<1> DEFINE l == look[c]
           n == [l EXCEPT !.end = Outcome(c)]
<1>1. l \in Looks /\ l.item \in Items /\ ShownTrue(l)
  BY DEF LookOk
<1>2. Outcome(c) = IF l.found = "item" THEN "ok"
                   ELSE IF l.found = "crash" THEN "crashed"
                   ELSE IF l.last = "refusal" THEN "unavailable" ELSE "timeout"
  BY DEF Outcome
<1>3. /\ n \in Looks /\ n.item = l.item /\ n.end = Outcome(c) /\ n.last = l.last
      /\ n.shown = l.shown /\ n.found = l.found
  BY <1>1, <1>2 DEF Looks, Ends
<1>4. /\ l.found \in {"pending", "item", "crash"} /\ l.last \in {"none", "refusal", "item"}
      /\ l.shown \subseteq {"refusal", "item", "crash"}
  BY <1>1 DEF Looks
<1> HIDE DEF n, l
<1>5. ShownTrue(n)
  BY <1>1, <1>3 DEF ShownTrue
<1>6. EndTrue(n)
  BY <1>1, <1>2, <1>3, <1>4 DEF EndTrue, ShownTrue
<1> QED
  BY <1>1, <1>3, <1>5, <1>6 DEF LookOk, n, l

-----------------------------------------------------------------------------
(* Every step keeps the invariant                                          *)

\* The parts of the invariant about the pool, the browsers and the cache.
LEMMA PoolParts ==
    ASSUME LookupInv
    PROVE  /\ Pooled(pc, queue, free, waiting) /\ waiting \in Nat /\ waiting <= MaxWaiting /\ free \in Nat
           /\ Browsers(pc, chrome) /\ stray \subseteq Jobs /\ sandbox \in BOOLEAN /\ Fits(cache)
           /\ \A c \in chrome : pc[c] \in Browsing
BY DEF LookupInv, Pooled, Browsers, At

\* A caller that only moves on.
LEMMA MoveKeeps ==
    ASSUME LookupInv, NEW c \in Callers, NEW to, Moves(c, to), UNCHANGED <<pool, stray, cache>>,
           \/ pc[c] \in Holding /\ to \in Holding
           \/ pc[c] \in Elsewhere /\ to \in Elsewhere,
           pc[c] \notin {"idle", "downloading"} \/ to = "idle", pc[c] # "stopping",
           look[c].end # "open" => to \in {"leaving", "closing", "stopping"},
           chrome' \subseteq chrome \cup {c}, c \in chrome' => to \in Browsing, sandbox' \in BOOLEAN
    PROVE  LookupInv'
<1>1. LookOk(look[c], pc[c]) /\ look = [look EXCEPT ![c] = look[c]]
  BY LookFacts
<1>2. LookOk(look[c], to)
  BY <1>1 DEF LookOk
<1>3. Steps(c, to, look[c])
  BY <1>1, <1>2 DEF Steps, Moves, Moved
<1> QED
  BY <1>3, StepKeeps

\* A caller whose attempt has failed.
LEMMA FailKeeps ==
    ASSUME LookupInv, NEW c \in Callers, NEW to \in {"leaving", "closing", "stopping"}, NEW as \in Ends \cup {"open"},
           Fails(c, to, as), UNCHANGED <<pool, stray, sandbox, cache>>, pc[c] \in Holding,
           to # "stopping" => as \in {"error", "cancelled"}, chrome' \subseteq chrome
    PROVE  LookupInv'
<1>1. look[c] \in Looks /\ LookOk(look[c], pc[c])
  BY LookFacts
<1>2. look[c].item \in Items
  <2>1. pc[c] \notin {"idle", "downloading"}
    BY StagesDiffer, SetsDiffer
  <2> QED
    BY <1>1, <2>1 DEF LookOk
<1>3. LookOk(FailedLook(c, as), to)
  BY <1>1, <1>2, FailedOk
<1>4. to \in Holding /\ to \in Browsing
  BY SetsDiffer
<1>5. Steps(c, to, FailedLook(c, as))
  BY <1>3, <1>4, PoolParts DEF Steps, Fails, Moved, FailedLook
<1> QED
  BY <1>5, StepKeeps

\* The end of an attempt, with its slot.
LEMMA EndKeeps ==
    ASSUME LookupInv, NEW c \in Callers, NEW end, EndsSlotted(c, end), pc[c] \in Holding, UNCHANGED <<waiting, sandbox>>,
           chrome' \subseteq chrome \ {c}, stray' \subseteq Jobs, Fits(cache')
    PROVE  LookupInv'
<1> DEFINE to == After(c, end)
<1>1. look[c] \in Looks /\ LookOk(look[c], pc[c])
  BY LookFacts
<1>2. look[c].item \in Items
  <2>1. pc[c] \notin {"idle", "downloading"}
    BY StagesDiffer, SetsDiffer
  <2> QED
    BY <1>1, <2>1 DEF LookOk
<1>3. to \in Elsewhere /\ LookOk(Kept(c, to), to)
  BY <1>1, <1>2, AfterOk
<1>4. Release(Moved(pc, c, to)) /\ look' = [look EXCEPT ![c] = Kept(c, to)]
  BY DEF EndsSlotted, Moved
<1> HIDE DEF to
<1>5. GivesBack(c, to, Kept(c, to))
  BY <1>3, <1>4 DEF GivesBack
<1> QED
  BY <1>5, GivingBackKeeps

\* A caller is admitted.
LEMMA AdmitKeeps ==
    ASSUME LookupInv, NEW c \in Callers, NEW i \in Items, Admit(c, i)
    PROVE  LookupInv'
<1>1. pc[c] = "idle" /\ c \notin chrome
  BY PoolParts DEF Admit, Browsing
<1>2. LookOk([Blank EXCEPT !.item = i], "linking")
  BY DEF LookOk, Blank, Looks, ShownTrue, EndTrue, Ends
<1>3. Steps(c, "linking", [Blank EXCEPT !.item = i])
  BY <1>1, <1>2, SetsDiffer, PoolParts DEF Steps, Admit, Moved
<1> QED
  BY <1>3, StepKeeps

\* A caller that holds no slot and looks no further.
LEMMA GivesUpKeeps ==
    ASSUME LookupInv, NEW c \in Callers, pc[c] \in Elsewhere, pc' = [pc EXCEPT ![c] = "idle"],
           look' = [look EXCEPT ![c] = Blank], UNCHANGED <<pool, chrome, stray, sandbox, cache>>
    PROVE  LookupInv'
<1>1. c \notin chrome
  BY PoolParts, StagesDiffer, SetsDiffer
<1>2. Steps(c, "idle", Blank)
  BY <1>1, BlankOk, SetsDiffer, PoolParts DEF Steps, Moved
<1> QED
  BY <1>2, StepKeeps

\* A look that gets no further than the cache or the waiters, joins them, or takes a slot.
LEMMA LookKeeps ==
    ASSUME LookupInv, NEW c \in Callers, NEW n \in 0 .. 1, pc[c] \in {"linking", "sleeping"}, Look(c, n),
           UNCHANGED <<chrome, stray, sandbox, cache>>
    PROVE  LookupInv'
<1>1. look[c] \in Looks /\ LookOk(look[c], pc[c]) /\ look = [look EXCEPT ![c] = look[c]]
  BY LookFacts
<1>2. look[c].item \in Items /\ look[c].end = "open" /\ pc[c] \in Elsewhere
  BY <1>1, SetsDiffer DEF LookOk
<1>3. c \notin chrome
  BY <1>2, PoolParts, StagesDiffer, SetsDiffer
<1>4. CASE EndsUnslotted(c, "ok") /\ UNCHANGED pool
  <2> DEFINE to == After(c, "ok")
  <2>1. to \in Elsewhere /\ LookOk(Kept(c, to), to)
    BY <1>1, <1>2, AfterOk
  <2>2. pc' = Moved(pc, c, to) /\ look' = [look EXCEPT ![c] = Kept(c, to)]
    BY <1>4 DEF EndsUnslotted, Moved
  <2> HIDE DEF to
  <2>3. Steps(c, to, Kept(c, to))
    BY <1>2, <1>3, <1>4, <2>1, <2>2, PoolParts DEF Steps
  <2> QED
    BY <2>3, StepKeeps
<1>5. CASE /\ pc' = [pc EXCEPT ![c] = IF c \in Jobs /\ n = 0 THEN "sleeping" ELSE "idle"]
           /\ look' = [look EXCEPT ![c] = IF c \in Jobs /\ n = 0 THEN @ ELSE Blank]
           /\ UNCHANGED pool
  <2>1. CASE c \in Jobs /\ n = 0
    <3>1. LookOk(look[c], "sleeping")
      BY <1>1, <1>2 DEF LookOk
    <3>2. pc' = Moved(pc, c, "sleeping") /\ look' = [look EXCEPT ![c] = look[c]]
      BY <1>5, <2>1 DEF Moved
    <3>3. Steps(c, "sleeping", look[c])
      BY <1>2, <1>3, <1>5, <3>1, <3>2, SetsDiffer, PoolParts DEF Steps
    <3> QED
      BY <3>3, StepKeeps
  <2>2. CASE ~(c \in Jobs /\ n = 0)
    <3>1. pc' = [pc EXCEPT ![c] = "idle"] /\ look' = [look EXCEPT ![c] = Blank]
      BY <1>5, <2>2
    <3> QED
      BY <1>2, <1>5, <3>1, GivesUpKeeps
  <2> QED
    BY <2>1, <2>2
<1>6. \A at : at \notin {"idle", "downloading", "stopping"} => LookOk([look[c] EXCEPT !.attempt = n], at)
  BY <1>1, <1>2 DEF LookOk, Looks, ShownTrue, EndTrue
<1>7. CASE /\ waiting < MaxWaiting
           /\ pc' = [pc EXCEPT ![c] = "waiting"]
           /\ queue' = Append(queue, c) /\ waiting' = waiting + 1
           /\ look' = [look EXCEPT ![c].attempt = n]
           /\ UNCHANGED free
  <2>1. pc' = Moved(pc, c, "waiting") /\ look' = [look EXCEPT ![c] = [look[c] EXCEPT !.attempt = n]]
    BY <1>7 DEF Moved
  <2>2. "waiting" \in Waits /\ "waiting" \in Stages
    BY StagesDiffer DEF Waits
  <2>3. Pooled(pc', queue', free', waiting')
    <3>1. Pooled(Moved(pc, c, "waiting"), Append(queue, c), free, waiting + 1)
      BY <1>2, <2>2, LookFacts, PoolParts, Joins
    <3> QED
      BY <1>7, <2>1, <3>1
  <2>4. Lookups(pc', look')
    <3>1. LookOk([look[c] EXCEPT !.attempt = n], "waiting") /\ Lookups(pc, look)
      BY <1>6 DEF LookupInv
    <3> QED
      BY <2>1, <2>2, <3>1, LooksMove
  <2>5. Browsers(pc', chrome')
    <3>1. chrome' \subseteq chrome \cup {c} /\ c \notin chrome' /\ Browsers(pc, chrome) /\ pc \in [Callers -> Stages]
      BY <1>3, LookFacts, PoolParts
    <3> QED
      BY <2>1, <2>2, <3>1, BrowsersMove
  <2>6. waiting' <= MaxWaiting
    BY <1>7, PoolParts, LookupAssumption
  <2>7. stray' \subseteq Jobs /\ sandbox' \in BOOLEAN /\ Fits(cache')
    BY PoolParts
  <2> QED
    BY <2>3, <2>4, <2>5, <2>6, <2>7 DEF LookupInv, Fits, Lookups, Pooled, Browsers
<1>8. CASE /\ ~Locked
           /\ pc' = [pc EXCEPT ![c] = "starting"]
           /\ free' = free - 1
           /\ look' = [look EXCEPT ![c].attempt = n]
           /\ UNCHANGED <<queue, waiting>>
  <2>1. pc' = Moved(pc, c, "starting") /\ look' = [look EXCEPT ![c] = [look[c] EXCEPT !.attempt = n]]
    BY <1>8 DEF Moved
  <2>2. "starting" \in Holding /\ "starting" \in Stages
    BY StagesDiffer, SetsDiffer
  <2>3. Pooled(pc', queue', free', waiting')
    <3>1. free # 0
      BY <1>8 DEF Locked
    <3>2. Pooled(Moved(pc, c, "starting"), queue, free - 1, waiting)
      BY <1>2, <2>2, <3>1, LookFacts, PoolParts, SlotTaken
    <3> QED
      BY <1>8, <2>1, <3>2
  <2>4. Lookups(pc', look')
    <3>1. LookOk([look[c] EXCEPT !.attempt = n], "starting") /\ Lookups(pc, look)
      BY <1>6 DEF LookupInv
    <3> QED
      BY <2>1, <2>2, <3>1, LooksMove
  <2>5. Browsers(pc', chrome')
    <3>1. chrome' \subseteq chrome \cup {c} /\ c \notin chrome' /\ Browsers(pc, chrome) /\ pc \in [Callers -> Stages]
      BY <1>3, LookFacts, PoolParts
    <3> QED
      BY <2>1, <2>2, <3>1, BrowsersMove
  <2>6. waiting' <= MaxWaiting /\ stray' \subseteq Jobs /\ sandbox' \in BOOLEAN /\ Fits(cache')
    BY <1>8, PoolParts
  <2> QED
    BY <2>3, <2>4, <2>5, <2>6 DEF LookupInv, Fits, Lookups, Pooled, Browsers
<1> QED
  BY <1>4, <1>5, <1>7, <1>8 DEF Look

\* A waiter that was granted a slot comes to run, and leaves the count of waiters.
LEMMA AcquireKeeps ==
    ASSUME LookupInv, NEW c \in Callers, Acquire(c)
    PROVE  LookupInv'
<1>1. /\ pc[c] = "granted" /\ pc' = Moved(pc, c, "starting") /\ look' = look /\ waiting' = waiting - 1
      /\ queue' = queue /\ free' = free /\ chrome' = chrome /\ stray' = stray
      /\ sandbox' = sandbox /\ cache' = cache
  BY DEF Acquire, Moves, Moved
<1>2. "starting" \in Holding /\ "starting" \in Stages /\ pc[c] \in Grants /\ c \notin chrome
  BY <1>1, StagesDiffer, SetsDiffer, PoolParts DEF Grants, Browsing
<1>3. Pooled(pc', queue', free', waiting')
  <2>1. Pooled(Moved(pc, c, "starting"), queue, free, waiting - 1)
    BY <1>2, LookFacts, PoolParts, GoesOn
  <2> QED
    BY <1>1, <2>1
<1>4. Lookups(pc', look')
  <2>1. LookOk(look[c], pc[c]) /\ look = [look EXCEPT ![c] = look[c]] /\ Lookups(pc, look)
    BY LookFacts DEF LookupInv
  <2>2. LookOk(look[c], "starting")
    BY <1>1, <2>1 DEF LookOk
  <2> QED
    BY <1>1, <1>2, <2>1, <2>2, LooksMove
<1>5. Browsers(pc', chrome')
  <2>1. chrome' \subseteq chrome \cup {c} /\ c \notin chrome' /\ Browsers(pc, chrome) /\ pc \in [Callers -> Stages]
    BY <1>1, <1>2, LookFacts, PoolParts
  <2> QED
    BY <1>1, <1>2, <2>1, BrowsersMove
<1>6. waiting' <= MaxWaiting
  BY <1>1, PoolParts, LookupAssumption
<1>7. stray' \subseteq Jobs /\ sandbox' \in BOOLEAN /\ Fits(cache')
  BY <1>1, PoolParts
<1> QED
  BY <1>3, <1>4, <1>5, <1>6, <1>7 DEF LookupInv, Fits, Lookups, Pooled, Browsers

\* From the driver to a browser.
LEMMA LaunchKeeps ==
    ASSUME LookupInv, NEW c \in Callers,
           Started(c) \/ Launched(c) \/ SandboxFails(c) \/ LaunchedPlain(c) \/ LaunchFails(c)
    PROVE  LookupInv'
<1>1. LookOk(look[c], pc[c])
  BY LookFacts
<1>2. /\ \A s \in {"starting", "sandboxed", "fallback", "plain", "context"} : s \in Holding
      /\ "context" \in Browsing
  BY DEF Holding, Browsing
<1>3. CASE Started(c) \/ SandboxFails(c) \/ Launched(c) \/ LaunchedPlain(c)
  <2>1. pc[c] \in {"starting", "sandboxed", "fallback", "plain"} /\ pc[c] \in Holding
    BY <1>2, <1>3 DEF Started, SandboxFails, Launched, LaunchedPlain
  <2>2. look[c].end = "open" /\ c \notin chrome
    BY <1>1, <2>1, PoolParts DEF LookOk, Browsing
  <2>3. UNCHANGED <<pool, stray, cache>>
    BY <1>3 DEF Started, SandboxFails, Launched, LaunchedPlain
  <2>4. CASE Started(c) \/ SandboxFails(c)
    <3>1. PICK to \in {"sandboxed", "plain", "fallback"} : Moves(c, to)
      BY <2>4 DEF Started, SandboxFails
    <3>2. chrome' = chrome /\ sandbox' = sandbox /\ to \in Holding
      BY <1>2, <2>4 DEF Started, SandboxFails
    <3> QED
      BY <2>1, <2>2, <2>3, <3>1, <3>2, PoolParts, MoveKeeps
  <2>5. CASE Launched(c) \/ LaunchedPlain(c)
    <3>1. Moves(c, "context") /\ chrome' = chrome \cup {c}
      BY <2>5 DEF Launched, LaunchedPlain
    <3>2. sandbox' \in BOOLEAN
      BY <2>5, PoolParts, Zenon DEF Launched, LaunchedPlain
    <3> QED
      BY <1>2, <2>1, <2>2, <2>3, <3>1, <3>2, MoveKeeps
  <2> QED
    BY <1>3, <2>4, <2>5
<1>4. CASE LaunchFails(c)
  <2>1. /\ Fails(c, "stopping", "error") /\ UNCHANGED <<pool, stray, sandbox, cache>> /\ chrome' = chrome
        /\ pc[c] \in Holding
    BY <1>2, <1>4 DEF LaunchFails
  <2> QED
    BY <2>1, FailKeeps DEF Ends
<1> QED
  BY <1>3, <1>4

\* From a browser to the end of the watch.
LEMMA OpenKeeps ==
    ASSUME LookupInv, NEW c \in Callers, Opens(c) \/ OpenFails(c) \/ StopWatching(c)
    PROVE  LookupInv'
<1>1. LookOk(look[c], pc[c])
  BY LookFacts
<1>2. \A s \in {"context", "preparing", "loading", "watching", "leaving", "closing"} : s \in Holding /\ s \in Browsing
  BY DEF Holding, Browsing
<1>3. CASE Opens(c) \/ StopWatching(c)
  <2>1. /\ pc[c] \in {"context", "preparing", "loading", "watching"} /\ pc[c] \in Holding
        /\ UNCHANGED <<pool, chrome, stray, sandbox, cache>>
    BY <1>2, <1>3 DEF Opens, StopWatching
  <2>2. look[c].end = "open"
    BY <1>1, <2>1 DEF LookOk
  <2>3. PICK to \in {"preparing", "loading", "watching", "leaving"} : Moves(c, to)
    <3>1. Opens(c) => Following(c) \in {"preparing", "loading", "watching"} /\ Moves(c, Following(c))
      BY DEF Opens, Following
    <3>2. StopWatching(c) => Moves(c, "leaving")
      BY DEF StopWatching
    <3> QED
      BY <1>3, <3>1, <3>2
  <2>4. to \in Holding /\ to \in Browsing
    BY <1>2
  <2> QED
    BY <2>1, <2>2, <2>3, <2>4, PoolParts, MoveKeeps
<1>4. CASE OpenFails(c)
  <2>1. pc[c] \in Holding /\ UNCHANGED <<pool, chrome, stray, sandbox, cache>>
    BY <1>2, <1>4 DEF OpenFails
  <2>2. PICK to \in {"leaving", "closing"} : Fails(c, to, "error")
    BY <1>4 DEF OpenFails
  <2> QED
    BY <2>1, <2>2, FailKeeps DEF Ends
<1> QED
  BY <1>3, <1>4

\* What the page and the browser do in between.
LEMMA CallbackKeeps ==
    ASSUME LookupInv, NEW c \in Callers,
           \/ \E answer \in {"refusal", "item"} : Response(c, answer)
           \/ PageCrashes(c) \/ BrowserDies(c)
    PROVE  LookupInv'
<1>1. LookOk(look[c], pc[c]) /\ pc = Moved(pc, c, pc[c]) /\ look = [look EXCEPT ![c] = look[c]]
  BY LookFacts
<1>2. \A s \in {"preparing", "loading", "watching", "leaving"} : s \in Holding /\ s \in Browsing
  BY DEF Holding, Browsing
<1>3. ASSUME NEW l, LookOk(l, pc[c]), look' = [look EXCEPT ![c] = l], pc[c] \in Holding, chrome' \subseteq chrome,
             UNCHANGED <<pc, pool, stray, sandbox, cache>>
      PROVE  LookupInv'
  <2>1. Steps(c, pc[c], l)
    BY <1>1, <1>3, PoolParts DEF Steps
  <2> QED
    BY <2>1, StepKeeps
<1>4. ASSUME Crashed(c), look[c].end = "open", pc[c] \in Holding, chrome' \subseteq chrome,
             UNCHANGED <<pc, pool, stray, sandbox, cache>>
      PROVE  LookupInv'
  <2> DEFINE l == [look[c] EXCEPT !.shown = @ \cup {"crash"}, !.found = IF @ = "pending" THEN "crash" ELSE @]
  <2>1. LookOk(l, pc[c])
    BY <1>1, <1>4, CrashOk
  <2>2. look' = [look EXCEPT ![c] = l]
    BY <1>4 DEF Crashed
  <2> HIDE DEF l
  <2> QED
    BY <1>3, <1>4, <2>1, <2>2
<1>5. ASSUME NEW answer \in {"refusal", "item"}, Response(c, answer)
      PROVE  LookupInv'
  <2> DEFINE l == [look[c] EXCEPT !.last = answer, !.shown = @ \cup {answer},
                                  !.found = IF answer = "item" /\ @ = "pending" THEN "item" ELSE @]
  <2>1. LookOk(l, pc[c])
    BY <1>1, <1>5, AnswerOk DEF Response
  <2>2. look' = [look EXCEPT ![c] = l] /\ pc[c] \in Holding
    BY <1>2, <1>5 DEF Response
  <2> HIDE DEF l
  <2> QED
    BY <1>3, <1>5, <2>1, <2>2 DEF Response
<1>6. CASE PageCrashes(c)
  BY <1>2, <1>4, <1>6 DEF PageCrashes
<1>7. CASE BrowserDies(c)
  <2>1. pc[c] \in Holding /\ chrome' \subseteq chrome /\ UNCHANGED <<pc, pool, stray, sandbox, cache>>
    BY <1>7 DEF BrowserDies
  <2>2. CASE pc[c] \in {"preparing", "loading", "watching"}
    <3>1. look[c].end = "open" /\ Crashed(c)
      BY <1>1, <1>7, <2>2 DEF LookOk, BrowserDies
    <3> QED
      BY <1>4, <2>1, <3>1
  <2>3. CASE pc[c] \notin {"preparing", "loading", "watching"}
    <3>1. look' = look
      BY <1>7, <2>3 DEF BrowserDies
    <3> QED
      BY <1>1, <1>3, <2>1, <3>1
  <2> QED
    BY <2>2, <2>3
<1> QED
  BY <1>5, <1>6, <1>7

\* Closing the context and the browser.
LEMMA CloseKeeps ==
    ASSUME LookupInv, NEW c \in Callers, ContextClosed(c) \/ Closed(c)
    PROVE  LookupInv'
<1>1. LookOk(look[c], pc[c]) /\ look[c].end \in Ends \cup {"open"}
  BY LookFacts DEF Looks
<1>2. \A s \in {"leaving", "closing", "stopping"} : s \in Holding /\ s \in Browsing
  BY DEF Holding, Browsing
<1>3. CASE ContextClosed(c)
  <2>1. /\ pc[c] = "leaving" /\ pc[c] \in Holding
        /\ pool' = pool /\ chrome' = chrome /\ stray' = stray /\ sandbox' = sandbox /\ cache' = cache
    BY <1>2, <1>3 DEF ContextClosed
  <2>2. CASE look[c].end = "open"
    <3> DEFINE l == [look[c] EXCEPT !.end = Outcome(c)]
    <3>1. LookOk(l, "closing")
      BY <1>1, <2>1, <2>2, OutcomeOk
    <3>2. pc' = Moved(pc, c, "closing") /\ look' = [look EXCEPT ![c] = l]
      BY <1>3, <2>2 DEF ContextClosed, Moved
    <3> HIDE DEF l
    <3>3. Steps(c, "closing", l)
      BY <1>2, <2>1, <3>1, <3>2, PoolParts DEF Steps
    <3> QED
      BY <3>3, StepKeeps
  <2>3. CASE look[c].end # "open"
    <3>1. Moves(c, "closing")
      BY <1>3, <2>3 DEF ContextClosed
    <3>2. "closing" \in Holding /\ "closing" \in Browsing
      BY <1>2
    <3> QED
      BY <2>1, <3>1, <3>2, PoolParts, MoveKeeps
  <2> QED
    BY <2>2, <2>3
<1>4. CASE Closed(c)
  <2>1. /\ pc[c] \in Holding /\ UNCHANGED <<pool, stray, sandbox, cache>> /\ chrome' \subseteq chrome
        /\ Fails(c, "stopping", look[c].end)
    BY <1>2, <1>4 DEF Closed
  <2> QED
    BY <1>1, <2>1, FailKeeps
<1> QED
  BY <1>3, <1>4

\* A detail is remembered, at the cost of the oldest.
LEMMA RememberFits ==
    ASSUME Fits(cache), NEW i \in Items
    PROVE  Fits(Remember(i))
<1> DEFINE kept == MakeRoom(cache)
<1>1. /\ Distinct(cache, Items) /\ Len(cache) \in Nat /\ Len(cache) <= MaxCached
      /\ MaxCached \in Nat /\ MaxCached # 0
  BY DistinctFacts, LookupAssumption DEF Fits
<1>2. Distinct(kept, Items) /\ Len(kept) < MaxCached
  <2>1. CASE Len(cache) >= MaxCached
    <3>1. cache # <<>>
      BY <1>1, <2>1, EmptySeq
    <3>2. Distinct(Tail(cache), Items) /\ Len(Tail(cache)) = Len(cache) - 1
      BY <1>1, <3>1, FirstTaken
    <3> QED
      BY <1>1, <2>1, <3>2 DEF MakeRoom
  <2>2. CASE ~(Len(cache) >= MaxCached)
    BY <1>1, <2>2 DEF MakeRoom
  <2> QED
    BY <2>1, <2>2
<1>3. Remember(i) = IF i \in ToSet(kept) THEN kept ELSE Append(kept, i)
  BY DEF Remember, Contains, ToSet
<1>4. Len(kept) \in Nat
  BY <1>2, DistinctFacts
<1> HIDE DEF kept
<1>5. CASE i \in ToSet(kept)
  BY <1>1, <1>2, <1>3, <1>4, <1>5 DEF Fits
<1>6. CASE i \notin ToSet(kept)
  <2>1. Distinct(Append(kept, i), Items) /\ Len(Append(kept, i)) = Len(kept) + 1
    BY <1>2, <1>6, Appended
  <2> QED
    BY <1>1, <1>2, <1>3, <1>4, <1>6, <2>1 DEF Fits
<1> QED
  BY <1>5, <1>6

\* The driver is stopped, or could not be started.
LEMMA StopKeeps ==
    ASSUME LookupInv, NEW c \in Callers, StartFails(c) \/ Stopped(c)
    PROVE  LookupInv'
<1>1. LookOk(look[c], pc[c]) /\ look[c] \in Looks
  BY LookFacts
<1>2. CASE StartFails(c)
  <2>1. /\ pc[c] \in Holding /\ c \notin chrome /\ EndsSlotted(c, "error")
        /\ UNCHANGED <<waiting, chrome, stray, sandbox, cache>>
    BY <1>2, SetsDiffer, PoolParts DEF StartFails, Browsing
  <2> QED
    BY <2>1, PoolParts, EndKeeps
<1>3. CASE Stopped(c)
  <2>1. /\ pc[c] = "stopping" /\ chrome' = chrome \ {c} /\ EndsSlotted(c, look[c].end)
        /\ cache' = IF look[c].end = "ok" THEN Remember(look[c].item) ELSE cache
        /\ UNCHANGED <<waiting, stray, sandbox>>
    BY <1>3 DEF Stopped
  <2>2. look[c].item \in Items /\ pc[c] \in Holding
    BY <1>1, <2>1, SetsDiffer DEF LookOk
  <2>3. Fits(cache')
    BY <2>1, <2>2, PoolParts, RememberFits
  <2> QED
    BY <2>1, <2>2, <2>3, PoolParts, EndKeeps
<1> QED
  BY <1>2, <1>3

\* A cancelled waiter leaves the queue, or hands on the slot it was just given.
LEMMA CancelWaitingKeeps ==
    ASSUME LookupInv, NEW c \in Callers, CancelWaiting(c)
    PROVE  LookupInv'
<1>1. /\ waiting' = waiting - 1 /\ look' = [look EXCEPT ![c] = Blank]
      /\ UNCHANGED <<chrome, stray, sandbox, cache>>
  BY DEF CancelWaiting
<1>2. "idle" \in Elsewhere /\ "idle" \in Stages /\ LookOk(Blank, "idle")
  BY SetsDiffer, StagesDiffer, BlankOk
<1>3. CASE pc[c] = "waiting" /\ Withdraw(c)
  <2>1. pc' = Moved(pc, c, "idle") /\ queue' = RemoveFirst(queue, c) /\ free' = free
    BY <1>3 DEF Withdraw, Moved
  <2>2. pc[c] \in Waits /\ c \notin chrome
    BY <1>3, PoolParts DEF Waits, Browsing
  <2>3. Pooled(pc', queue', free', waiting')
    <3>1. Pooled(Moved(pc, c, "idle"), RemoveFirst(queue, c), free, waiting - 1)
      BY <1>2, <2>2, LookFacts, PoolParts, GivesUp
    <3> QED
      BY <1>1, <2>1, <3>1
  <2>4. Lookups(pc', look')
    <3>1. Lookups(pc, look)
      BY DEF LookupInv
    <3> QED
      BY <1>1, <1>2, <2>1, <3>1, LooksMove
  <2>5. Browsers(pc', chrome')
    <3>1. chrome' \subseteq chrome \cup {c} /\ c \notin chrome' /\ Browsers(pc, chrome) /\ pc \in [Callers -> Stages]
      BY <1>1, <2>2, LookFacts, PoolParts
    <3> QED
      BY <1>2, <2>1, <3>1, BrowsersMove
  <2>6. waiting' <= MaxWaiting
    BY <1>1, PoolParts, LookupAssumption
  <2>7. stray' \subseteq Jobs /\ sandbox' \in BOOLEAN /\ Fits(cache')
    BY <1>1, PoolParts
  <2> QED
    BY <2>3, <2>4, <2>5, <2>6, <2>7 DEF LookupInv, Fits, Lookups, Pooled, Browsers
<1>4. CASE pc[c] = "granted" /\ Release([pc EXCEPT ![c] = "idle"])
  <2>1. Release(Moved(pc, c, "idle")) /\ pc[c] \in Grants /\ pc[c] \notin Holding /\ c \notin chrome
    BY <1>4, StagesDiffer, PoolParts DEF Moved, Grants, Browsing
  <2>2. GivesBack(c, "idle", Blank)
    BY <1>1, <1>2, <2>1, PoolParts DEF GivesBack
  <2>3. Fits(cache')
    BY <1>1, PoolParts
  <2> QED
    BY <2>2, <2>3, GivingBackKeeps
<1> QED
  BY <1>3, <1>4 DEF CancelWaiting

\* A job is cancelled at one of its awaits.
LEMMA CancelJobKeeps ==
    ASSUME LookupInv, NEW c \in Callers, CancelJob(c)
    PROVE  LookupInv'
<1>1. c \in Jobs
  BY DEF CancelJob
<1>2. CASE CancelUnslotted(c)
  <2>1. pc[c] \in Elsewhere
    BY <1>2, SetsDiffer DEF CancelUnslotted
  <2> QED
    BY <1>2, <2>1, GivesUpKeeps DEF CancelUnslotted
<1>3. CASE CancelWaiting(c)
  BY <1>3, CancelWaitingKeeps
<1>4. CASE CancelOpen(c)
  <2>1. pc[c] \in Holding /\ UNCHANGED <<pool, chrome, stray, sandbox, cache>>
    BY <1>4 DEF CancelOpen, Holding
  <2>2. PICK to \in {"leaving", "closing", "stopping"} : Fails(c, to, "cancelled")
    BY <1>4 DEF CancelOpen
  <2> QED
    BY <2>1, <2>2, FailKeeps DEF Ends
<1>5. CASE CancelLast(c)
  <2>1. /\ pc[c] \in Holding /\ EndsSlotted(c, "cancelled") /\ chrome' = chrome \ {c}
        /\ UNCHANGED <<waiting, sandbox, cache>>
    BY <1>5 DEF CancelLast, Holding
  <2>2. stray' \subseteq Jobs
    BY <1>1, <1>5, PoolParts DEF CancelLast
  <2> QED
    BY <2>1, <2>2, PoolParts, EndKeeps
<1> QED
  BY <1>2, <1>3, <1>4, <1>5 DEF CancelJob

\* What stands outside the lookups.
LEMMA OutsideKeeps ==
    ASSUME LookupInv, Expire \/ \E c \in Callers : StrayExits(c)
    PROVE  LookupInv'
<1>1. /\ UNCHANGED <<pc, look, pool, chrome, sandbox>> /\ stray' \subseteq Jobs
      /\ cache' = cache \/ \E i \in ToSet(cache) : cache' = RemoveFirst(cache, i)
  BY PoolParts DEF Expire, StrayExits
<1>2. Fits(cache')
  <2>1. CASE cache' = cache
    BY <2>1, PoolParts
  <2>2. ASSUME NEW i \in ToSet(cache), cache' = RemoveFirst(cache, i) PROVE Fits(cache')
    <3>1. Distinct(cache, Items) /\ Len(cache) <= MaxCached /\ Len(cache) \in Nat /\ MaxCached \in Nat
      BY PoolParts, DistinctFacts, LookupAssumption DEF Fits
    <3>2. Distinct(cache', Items) /\ Len(cache') = Len(cache) - 1
      BY <2>2, <3>1, TakenOutFirst
    <3> QED
      BY <3>1, <3>2 DEF Fits
  <2> QED
    BY <1>1, <2>1, <2>2
<1>3. Lookups(pc', look')
  BY <1>1 DEF LookupInv
<1>4. Pooled(pc', queue', free', waiting')
  BY <1>1 DEF LookupInv, pool
<1>5. Browsers(pc', chrome')
  BY <1>1 DEF LookupInv
<1>6. waiting' <= MaxWaiting /\ sandbox' \in BOOLEAN
  BY <1>1 DEF LookupInv, pool
<1> QED
  BY <1>1, <1>2, <1>3, <1>4, <1>5, <1>6 DEF LookupInv, Fits, Lookups, Pooled, Browsers

\* At first nobody looks anything up and all slots are free.
LEMMA LookupInitHolds == LookupInit => LookupInv
<1> SUFFICES ASSUME LookupInit PROVE LookupInv
  OBVIOUS
<1>1. pc = [c \in Callers |-> "idle"] /\ look = [c \in Callers |-> Blank]
  BY DEF LookupInit
<1>2. Lookups(pc, look)
  BY <1>1, BlankOk, SetsDiffer, StagesDiffer DEF Lookups
<1>3. At(pc, Holding) = {} /\ At(pc, Grants) = {} /\ At(pc, Waits) = {}
  BY <1>1, SetsDiffer, StagesDiffer DEF At
<1>4. Cardinality({}) = 0
  BY FS_EmptySet
<1>5. /\ MaxBrowsers \in Nat /\ MaxWaiting \in Nat /\ MaxCached \in Nat
      /\ 0 <= MaxWaiting /\ 0 <= MaxCached
  BY LookupAssumption
<1>6. \A S : Distinct(<<>>, S) /\ Len(<<>>) = 0 /\ ToSet(<<>>) = {}
  BY DEF Distinct, IsInjective, ToSet
<1>7. Pooled(pc, queue, free, waiting)
  <2>1. queue = <<>> /\ free = MaxBrowsers /\ waiting = 0
    BY DEF LookupInit
  <2>2. Distinct(queue, Callers) /\ ToSet(queue) = At(pc, Waits) /\ Len(queue) = 0
    BY <1>3, <1>6, <2>1
  <2>3. Cardinality(At(pc, Holding)) = 0 /\ Cardinality(At(pc, Grants)) = 0
    BY <1>3, <1>4
  <2> QED
    BY <1>5, <2>1, <2>2, <2>3 DEF Pooled
<1>8. Fits(cache) /\ waiting <= MaxWaiting /\ chrome = {} /\ stray = {} /\ sandbox = TRUE
  BY <1>5, <1>6 DEF LookupInit, Fits
<1> QED
  BY <1>2, <1>7, <1>8 DEF LookupInv, Browsers

\* Every step of a caller, and of what stands outside, keeps the invariant.
LEMMA LookupNextKeeps == LookupInv /\ [LookupNext]_lookupVars => LookupInv'
<1> SUFFICES ASSUME LookupInv, [LookupNext]_lookupVars PROVE LookupInv'
  OBVIOUS
<1>1. ASSUME NEW c \in Callers, NEW i \in Items, Admit(c, i) PROVE LookupInv'
  BY <1>1, AdmitKeeps
<1>2. ASSUME NEW c \in Callers, LinkFails(c) \/ Downloaded(c) PROVE LookupInv'
  <2>1. CASE LinkFails(c)
    BY <2>1, SetsDiffer, GivesUpKeeps DEF LinkFails
  <2>2. CASE Downloaded(c)
    <3>1. /\ pc[c] = "downloading" /\ Moves(c, "idle") /\ UNCHANGED <<pool, chrome, stray, sandbox, cache>>
          /\ LookOk(look[c], pc[c])
      BY <2>2, LookFacts DEF Downloaded
    <3>2. look[c].end = "open" /\ c \notin chrome /\ pc[c] \in Elsewhere /\ "idle" \in Elsewhere
      BY <3>1, SetsDiffer, PoolParts DEF LookOk, Browsing
    <3> QED
      BY <3>1, <3>2, PoolParts, MoveKeeps
  <2> QED
    BY <1>2, <2>1, <2>2
<1>3. ASSUME NEW c \in Callers, FirstLook(c) \/ SecondLook(c) PROVE LookupInv'
  <2>1. PICK n \in 0 .. 1 : Look(c, n) /\ pc[c] \in {"linking", "sleeping"} /\ UNCHANGED <<chrome, stray, sandbox, cache>>
    BY <1>3 DEF FirstLook, SecondLook
  <2> QED
    BY <2>1, LookKeeps
<1>4. ASSUME NEW c \in Callers, Acquire(c) PROVE LookupInv'
  BY <1>4, AcquireKeeps
<1>5. ASSUME NEW c \in Callers, Started(c) \/ Launched(c) \/ SandboxFails(c) \/ LaunchedPlain(c) \/ LaunchFails(c)
      PROVE  LookupInv'
  BY <1>5, LaunchKeeps
<1>6. ASSUME NEW c \in Callers, Opens(c) \/ OpenFails(c) \/ StopWatching(c) PROVE LookupInv'
  BY <1>6, OpenKeeps
<1>7. ASSUME NEW c \in Callers,
             \/ \E answer \in {"refusal", "item"} : Response(c, answer)
             \/ PageCrashes(c) \/ BrowserDies(c)
      PROVE  LookupInv'
  BY <1>7, CallbackKeeps
<1>8. ASSUME NEW c \in Callers, ContextClosed(c) \/ Closed(c) PROVE LookupInv'
  BY <1>8, CloseKeeps
<1>9. ASSUME NEW c \in Callers, StartFails(c) \/ Stopped(c) PROVE LookupInv'
  BY <1>9, StopKeeps
<1>10. ASSUME NEW c \in Callers, CancelJob(c) PROVE LookupInv'
  BY <1>10, CancelJobKeeps
<1>11. CASE Expire \/ \E c \in Callers : StrayExits(c)
  BY <1>11, OutsideKeeps
<1>12. ASSUME NEW c \in Callers, Prompt(c) PROVE LookupInv'
  BY <1>2, <1>3, <1>4, <1>5, <1>6, <1>12 DEF Prompt
<1>13. ASSUME NEW c \in Callers, BrowserCall(c) PROVE LookupInv'
  BY <1>5, <1>6, <1>8, <1>9, <1>13 DEF BrowserCall
<1>14. CASE UNCHANGED lookupVars
  <2>1. UNCHANGED <<pc, look, queue, free, waiting, chrome, stray, sandbox, cache>>
    BY <1>14 DEF lookupVars, pool
  <2> QED
    BY <2>1 DEF LookupInv, Fits, Lookups, Pooled, Browsers
<1> QED
  BY <1>1, <1>7, <1>10, <1>11, <1>12, <1>13, <1>14 DEF LookupNext

\* A set does not have fewer members than can be numbered.
LEMMA NumberedIsBounded ==
    ASSUME NEW n \in Nat, NEW S, IsFiniteSet(S), NEW f \in [1 .. n -> S],
           \A i, j \in 1 .. n : f[i] = f[j] => i = j
    PROVE  Cardinality(S) \in Nat /\ n <= Cardinality(S)
<1>1. f \in Injection(1 .. n, S)
  BY DEF Injection, IsInjective
<1>2. Cardinality(1 .. n) <= Cardinality(S) /\ Cardinality(S) \in Nat
  BY <1>1, FS_Injection, FS_CardinalityType
<1>3. Cardinality(1 .. n) = IF 1 > n THEN 0 ELSE n - 1 + 1
  BY FS_Interval
<1>4. Cardinality(1 .. n) = n
  BY <1>3
<1> QED
  BY <1>2, <1>4

\* A sequence without repetition over a finite set is bounded by it.
LEMMA DistinctIsBounded ==
    ASSUME NEW S, NEW q, IsFiniteSet(S), Distinct(q, S)
    PROVE  q \in SeqOf(S, Cardinality(S))
<1>1. /\ q \in Seq(S) /\ Len(q) \in Nat /\ DOMAIN q = 1 .. Len(q)
      /\ \A i \in 1 .. Len(q) : q[i] \in S
      /\ \A i, j \in 1 .. Len(q) : q[i] = q[j] => i = j
  BY DistinctFacts
<1>2. q \in [1 .. Len(q) -> S]
  BY <1>1, LenProperties
<1>3. Cardinality(S) \in Nat /\ Len(q) <= Cardinality(S)
  BY <1>1, <1>2, NumberedIsBounded
<1>4. Len(q) \in 0 .. Cardinality(S)
  BY <1>1, <1>3
<1> QED
  BY <1>2, <1>4 DEF SeqOf

\* What the runs check follows from the invariant.
LEMMA InvariantImplies == LookupInv => LookupSound
<1> SUFFICES ASSUME LookupInv PROVE LookupSound
  OBVIOUS
<1>1. /\ Pooled(pc, queue, free, waiting) /\ Lookups(pc, look) /\ Fits(cache)
      /\ waiting \in Nat /\ waiting <= MaxWaiting /\ free \in Nat
  BY PoolParts DEF LookupInv
<1>2. At(pc, Holding) = Holders /\ At(pc, Grants) = Granted
  BY DEF At, Holders, Granted, Grants
<1>3. PoolBounded
  <2>1. chrome \subseteq Holders
    BY <1>2, PoolParts, SetsDiffer DEF Browsers, At
  <2> QED
    BY <1>1, <1>2, <2>1 DEF PoolBounded, Pooled
<1>4. LookupTypeOK
  <2>1. pc \in [Callers -> {"idle", "linking", "waiting", "granted", "sleeping", "downloading"} \cup Holding]
    <3>1. Stages = {"idle", "linking", "waiting", "granted", "sleeping", "downloading"} \cup Holding
      BY DEF Stages, Elsewhere, Waits, Grants
    <3> QED
      BY <1>1, <3>1 DEF Lookups
  <2>2. queue \in SeqOf(Callers, Cardinality(Callers))
    <3>1. IsFiniteSet(Callers)
      BY FS_Union, LookupAssumption DEF Callers
    <3> QED
      BY <1>1, <3>1, DistinctIsBounded DEF Pooled
  <2>3. free \in 0 .. MaxBrowsers
    <3>1. Cardinality(At(pc, Holding)) \in Nat /\ Cardinality(At(pc, Grants)) \in Nat
      BY CallersAreFinite
    <3>2. free + Cardinality(At(pc, Holding)) + Cardinality(At(pc, Grants)) = MaxBrowsers
      BY <1>1 DEF Pooled
    <3>3. MaxBrowsers \in Nat
      BY LookupAssumption
    <3> QED
      BY <1>1, <3>1, <3>2, <3>3
  <2>4. chrome \subseteq Callers /\ stray \subseteq Jobs /\ sandbox \in BOOLEAN
    BY PoolParts DEF Browsers, At
  <2>5. cache \in SeqOf(Items, MaxCached) /\ IsInjective(cache)
    <3>1. Distinct(cache, Items) /\ Len(cache) <= MaxCached /\ MaxCached \in Nat
      BY <1>1, LookupAssumption DEF Fits
    <3>2. /\ cache \in Seq(Items) /\ Len(cache) \in Nat /\ DOMAIN cache = 1 .. Len(cache)
          /\ \A i \in 1 .. Len(cache) : cache[i] \in Items
      BY <3>1, DistinctFacts
    <3>3. cache \in [1 .. Len(cache) -> Items] /\ Len(cache) \in 0 .. MaxCached
      BY <3>1, <3>2, LenProperties
    <3> QED
      BY <3>1, <3>3 DEF SeqOf, Distinct
  <2>6. look \in [Callers -> Looks]
    BY <1>1 DEF Lookups
  <2> QED
    BY <1>1, <2>1, <2>2, <2>3, <2>4, <2>5, <2>6 DEF LookupTypeOK, Looks
<1>5. OutcomeIsTrue
  <2>1. ASSUME NEW c \in Callers, pc[c] = "closing" PROVE EndTrue(look[c])
    BY <1>1, <2>1 DEF Lookups, LookOk
  <2> QED
    BY <2>1 DEF OutcomeIsTrue, EndTrue
<1> QED
  BY <1>3, <1>4, <1>5 DEF LookupSound

\* However lookups wait, fail, crash or are cancelled (detail.py), the pool keeps to its
\* browsers and waiters, every slot is accounted for, the cache to its size, and an attempt
\* reports what happened in it: LookupSound.
THEOREM LookupsAreSound == LookupSpec => []LookupSound
<1>1. LookupInit => LookupInv
  BY LookupInitHolds
<1>2. LookupInv /\ [LookupNext]_lookupVars => LookupInv'
  BY LookupNextKeeps
<1>3. LookupInv => LookupSound
  BY InvariantImplies
<1> QED
  BY <1>1, <1>2, <1>3, PTL DEF LookupSpec

-----------------------------------------------------------------------------
(* The tab: the invariant, one part for each part of it                    *)

Answers == {"page", "failed", "changed", "account"}
Requests == [id : 1 .. MaxRequests, key : Logins, ask : Attempts, answer : Answers \cup {None},
             tab : {"listening", "aborted", "gone"}]
Details == [key : Logins, answer : [value : BOOLEAN] \cup {None}, before : BOOLEAN]

\* An answer tells of a login.
Tells(status) == status \in Status /\ (status.state = "answered" => status.of \in Logins)

AccountInv == login \in Logins /\ changes \in 0 .. MaxChanges /\ current \in Logins \cup {None} /\ Tells(poll)

PanelInv ==
    /\ Tells(own) /\ qr \in BOOLEAN /\ masked \in BOOLEAN
    /\ shown \in {None, NoKey, current}
    /\ ~(qr /\ ShowsAccount)

\* A further page is asked for with the search it is of.
Whole(ask) == ask \in Attempts /\ (ask.page > 1 => ask.of # None)

\* What was searched as another account can only be left from before a reload.
Ours(ask) == ask.of \notin {None, current} => stale

\* Requests of the search page: each has its number.
Proper(S) ==
    /\ S \subseteq Requests
    /\ \A r, s \in S : r.id = s.id => r = s
    /\ \A r \in S : Whole(r.ask)

\* Who listens is the latest request, of the account the tab knows.
RequestsInv ==
    /\ latest \in 0 .. MaxRequests /\ Proper(requests)
    /\ \A r \in Listening : r.id = latest /\ r.key = current /\ Ours(r.ask)

ResultInv ==
    /\ result \in Attempts \cup {None} /\ stale \in BOOLEAN
    /\ result # None => result.of \in Logins
    /\ result # None /\ ~stale => current # None /\ result.of = current

\* A failure is shown only while nothing is loaded, and knows what to retry.
FailureInv ==
    failure # None =>
        /\ ~loading /\ current # None
        /\ Whole(failure.ask) /\ failure.changed \in BOOLEAN
        /\ failure.changed \/ Ours(failure.ask)

SearchInv ==
    /\ RequestsInv /\ ResultInv /\ FailureInv
    /\ loading \in BOOLEAN /\ (loading <=> Listening # {})

\* No write has changed the library without the player having been told.
Steady == ~doubt /\ (write = None \/ write.stage # "answered")

DockTyped ==
    /\ library \in [Owners -> BOOLEAN] /\ doubt \in BOOLEAN
    /\ write \in Writes \cup {None} /\ details \in Details \cup {None}
    /\ user # "dock" => dock = None /\ write = None /\ details = None

\* A write is done for the account it was sent for.
WriteInv ==
    write # None =>
        /\ write.stage # "sent" => write.identity = write.key
        /\ write.stage = "answered" => library[write.key.owner] = write.value

MarkInv ==
    dock # None =>
        /\ current # None /\ dock.owner = current.owner
        /\ Steady => dock.value = library[dock.owner]

\* An answer that counts tells what the library has.
DetailsInv ==
    details # None /\ details.answer # None /\ ~details.before /\ Steady =>
        details.answer.value = library[details.key.owner]

DockInv == DockTyped /\ WriteInv /\ MarkInv /\ DetailsInv

ListInv ==
    /\ playlist \in [owner : Owners, order : Orders] \cup {None} /\ page \in Orders \cup {None}
    /\ edit \in UnderWay \cup {None} /\ behind \in BOOLEAN
    /\ edit # None /\ edit.stage = "read" => edit.order \in Orders
    /\ page # None /\ ~behind /\ (edit = None \/ edit.stage = "sent") => playlist # None /\ page = playlist.order
    /\ edit # None /\ edit.stage = "read" /\ ~behind => playlist # None /\ edit.order = playlist.order

IInv == user \in Users /\ AccountInv /\ PanelInv /\ SearchInv /\ DockInv /\ ListInv

-----------------------------------------------------------------------------
(* What a step leaves alone                                                *)

\* Steps that leave the account alone.
LEMMA AccountStays ==
    ASSUME AccountInv, UNCHANGED accountVars
    PROVE  AccountInv'
BY DEF AccountInv, accountVars, Tells

\* Steps that leave what the login panel shows alone.
LEMMA PanelStays ==
    ASSUME PanelInv, UNCHANGED <<own, shown, qr, masked, current>>
    PROVE  PanelInv'
BY DEF PanelInv, Tells, ShowsAccount

\* Steps that leave the search page alone.
LEMMA SearchStays ==
    ASSUME SearchInv, UNCHANGED <<searchVars, current>>
    PROVE  SearchInv'
BY DEF SearchInv, searchVars, RequestsInv, ResultInv, FailureInv, Listening, Ours

\* Steps that leave the player's mark alone.
LEMMA DockStays ==
    ASSUME DockInv, UNCHANGED <<user, dockVars, current>>
    PROVE  DockInv'
BY DEF DockInv, dockVars, DockTyped, WriteInv, MarkInv, DetailsInv, Steady

\* Steps that leave the page of a playlist alone.
LEMMA ListStays ==
    ASSUME ListInv, UNCHANGED listVars
    PROVE  ListInv'
BY DEF ListInv, listVars

\* A login is of an owner, and the guest's is the logout.
LEMMA LoginsOwn ==
    /\ LoggedOut \in Logins
    /\ \A k \in Logins : k.owner \in Owners /\ (k.owner = Guest => k = LoggedOut)
<1>1. LoggedOut \in Logins /\ LoggedOut.owner = Guest
  BY DEF Logins, LoggedOut
<1>2. ASSUME NEW k \in Logins PROVE k.owner \in Owners /\ (k.owner = Guest => k = LoggedOut)
  BY <1>1, <1>2, AccountTabAssumption DEF Logins, Owners
<1> QED
  BY <1>1, <1>2

\* A status request is idle, asked or tells of a login.
LEMMA StatusFacts ==
    /\ Tells(Idle) /\ Tells(Asked) /\ Asked # Idle
    /\ Idle.state = "idle" /\ Asked.state = "sent"
    /\ \A k \in Logins : Tells(Told(k)) /\ Told(k).state = "answered" /\ Told(k).of = k
<1>1. Idle.state = "idle" /\ Asked.state = "sent"
  BY DEF Idle, Asked
<1>2. Tells(Idle) /\ Tells(Asked)
  BY DEF Tells, Status, Idle, Asked
<1>3. ASSUME NEW k \in Logins PROVE Tells(Told(k)) /\ Told(k).state = "answered" /\ Told(k).of = k
  BY DEF Tells, Status, Told
<1> QED
  BY <1>1, <1>2, <1>3

\* A refused request only asks for the account.
LEMMA RefusalAsks ==
    ASSUME AccountInv, Refused \/ UNCHANGED poll, UNCHANGED <<login, changes, current>>
    PROVE  AccountInv'
BY StatusFacts DEF AccountInv, Refused, Tells

-----------------------------------------------------------------------------
(* Requests of the search page                                             *)

\* Requests that are left out disturb no others.
LEMMA SubsetProper ==
    ASSUME NEW S, Proper(S), NEW T, T \subseteq S
    PROVE  Proper(T)
BY DEF Proper

\* A request becomes another one of the same number.
LEMMA ReplacedProper ==
    ASSUME NEW S, Proper(S), NEW r \in S, NEW x \in Requests, x.id = r.id, Whole(x.ask)
    PROVE  Proper((S \ {r}) \cup {x})
BY DEF Proper

\* A request of a new number is added.
LEMMA AddedProper ==
    ASSUME NEW S, Proper(S), NEW x \in Requests, Whole(x.ask), \A s \in S : s.id # x.id
    PROVE  Proper(S \cup {x})
BY DEF Proper

\* The tab turns away from a request, which stays the same but for that.
LEMMA TabChanges ==
    ASSUME NEW r \in Requests, NEW t \in {"aborted", "gone"}
    PROVE  /\ [r EXCEPT !.tab = t] \in Requests /\ [r EXCEPT !.tab = t].tab = t
           /\ [r EXCEPT !.tab = t].id = r.id /\ [r EXCEPT !.tab = t].ask = r.ask
BY DEF Requests

\* A request is answered, and stays the same but for that.
LEMMA AnswerChanges ==
    ASSUME NEW r \in Requests, NEW a \in Answers
    PROVE  /\ [r EXCEPT !.answer = a] \in Requests /\ [r EXCEPT !.answer = a].tab = r.tab
           /\ [r EXCEPT !.answer = a].id = r.id /\ [r EXCEPT !.answer = a].ask = r.ask
           /\ [r EXCEPT !.answer = a].key = r.key
BY DEF Requests

\* After an abort every request has its number and nobody listens.
LEMMA AbortedProper ==
    ASSUME NEW S, Proper(S)
    PROVE  /\ Proper(Aborted(S))
           /\ \A x \in Aborted(S) : x.tab # "listening" /\ \E r \in S : r.id = x.id
<1>1. ASSUME NEW x \in Aborted(S)
      PROVE  \E r \in S : /\ x = IF r.tab = "listening" THEN [r EXCEPT !.tab = "aborted"] ELSE r
                          /\ x \in Requests /\ x.id = r.id /\ x.ask = r.ask /\ x.tab # "listening"
  <2>1. PICK r \in S : x = IF r.tab = "listening" THEN [r EXCEPT !.tab = "aborted"] ELSE r
    BY <1>1 DEF Aborted
  <2>2. r \in Requests
    BY DEF Proper
  <2> QED
    BY <2>1, <2>2, TabChanges
<1>2. \A x \in Aborted(S) : x \in Requests /\ Whole(x.ask)
  BY <1>1 DEF Proper
<1>3. ASSUME NEW x \in Aborted(S), NEW y \in Aborted(S), x.id = y.id PROVE x = y
  <2>1. PICK r \in S : /\ x = IF r.tab = "listening" THEN [r EXCEPT !.tab = "aborted"] ELSE r
                       /\ x.id = r.id
    BY <1>1
  <2>2. PICK s \in S : /\ y = IF s.tab = "listening" THEN [s EXCEPT !.tab = "aborted"] ELSE s
                       /\ y.id = s.id
    BY <1>1
  <2>3. r = s
    BY <1>3, <2>1, <2>2 DEF Proper
  <2> QED
    BY <2>1, <2>2, <2>3
<1>4. Proper(Aborted(S))
  BY <1>2, <1>3 DEF Proper
<1> QED
  BY <1>1, <1>4

\* After a reload nobody is there to take an answer.
LEMMA GoneProper ==
    ASSUME NEW S, Proper(S)
    PROVE  /\ Proper({[r EXCEPT !.tab = "gone"] : r \in S})
           /\ \A x \in {[r EXCEPT !.tab = "gone"] : r \in S} : x.tab = "gone"
<1> DEFINE T == {[r EXCEPT !.tab = "gone"] : r \in S}
<1>1. ASSUME NEW x \in T
      PROVE  \E r \in S : /\ x = [r EXCEPT !.tab = "gone"]
                          /\ x \in Requests /\ x.id = r.id /\ x.ask = r.ask /\ x.tab = "gone"
  <2>1. PICK r \in S : x = [r EXCEPT !.tab = "gone"]
    BY <1>1
  <2>2. r \in Requests
    BY DEF Proper
  <2> QED
    BY <2>1, <2>2, TabChanges
<1> HIDE DEF T
<1>2. \A x \in T : x \in Requests /\ Whole(x.ask)
  BY <1>1 DEF Proper
<1>3. ASSUME NEW x \in T, NEW y \in T, x.id = y.id PROVE x = y
  <2>1. PICK r \in S : x = [r EXCEPT !.tab = "gone"] /\ x.id = r.id
    BY <1>1
  <2>2. PICK s \in S : y = [s EXCEPT !.tab = "gone"] /\ y.id = s.id
    BY <1>1
  <2>3. r = s
    BY <1>3, <2>1, <2>2 DEF Proper
  <2> QED
    BY <2>1, <2>2, <2>3
<1>4. Proper(T)
  BY <1>2, <1>3 DEF Proper
<1> QED
  BY <1>1, <1>4 DEF T

-----------------------------------------------------------------------------
(* The search page                                                         *)

\* The parts of the invariant of the search page.
LEMMA SearchFacts ==
    ASSUME SearchInv
    PROVE  /\ Proper(requests) /\ requests \subseteq Requests /\ latest \in 0 .. MaxRequests
           /\ \A r \in Listening : r \in requests /\ r.id = latest /\ r.key = current /\ Ours(r.ask)
           /\ loading \in BOOLEAN /\ (loading <=> Listening # {})
           /\ ResultInv /\ FailureInv
BY DEF SearchInv, RequestsInv, Proper, Listening

\* Nobody listens any more.
LEMMA Silent ==
    ASSUME NEW S, \A x \in S : x.tab # "listening", requests' = S
    PROVE  Listening' = {}
BY DEF Listening

\* Another account: the search page aborts and forgets.
LEMMA ForgottenSearch ==
    ASSUME SearchInv, SearchForgets
    PROVE  SearchInv'
<1>1. /\ requests' = Aborted(requests) /\ loading' = FALSE /\ result' = None /\ failure' = None /\ stale' = FALSE
      /\ latest' = latest
  BY DEF SearchForgets
<1>2. Proper(requests') /\ \A x \in requests' : x.tab # "listening"
  BY <1>1, SearchFacts, AbortedProper
<1>3. Listening' = {}
  BY <1>2, Silent
<1>4. RequestsInv'
  BY <1>1, <1>2, <1>3, SearchFacts DEF RequestsInv
<1>5. ResultInv' /\ FailureInv'
  BY <1>1 DEF ResultInv, FailureInv
<1> QED
  BY <1>1, <1>3, <1>4, <1>5 DEF SearchInv

\* The first status after a start or a reload.
LEMMA FirstStatus ==
    ASSUME SearchInv, current = None, NEW k \in Logins, current' = k, UNCHANGED searchVars
    PROVE  SearchInv'
<1>1. ASSUME NEW r \in Listening PROVE FALSE
  <2>1. r.key = None /\ r.key \in Logins
    BY <1>1, SearchFacts DEF Requests
  <2> QED
    BY <2>1, NullAssumption
<1>2. Listening = {} /\ Listening' = {}
  BY <1>1 DEF Listening, searchVars
<1>3. RequestsInv'
  BY <1>2, SearchFacts DEF RequestsInv, searchVars
<1>4. failure = None /\ (result = None \/ stale)
  BY SearchFacts DEF ResultInv, FailureInv
<1>5. ResultInv'
  BY <1>4, SearchFacts DEF ResultInv, searchVars
<1>6. FailureInv'
  BY <1>4 DEF FailureInv, searchVars
<1>7. loading' \in BOOLEAN /\ (loading' <=> Listening' # {})
  BY <1>2, SearchFacts DEF searchVars
<1> QED
  BY <1>3, <1>5, <1>6, <1>7 DEF SearchInv

\* A new request becomes the latest, and the only one that is listened to.
LEMMA ExecuteKeeps ==
    ASSUME SearchInv, AccountInv, NEW ask, Whole(ask), Ours(ask), Execute(ask)
    PROVE  SearchInv'
<1>1. PICK n \in FreeIds :
          /\ requests' = Aborted(requests) \cup
                {[id |-> n, key |-> current, ask |-> ask, answer |-> None, tab |-> "listening"]}
          /\ latest' = n
  BY DEF Execute
<1>2. /\ current # None /\ loading' = TRUE /\ failure' = None
      /\ current' = current /\ result' = result /\ stale' = stale
  BY DEF Execute, accountVars
<1> DEFINE x == [id |-> n, key |-> current, ask |-> ask, answer |-> None, tab |-> "listening"]
<1>3. x \in Requests /\ x.id = n /\ x.ask = ask /\ x.key = current /\ x.tab = "listening"
  BY <1>2 DEF Requests, FreeIds, AccountInv, Whole
<1> HIDE DEF x
<1>4. /\ Proper(Aborted(requests))
      /\ \A y \in Aborted(requests) : y.tab # "listening" /\ \E r \in requests : r.id = y.id
  BY SearchFacts, AbortedProper
<1>5. \A y \in Aborted(requests) : y.id # n
  BY <1>4 DEF FreeIds
<1>6. requests' = Aborted(requests) \cup {x}
  BY <1>1 DEF x
<1>7. Proper(requests')
  BY <1>3, <1>4, <1>5, <1>6, AddedProper
<1>8. Listening' = {x}
  BY <1>3, <1>4, <1>6 DEF Listening
<1>9. n \in 0 .. MaxRequests
  BY AccountTabAssumption DEF FreeIds
<1>10. Ours(ask)'
  BY <1>2 DEF Ours
<1>11. RequestsInv'
  BY <1>1, <1>2, <1>3, <1>7, <1>8, <1>9, <1>10 DEF RequestsInv, Ours
<1>12. ResultInv' /\ FailureInv'
  BY <1>2, SearchFacts DEF ResultInv, FailureInv
<1> QED
  BY <1>2, <1>8, <1>11, <1>12 DEF SearchInv

\* The searches that the page asks for.
LEMMA AskingKeeps ==
    ASSUME SearchInv, AccountInv, Begin \/ (\E p \in Pages : GoTo(p)) \/ Retry
    PROVE  SearchInv'
<1>1. Whole(Fresh) /\ Ours(Fresh)
  BY AccountTabAssumption DEF Whole, Ours, Fresh, Attempts, Pages
<1>2. CASE Begin
  BY <1>1, <1>2, ExecuteKeeps DEF Begin
<1>3. ASSUME NEW p \in Pages, GoTo(p) PROVE SearchInv'
  <2> DEFINE ask == [result EXCEPT !.page = p]
  <2>1. result # None /\ Execute(ask) /\ current # None
    BY <1>3 DEF GoTo, Execute
  <2>2. result \in Attempts /\ result.of \in Logins /\ (~stale => result.of = current)
    BY <2>1, SearchFacts DEF ResultInv
  <2>3. ask \in Attempts /\ ask.of = result.of
    BY <2>2 DEF Attempts
  <2> HIDE DEF ask
  <2>4. Whole(ask)
    BY <2>2, <2>3, NullAssumption DEF Whole
  <2>5. Ours(ask)
    BY <2>2, <2>3, SearchFacts DEF Ours, ResultInv
  <2> QED
    BY <2>1, <2>4, <2>5, ExecuteKeeps
<1>4. CASE Retry
  <2>1. failure # None /\ Execute(IF failure.changed THEN Fresh ELSE failure.ask)
    BY <1>4 DEF Retry
  <2>2. Whole(failure.ask) /\ (failure.changed \/ Ours(failure.ask))
    BY <2>1, SearchFacts DEF FailureInv
  <2>3. CASE failure.changed
    BY <1>1, <2>1, <2>3, ExecuteKeeps
  <2>4. CASE ~failure.changed
    BY <2>1, <2>2, <2>4, ExecuteKeeps
  <2> QED
    BY <2>3, <2>4
<1> QED
  BY <1>2, <1>3, <1>4

\* The user cancels: the request is aborted and the flag cleared.
LEMMA CancelKeeps ==
    ASSUME SearchInv, Cancel
    PROVE  SearchInv'
<1>1. /\ requests' = Aborted(requests) /\ loading' = FALSE /\ loading
      /\ result' = result /\ failure' = failure /\ stale' = stale /\ latest' = latest /\ current' = current
  BY DEF Cancel, accountVars
<1>2. Proper(requests') /\ \A x \in requests' : x.tab # "listening"
  BY <1>1, SearchFacts, AbortedProper
<1>3. Listening' = {}
  BY <1>2, Silent
<1>4. RequestsInv'
  BY <1>1, <1>2, <1>3, SearchFacts DEF RequestsInv
<1>5. ResultInv'
  BY <1>1, SearchFacts DEF ResultInv
<1>6. FailureInv'
  BY <1>1, SearchFacts DEF FailureInv
<1> QED
  BY <1>1, <1>3, <1>4, <1>5, <1>6 DEF SearchInv

\* A reload leaves the saved result, marked as stale, and no request.
LEMMA ReloadKeeps ==
    ASSUME SearchInv, Reload
    PROVE  SearchInv'
<1> DEFINE T == {[r EXCEPT !.tab = "gone"] : r \in requests}
<1>1. /\ requests' = Remaining(T) /\ loading' = FALSE /\ failure' = None /\ latest' = 0
      /\ result' = result /\ stale' = (result # None) /\ current' = None
  BY DEF Reload
<1>2. Proper(T) /\ \A x \in T : x.tab = "gone"
  BY SearchFacts, GoneProper
<1> HIDE DEF T
<1>3. requests' \subseteq T
  BY <1>1 DEF Remaining
<1>4. Proper(requests')
  BY <1>2, <1>3, SubsetProper
<1>5. Listening' = {}
  BY <1>2, <1>3 DEF Listening
<1>6. RequestsInv'
  BY <1>1, <1>4, <1>5, AccountTabAssumption DEF RequestsInv
<1>7. ResultInv'
  BY <1>1, SearchFacts DEF ResultInv
<1>8. FailureInv'
  BY <1>1 DEF FailureInv
<1> QED
  BY <1>1, <1>5, <1>6, <1>7, <1>8 DEF SearchInv

\* The server's answer changes nothing at the tab.
LEMMA AnsweredKeeps ==
    ASSUME SearchInv, NEW r \in requests, NEW a \in Answers, SearchAnswered(r, a)
    PROVE  SearchInv'
<1> DEFINE x == [r EXCEPT !.answer = a]
           T == (requests \ {r}) \cup {x}
<1>1. /\ requests' = Remaining(T) /\ loading' = loading /\ failure' = failure /\ latest' = latest
      /\ result' = result /\ stale' = stale /\ current' = current
  BY DEF SearchAnswered, accountVars
<1>2. r \in Requests /\ Whole(r.ask)
  BY SearchFacts DEF Proper
<1>3. /\ x \in Requests /\ x.tab = r.tab /\ x.id = r.id /\ x.ask = r.ask /\ x.key = r.key
  BY <1>2, AnswerChanges
<1> HIDE DEF x
<1>4. Proper(T)
  BY <1>2, <1>3, SearchFacts, ReplacedProper
<1>5. requests' \subseteq T
  BY <1>1 DEF Remaining
<1>6. Proper(requests')
  BY <1>4, <1>5, SubsetProper
<1>7. ASSUME NEW y \in Listening' PROVE y.id = latest /\ y.key = current /\ Ours(y.ask)
  <2>1. y \in T /\ y.tab = "listening"
    BY <1>5, <1>7 DEF Listening
  <2>2. CASE y \in requests
    BY <2>1, <2>2, SearchFacts DEF Listening
  <2>3. CASE y = x
    <3>1. r \in Listening
      BY <1>3, <2>1, <2>3 DEF Listening
    <3> QED
      BY <1>3, <2>3, <3>1, SearchFacts
  <2> QED
    BY <2>1, <2>2, <2>3
<1>8. Listening # {} <=> Listening' # {}
  <2>1. ASSUME NEW y \in Listening PROVE Listening' # {}
    <3>1. CASE y = r
      <4>1. x \in T /\ x.tab = "listening"
        BY <1>3, <2>1, <3>1 DEF Listening
      <4> QED
        BY <1>1, <4>1 DEF Listening, Remaining
    <3>2. CASE y # r
      <4>1. y \in T /\ y.tab = "listening"
        BY <2>1, <3>2 DEF Listening
      <4> QED
        BY <1>1, <4>1 DEF Listening, Remaining
    <3> QED
      BY <3>1, <3>2
  <2>2. ASSUME NEW y \in Listening' PROVE Listening # {}
    <3>1. y \in T /\ y.tab = "listening"
      BY <1>5, <2>2 DEF Listening
    <3> QED
      BY <1>3, <3>1 DEF Listening
  <2> QED
    BY <2>1, <2>2
<1>9. RequestsInv'
  BY <1>1, <1>6, <1>7, SearchFacts DEF RequestsInv, Ours
<1>10. ResultInv' /\ FailureInv'
  BY <1>1, SearchFacts DEF ResultInv, FailureInv, Ours
<1> QED
  BY <1>1, <1>8, <1>9, <1>10, SearchFacts DEF SearchInv

\* The request that ends clears the flag exactly if it is the one that is listened to.
LEMMA EndedFacts ==
    ASSUME SearchInv, NEW r \in requests, Ended(r), latest' = latest
    PROVE  /\ Proper(requests')
           /\ \A y \in Listening' : y \in Listening /\ y # r
           /\ loading' \in BOOLEAN /\ (loading' <=> Listening' # {})
           /\ r \in Listening => loading' = FALSE
<1> DEFINE x == [r EXCEPT !.tab = "gone"]
           T == (requests \ {r}) \cup {x}
<1>1. requests' = Remaining(T) /\ loading' = (loading /\ ~(latest = r.id))
  BY DEF Ended, Clears
<1>2. r \in Requests /\ Whole(r.ask)
  BY SearchFacts DEF Proper
<1>3. x \in Requests /\ x.tab = "gone" /\ x.id = r.id /\ x.ask = r.ask
  BY <1>2, TabChanges
<1> HIDE DEF x
<1>4. Proper(T)
  BY <1>2, <1>3, SearchFacts, ReplacedProper
<1>5. requests' \subseteq T
  BY <1>1 DEF Remaining
<1>6. Proper(requests')
  BY <1>4, <1>5, SubsetProper
<1>7. ASSUME NEW y \in Listening' PROVE y \in Listening /\ y # r
  <2>1. y \in T /\ y.tab = "listening"
    BY <1>5, <1>7 DEF Listening
  <2> QED
    BY <1>3, <2>1 DEF Listening
<1>8. ASSUME NEW y \in Listening, y # r PROVE y \in Listening'
  <2>1. y \in T /\ y.tab = "listening"
    BY <1>8 DEF Listening
  <2> QED
    BY <1>1, <2>1 DEF Listening, Remaining
<1>9. CASE r \in Listening
  <2>1. r.id = latest
    BY <1>9, SearchFacts
  <2>2. loading' = FALSE
    BY <1>1, <2>1
  <2>3. ASSUME NEW y \in Listening' PROVE FALSE
    <3>1. y \in requests /\ y.id = r.id /\ y # r
      BY <1>7, <2>1, <2>3, SearchFacts
    <3> QED
      BY <3>1, SearchFacts DEF Proper
  <2> QED
    BY <1>6, <1>7, <2>2, <2>3
<1>10. CASE r \notin Listening
  <2>1. loading => latest # r.id
    <3>1. ASSUME loading, latest = r.id PROVE FALSE
      <4>1. PICK y \in Listening : TRUE
        BY <3>1, SearchFacts
      <4>2. y \in requests /\ y.id = r.id /\ y # r
        BY <1>10, <3>1, <4>1, SearchFacts
      <4> QED
        BY <4>2, SearchFacts DEF Proper
    <3> QED
      BY <3>1
  <2>2. loading' <=> loading
    BY <1>1, <2>1, SearchFacts
  <2>3. Listening # {} <=> Listening' # {}
    BY <1>7, <1>8, <1>10
  <2> QED
    BY <1>1, <1>6, <1>7, <1>10, <2>2, <2>3, SearchFacts
<1> QED
  BY <1>9, <1>10

\* An aborted request that unwinds leaves the flag of the latest one alone.
LEMMA UnwindKeeps ==
    ASSUME SearchInv, NEW r \in requests, Unwind(r)
    PROVE  SearchInv'
<1>1. /\ Ended(r) /\ failure' = failure /\ latest' = latest /\ result' = result /\ stale' = stale
      /\ current' = current /\ r.tab = "aborted"
  BY DEF Unwind, accountVars
<1>2. /\ Proper(requests')
      /\ \A y \in Listening' : y \in Listening
      /\ loading' \in BOOLEAN /\ (loading' <=> Listening' # {})
  BY <1>1, EndedFacts
<1>3. RequestsInv'
  BY <1>1, <1>2, SearchFacts DEF RequestsInv, Ours
<1>4. ResultInv'
  BY <1>1, SearchFacts DEF ResultInv
<1>5. loading' => loading
  BY <1>1 DEF Ended
<1>6. FailureInv'
  BY <1>1, <1>5, SearchFacts DEF FailureInv, Ours
<1> QED
  BY <1>2, <1>3, <1>4, <1>6 DEF SearchInv

\* A result is shown that is of the account the tab knows.
LEMMA ShowResultKeeps ==
    ASSUME SearchInv, NEW r \in requests, ShowResult(r)
    PROVE  SearchInv'
<1>1. /\ Ended(r) /\ failure' = failure /\ latest' = latest /\ stale' = FALSE
      /\ result' = [page |-> r.ask.page, of |-> r.key]
      /\ current' = current /\ r.key = current /\ r \in Listening
  BY DEF ShowResult, accountVars, Listening
<1>2. /\ Proper(requests')
      /\ \A y \in Listening' : y \in Listening
      /\ loading' = FALSE /\ (loading' <=> Listening' # {})
  BY <1>1, EndedFacts
<1>3. Listening' = {}
  BY <1>2
<1>4. RequestsInv'
  BY <1>1, <1>2, <1>3, SearchFacts DEF RequestsInv
<1>5. r.ask \in Attempts /\ r.key \in Logins
  BY SearchFacts DEF Requests
<1>6. ResultInv'
  <2>1. result' \in Attempts /\ result'.of = current /\ current \in Logins
    BY <1>1, <1>5 DEF Attempts
  <2> QED
    BY <1>1, <2>1, NullAssumption DEF ResultInv
<1>7. failure = None
  BY <1>1, SearchFacts DEF FailureInv
<1>8. FailureInv'
  BY <1>1, <1>7 DEF FailureInv
<1> QED
  BY <1>2, <1>4, <1>6, <1>8 DEF SearchInv

\* A failure is shown with what its retry asks for, which is of the tab's account.
LEMMA ShowFailureKeeps ==
    ASSUME SearchInv, NEW r \in requests, ShowFailure(r)
    PROVE  SearchInv'
<1>1. /\ Ended(r) /\ latest' = latest /\ current' = current /\ r \in Listening
      /\ failure' = [ask |-> FailedAttempt(r), changed |-> r.answer = "changed"]
      /\ IF r.answer = "changed" THEN result' = None /\ stale' = FALSE ELSE result' = result /\ stale' = stale
  BY DEF ShowFailure, Listening
<1>2. /\ Proper(requests')
      /\ \A y \in Listening' : y \in Listening
      /\ loading' = FALSE /\ (loading' <=> Listening' # {})
  BY <1>1, EndedFacts
<1>3. Listening' = {}
  BY <1>2
<1>4. RequestsInv'
  BY <1>1, <1>2, <1>3, SearchFacts DEF RequestsInv
<1>5. ResultInv'
  BY <1>1, SearchFacts DEF ResultInv
<1>6. r.ask \in Attempts /\ Whole(r.ask) /\ r.key \in Logins /\ r.key = current /\ Ours(r.ask)
  BY <1>1, SearchFacts DEF Requests, Proper
<1>7. current # None
  BY <1>6, NullAssumption
<1>8. Whole(FailedAttempt(r))
  <2>1. CASE r.answer = "failed"
    <3>1. [r.ask EXCEPT !.of = r.key] \in Attempts /\ [r.ask EXCEPT !.of = r.key].of = r.key
      BY <1>6 DEF Attempts
    <3> QED
      BY <1>6, <1>7, <2>1, <3>1 DEF Whole, FailedAttempt
  <2>2. CASE r.answer # "failed"
    BY <1>6, <2>2 DEF FailedAttempt
  <2> QED
    BY <2>1, <2>2
<1>9. Ours(FailedAttempt(r))
  <2>1. CASE r.answer = "failed"
    <3>1. [r.ask EXCEPT !.of = r.key].of = r.key
      BY <1>6 DEF Attempts
    <3> QED
      BY <1>6, <2>1, <3>1 DEF Ours, FailedAttempt
  <2>2. CASE r.answer # "failed"
    BY <1>6, <2>2 DEF FailedAttempt
  <2> QED
    BY <2>1, <2>2
<1>10. FailureInv'
  <2> DEFINE ask == FailedAttempt(r)
             changed == (r.answer = "changed")
  <2>1. failure'.ask = ask /\ failure'.changed = changed /\ changed \in BOOLEAN
    BY <1>1
  <2>2. changed \/ stale' = stale
    BY <1>1
  <2>3. Whole(ask) /\ Ours(ask)
    BY <1>8, <1>9
  <2> HIDE DEF ask, changed
  <2>4. Whole(failure'.ask) /\ failure'.changed \in BOOLEAN
    BY <2>1, <2>3
  <2>5. failure'.changed \/ (failure'.ask.of \notin {None, current} => stale')
    BY <2>1, <2>2, <2>3 DEF Ours
  <2> QED
    BY <1>1, <1>2, <1>7, <2>4, <2>5 DEF FailureInv, Ours, Whole
<1> QED
  BY <1>2, <1>4, <1>5, <1>10 DEF SearchInv

-----------------------------------------------------------------------------
(* The favourite mark of the player                                        *)

\* No login, write or edit is None.
LEMMA NoneIsApart ==
    /\ \A k \in Logins : k # None
    /\ \A w \in Writes : w # None
    /\ \A e \in UnderWay : e # None
BY NullAssumption

\* A write is sent for the account the tab knows.
LEMMA ToggleFavoriteKeeps ==
    ASSUME DockInv, AccountInv, NEW value \in BOOLEAN, ToggleFavorite(value)
    PROVE  DockInv'
<1>1. /\ user = "dock" /\ current # None /\ write = None /\ user' = user /\ current' = current
      /\ write' = [key |-> current, value |-> value, identity |-> None, stage |-> "sent"]
      /\ library' = library /\ dock' = dock /\ details' = details /\ doubt' = doubt
  BY DEF ToggleFavorite, accountVars
<1>2. write' \in Writes /\ write'.stage = "sent"
  BY <1>1 DEF Writes, AccountInv
<1>3. Steady' <=> Steady
  BY <1>1, <1>2 DEF Steady
<1>4. DockTyped' /\ WriteInv'
  BY <1>1, <1>2 DEF DockInv, DockTyped, WriteInv
<1>5. MarkInv' /\ DetailsInv'
  BY <1>1, <1>3 DEF DockInv, MarkInv, DetailsInv
<1> QED
  BY <1>4, <1>5 DEF DockInv

\* The account that was read for the write is the sender's, or the write is refused.
LEMMA WriteCheckedKeeps ==
    ASSUME DockInv, AccountInv, WriteChecked
    PROVE  DockInv'
<1>1. /\ write # None /\ write.stage = "sent" /\ user' = user /\ current' = current
      /\ library' = library /\ dock' = dock /\ details' = details /\ doubt' = doubt
      /\ \/ write.key = login /\ write' = [write EXCEPT !.identity = login, !.stage = "checked"]
         \/ write' = None
  BY DEF WriteChecked, ContextHolds
<1>2. user = "dock" /\ write \in Writes
  BY <1>1 DEF DockInv, DockTyped
<1>3. CASE write' = None
  <2>1. Steady' <=> Steady
    BY <1>1, <1>3 DEF Steady
  <2>2. DockTyped' /\ WriteInv'
    BY <1>1, <1>2, <1>3 DEF DockInv, DockTyped, WriteInv
  <2>3. MarkInv' /\ DetailsInv'
    BY <1>1, <2>1 DEF DockInv, MarkInv, DetailsInv
  <2> QED
    BY <2>2, <2>3 DEF DockInv
<1>4. CASE write.key = login /\ write' = [write EXCEPT !.identity = login, !.stage = "checked"]
  <2>1. write' \in Writes /\ write'.stage = "checked" /\ write'.identity = login /\ write'.key = login
    BY <1>2, <1>4 DEF Writes, AccountInv
  <2>2. Steady' <=> Steady
    BY <1>1, <2>1 DEF Steady
  <2>3. DockTyped' /\ WriteInv'
    BY <1>1, <1>2, <2>1 DEF DockInv, DockTyped, WriteInv
  <2>4. MarkInv' /\ DetailsInv'
    BY <1>1, <2>2 DEF DockInv, MarkInv, DetailsInv
  <2> QED
    BY <2>3, <2>4 DEF DockInv
<1> QED
  BY <1>1, <1>3, <1>4

\* The write that is done: of the account that sent it, whoever is logged in by now.
LEMMA WriteDoneFacts ==
    ASSUME DockInv, WriteDone
    PROVE  /\ write \in Writes /\ write.key.owner \in Owners
           /\ library' = [library EXCEPT ![write.key.owner] = write.value]
           /\ write' \in Writes /\ write'.stage = "answered" /\ write'.key = write.key
           /\ write'.value = write.value /\ write'.identity = write.key
<1>1. /\ write # None /\ write.stage = "checked"
      /\ library' = [library EXCEPT ![write.identity.owner] = write.value]
      /\ write' = [write EXCEPT !.stage = "answered"]
  BY DEF WriteDone, OwnerOf
<1>2. write \in Writes /\ write.identity = write.key
  BY <1>1 DEF DockInv, DockTyped, WriteInv
<1>3. write.key \in Logins
  BY <1>2 DEF Writes
<1>4. write.key.owner \in Owners
  BY <1>3, LoginsOwn
<1>5. /\ write' \in Writes /\ write'.stage = "answered" /\ write'.key = write.key
      /\ write'.value = write.value /\ write'.identity = write.key
  BY <1>1, <1>2 DEF Writes
<1> QED
  BY <1>1, <1>2, <1>4, <1>5

\* After the write the mark may differ from the library, until the answer arrives.
LEMMA WriteDoneKeeps ==
    ASSUME DockInv, WriteDone
    PROVE  DockInv'
<1>1. /\ write # None /\ user' = user /\ current' = current
      /\ dock' = dock /\ details' = details /\ doubt' = doubt
  BY DEF WriteDone, accountVars
<1>2. /\ write \in Writes /\ write.key.owner \in Owners
      /\ library' = [library EXCEPT ![write.key.owner] = write.value]
      /\ write' \in Writes /\ write'.stage = "answered" /\ write'.key = write.key
      /\ write'.value = write.value /\ write'.identity = write.key
  BY WriteDoneFacts
<1>3. write.value \in BOOLEAN /\ write' # None
  BY <1>2, NoneIsApart DEF Writes
<1>4. library' \in [Owners -> BOOLEAN] /\ library'[write.key.owner] = write.value
  BY <1>2, <1>3 DEF DockInv, DockTyped
<1>5. DockTyped'
  BY <1>1, <1>2, <1>4 DEF DockInv, DockTyped
<1>6. WriteInv'
  BY <1>2, <1>4 DEF WriteInv
<1>7. ~Steady'
  BY <1>2, <1>3 DEF Steady
<1>8. MarkInv' /\ DetailsInv'
  BY <1>1, <1>7 DEF DockInv, MarkInv, DetailsInv
<1> QED
  BY <1>5, <1>6, <1>8 DEF DockInv

\* The mark takes the written value over, and older details no longer count.
LEMMA WriteReceivedKeeps ==
    ASSUME DockInv, AccountInv, WriteReceived
    PROVE  DockInv'
<1>1. /\ write # None /\ write.stage = "answered" /\ write' = None
      /\ user' = user /\ current' = current /\ library' = library
  BY DEF WriteReceived, accountVars
<1>2. user = "dock" /\ write \in Writes /\ library[write.key.owner] = write.value
  BY <1>1 DEF DockInv, DockTyped, WriteInv
<1>3. WriteInv'
  BY <1>1 DEF WriteInv
<1>4. CASE write.key = current
  <2>1. /\ dock' = [owner |-> current.owner, value |-> write.value] /\ doubt' = doubt
        /\ details' = IF details = None THEN None ELSE [details EXCEPT !.before = TRUE]
    BY <1>4 DEF WriteReceived
  <2>2. details' = None \/ (details' \in Details /\ details'.before)
    BY <2>1 DEF DockInv, DockTyped, Details
  <2>3. DockTyped'
    BY <1>1, <1>2, <2>1, <2>2 DEF DockInv, DockTyped
  <2>4. current # None
    BY <1>2, <1>4, NoneIsApart DEF Writes
  <2>5. MarkInv'
    BY <1>1, <1>2, <1>4, <2>1, <2>4 DEF MarkInv
  <2>6. DetailsInv'
    BY <2>2 DEF DetailsInv
  <2> QED
    BY <1>3, <2>3, <2>5, <2>6 DEF DockInv
<1>5. CASE write.key # current
  <2>1. dock' = dock /\ details' = details /\ doubt' = TRUE
    BY <1>5 DEF WriteReceived
  <2>2. ~Steady'
    BY <2>1 DEF Steady
  <2>3. DockTyped'
    BY <1>1, <1>2, <2>1 DEF DockInv, DockTyped
  <2>4. MarkInv' /\ DetailsInv'
    BY <1>1, <2>1, <2>2 DEF DockInv, MarkInv, DetailsInv
  <2> QED
    BY <1>3, <2>3, <2>4 DEF DockInv
<1> QED
  BY <1>4, <1>5

\* Whether a lost write was done is in doubt.
LEMMA WriteLostKeeps ==
    ASSUME DockInv, WriteLost
    PROVE  DockInv'
<1>1. /\ write # None /\ write' = None /\ doubt' = TRUE /\ user' = user /\ current' = current
      /\ library' = library /\ dock' = dock /\ details' = details
  BY DEF WriteLost, accountVars
<1>2. ~Steady'
  BY <1>1 DEF Steady
<1>3. DockTyped' /\ WriteInv'
  BY <1>1 DEF DockInv, DockTyped, WriteInv
<1>4. MarkInv' /\ DetailsInv'
  BY <1>1, <1>2 DEF DockInv, MarkInv, DetailsInv
<1> QED
  BY <1>3, <1>4 DEF DockInv

\* The player's reading of the details leaves the library and the write alone.
LEMMA DetailsStay ==
    ASSUME DockInv, UNCHANGED <<user, current, library, write, doubt>>
    PROVE  WriteInv' /\ (Steady' <=> Steady)
BY DEF DockInv, WriteInv, Steady

\* The details are asked for, with no answer yet.
LEMMA AskDetailsKeeps ==
    ASSUME DockInv, AccountInv, AskDetails
    PROVE  DockInv'
<1>1. /\ user = "dock" /\ current # None
      /\ details' = [key |-> current, answer |-> None, before |-> FALSE]
      /\ UNCHANGED <<user, current, library, write, dock, doubt>>
  BY DEF AskDetails, accountVars
<1>2. details' \in Details /\ details'.answer = None
  BY <1>1 DEF Details, AccountInv
<1>3. DockTyped' /\ DetailsInv'
  BY <1>1, <1>2 DEF DockInv, DockTyped, DetailsInv
<1>4. MarkInv'
  BY <1>1, DetailsStay DEF DockInv, MarkInv
<1> QED
  BY <1>1, <1>3, <1>4, DetailsStay DEF DockInv

\* The answer tells what the library of the sender has, or the request is refused.
LEMMA DetailsAnsweredKeeps ==
    ASSUME DockInv, AccountInv, DetailsAnswered
    PROVE  DockInv'
<1>1. /\ details # None /\ UNCHANGED <<user, current, library, write, dock, doubt>>
      /\ \/ details.key = login /\ details' = [details EXCEPT !.answer = [value |-> library[login.owner]]]
         \/ details' = None
  BY DEF DetailsAnswered, ContextHolds
<1>2. user = "dock" /\ details \in Details
  BY <1>1 DEF DockInv, DockTyped
<1>3. MarkInv'
  BY <1>1, DetailsStay DEF DockInv, MarkInv
<1>4. CASE details' = None
  <2>1. DockTyped' /\ DetailsInv'
    BY <1>1, <1>2, <1>4 DEF DockInv, DockTyped, DetailsInv
  <2> QED
    BY <1>1, <1>3, <2>1, DetailsStay DEF DockInv
<1>5. CASE details.key = login /\ details' = [details EXCEPT !.answer = [value |-> library[login.owner]]]
  <2>1. login.owner \in Owners
    BY LoginsOwn DEF AccountInv
  <2>2. library[login.owner] \in BOOLEAN
    BY <2>1 DEF DockInv, DockTyped
  <2>3. details' \in Details /\ details'.key = login /\ details'.answer.value = library[login.owner]
    BY <1>2, <1>5, <2>2 DEF Details
  <2>4. DockTyped' /\ DetailsInv'
    BY <1>1, <1>2, <2>3 DEF DockInv, DockTyped, DetailsInv
  <2> QED
    BY <1>1, <1>3, <2>4, DetailsStay DEF DockInv
<1> QED
  BY <1>1, <1>4, <1>5

\* Details that still count are what the library has.
LEMMA DetailsReceivedKeeps ==
    ASSUME DockInv, AccountInv, DetailsReceived
    PROVE  DockInv'
<1>1. /\ details # None /\ details.answer # None /\ details' = None
      /\ UNCHANGED <<user, current, library, write, doubt>>
      /\ dock' = IF details.key = current /\ ~details.before
                 THEN [owner |-> current.owner, value |-> details.answer.value] ELSE dock
  BY DEF DetailsReceived, accountVars, Counts
<1>2. user = "dock" /\ details \in Details
  BY <1>1 DEF DockInv, DockTyped
<1>3. DockTyped' /\ DetailsInv'
  BY <1>1, <1>2 DEF DockInv, DockTyped, DetailsInv
<1>4. MarkInv'
  <2>1. CASE details.key = current /\ ~details.before
    <3>1. current # None
      BY <1>2, <2>1, NoneIsApart DEF Details
    <3>2. Steady => details.answer.value = library[current.owner]
      BY <1>1, <2>1 DEF DockInv, DetailsInv
    <3> QED
      BY <1>1, <2>1, <3>1, <3>2, DetailsStay DEF MarkInv
  <2>2. CASE ~(details.key = current /\ ~details.before)
    BY <1>1, <2>2, DetailsStay DEF DockInv, MarkInv
  <2> QED
    BY <2>1, <2>2
<1> QED
  BY <1>1, <1>3, <1>4, DetailsStay DEF DockInv

-----------------------------------------------------------------------------
(* The page of a playlist                                                  *)

\* Orders are sequences of entries without repetition, no longer than there are entries.
LEMMA OrdersAreDistinct ==
    ASSUME NEW s
    PROVE  s \in Orders <=> Distinct(s, Entries) /\ Len(s) <= Cardinality(Entries)
<1>0. Cardinality(Entries) \in Nat
  BY AccountTabAssumption, FS_CardinalityType
<1> DEFINE n == Cardinality(Entries)
<1> HIDE DEF n
<1>1. ASSUME NEW m \in 0 .. n, s \in [1 .. m -> Entries] PROVE s \in Seq(Entries) /\ Len(s) <= n
  <2>1. s \in Seq(Entries) /\ Len(s) = m
    BY <1>0, <1>1, LenProperties, IsASeq DEF n
  <2> QED
    BY <1>0, <1>1, <2>1 DEF n
<1>2. ASSUME s \in Seq(Entries), Len(s) <= n PROVE \E m \in 0 .. n : s \in [1 .. m -> Entries]
  <2>1. Len(s) \in Nat /\ s \in [1 .. Len(s) -> Entries]
    BY <1>2, LenProperties, ElementOfSeq
  <2>2. Len(s) \in 0 .. n
    BY <1>0, <1>2, <2>1 DEF n
  <2> QED
    BY <2>1, <2>2
<1>3. s \in SeqOf(Entries, n) <=> \E m \in 0 .. n : s \in [1 .. m -> Entries]
  BY DEF SeqOf
<1>4. s \in SeqOf(Entries, n) <=> s \in Seq(Entries) /\ Len(s) <= n
  BY <1>1, <1>2, <1>3
<1>5. s \in Orders <=> s \in SeqOf(Entries, n) /\ IsInjective(s)
  BY DEF Orders, n
<1> QED
  BY <1>4, <1>5 DEF Distinct, n

\* Two neighbours change places.
LEMMA Swapped ==
    ASSUME NEW s \in Orders, NEW k \in 1 .. Len(s) - 1
    PROVE  [s EXCEPT ![k] = s[k + 1], ![k + 1] = s[k]] \in Orders
<1> DEFINE r == [s EXCEPT ![k] = s[k + 1], ![k + 1] = s[k]]
<1>1. PICK m \in 0 .. Cardinality(Entries) : s \in [1 .. m -> Entries]
  BY DEF Orders, SeqOf
<1>2. m \in Nat /\ IsInjective(s) /\ DOMAIN s = 1 .. m
  BY <1>1, AccountTabAssumption, FS_CardinalityType DEF Orders
<1>3. Len(s) = m
  BY <1>1, <1>2, LenProperties, IsASeq
<1>4. k \in 1 .. m /\ k + 1 \in 1 .. m /\ k + 1 # k
  BY <1>2, <1>3
<1>5. r \in [1 .. m -> Entries] /\ \A i \in 1 .. m : r[i] = IF i = k + 1 THEN s[k] ELSE IF i = k THEN s[k + 1] ELSE s[i]
  BY <1>1, <1>4
<1> HIDE DEF r
<1>6. \A i, j \in 1 .. m : s[i] = s[j] => i = j
  BY <1>2 DEF IsInjective
<1>7. ASSUME NEW i \in 1 .. m, NEW j \in 1 .. m, r[i] = r[j] PROVE i = j
  BY <1>4, <1>5, <1>6, <1>7
<1>8. IsInjective(r)
  BY <1>5, <1>7 DEF IsInjective
<1> QED
  BY <1>1, <1>5, <1>8 DEF Orders, SeqOf, r

\* What an edit asks for is of the entries the page shows.
LEMMA EditsAreAsks ==
    ASSUME page \in Orders, NEW e \in Edits
    PROVE  e \in Asks
<1>1. ASSUME NEW k \in 1 .. Len(page) - 1,
             e = [kind |-> "move", order |-> [page EXCEPT ![k] = page[k + 1], ![k + 1] = page[k]]]
      PROVE  e \in Asks
  BY <1>1, Swapped DEF Asks
<1>2. ASSUME NEW k \in 1 .. Len(page), e = [kind |-> "remove", entry |-> page[k]] PROVE e \in Asks
  <2>1. page[k] \in Entries
    BY OrdersAreDistinct, DistinctFacts
  <2> QED
    BY <1>2, <2>1 DEF Asks
<1>3. CASE e \in {[kind |-> "keep"], [kind |-> "destroy"]}
  BY <1>3 DEF Asks
<1> QED
  BY <1>1, <1>2, <1>3 DEF Edits

\* A move names an order, a removal an entry.
LEMMA AskFacts ==
    ASSUME NEW a \in Asks
    PROVE  /\ a.kind = "move" => a.order \in Orders
           /\ a.kind = "remove" => a.entry \in Entries
BY DEF Asks

\* An edit is sent for what the page shows.
LEMMA MutateKeeps ==
    ASSUME ListInv, AccountInv, NEW e \in Edits, Mutate(e)
    PROVE  ListInv'
<1>1. /\ current # None /\ page # None /\ edit = None
      /\ edit' = [key |-> current, ask |-> e, stage |-> "sent", order |-> None]
      /\ playlist' = playlist /\ page' = page /\ behind' = behind
  BY DEF Mutate
<1>2. e \in Asks
  BY <1>1, EditsAreAsks DEF ListInv
<1>3. edit' \in UnderWay /\ edit'.stage = "sent"
  BY <1>1, <1>2 DEF UnderWay, AccountInv
<1> QED
  BY <1>1, <1>3 DEF ListInv

\* The playlist that an edit leaves.
LEMMA EditedTyped ==
    ASSUME NEW a \in Asks, playlist \in [owner : Owners, order : Orders],
           a.kind = "remove" => a.entry \in ToSet(playlist.order)
    PROVE  /\ Edited(a) \in [owner : Owners, order : Orders] \cup {None}
           /\ Edited(a) = None \/ Edited(a).owner = playlist.owner
<1>1. playlist.order \in Orders
  OBVIOUS
<1>2. CASE a.kind = "move"
  BY <1>2, AskFacts DEF Edited
<1>3. CASE a.kind = "remove"
  <2>1. Distinct(playlist.order, Entries) /\ Len(playlist.order) <= Cardinality(Entries)
    BY <1>1, OrdersAreDistinct
  <2> DEFINE s == RemoveFirst(playlist.order, a.entry)
             n == Len(playlist.order)
             c == Cardinality(Entries)
  <2>2. Distinct(s, Entries) /\ Len(s) = n - 1
    BY <1>3, <2>1, TakenOutFirst
  <2>3. n \in Nat /\ c \in Nat /\ n <= c
    BY <2>1, DistinctFacts, AccountTabAssumption, FS_CardinalityType
  <2>4. Edited(a) = [playlist EXCEPT !.order = s]
    BY <1>3 DEF Edited
  <2> HIDE DEF s, n, c
  <2>5. Len(s) <= c
    BY <2>2, <2>3
  <2>6. s \in Orders
    BY <2>2, <2>5, OrdersAreDistinct DEF c
  <2> QED
    BY <2>4, <2>6
<1>4. CASE a.kind = "destroy"
  BY <1>4 DEF Edited
<1>5. CASE a.kind \notin {"move", "remove", "destroy"}
  BY <1>5 DEF Edited
<1> QED
  BY <1>2, <1>3, <1>4, <1>5

\* The server edits the playlist, or refuses and leaves it.
LEMMA MutationAnsweredKeeps ==
    ASSUME ListInv, MutationAnswered
    PROVE  ListInv'
<1>1. edit # None /\ edit.stage = "sent" /\ page' = page /\ behind' = behind
  BY DEF MutationAnswered
<1>2. edit \in UnderWay
  BY <1>1 DEF ListInv
<1>3. CASE Finds(edit)
  <2>1. playlist' = Edited(edit.ask) /\ edit' = [edit EXCEPT !.stage = "done"]
    BY <1>3 DEF MutationAnswered
  <2>2. playlist # None /\ (edit.ask.kind = "remove" => edit.ask.entry \in ToSet(playlist.order))
    BY <1>3 DEF Finds
  <2>3. playlist \in [owner : Owners, order : Orders] /\ edit.ask \in Asks
    BY <1>2, <2>2 DEF ListInv, UnderWay
  <2>4. playlist' \in [owner : Owners, order : Orders] \cup {None}
    BY <2>1, <2>2, <2>3, EditedTyped
  <2>5. edit' \in UnderWay /\ edit'.stage = "done"
    BY <1>2, <2>1 DEF UnderWay
  <2>6. edit' # None
    BY <2>5, NoneIsApart
  <2> QED
    BY <1>1, <2>4, <2>5, <2>6 DEF ListInv
<1>4. CASE ~Finds(edit)
  <2>1. edit' = None /\ playlist' = playlist
    BY <1>4 DEF MutationAnswered
  <2> QED
    BY <1>1, <2>1 DEF ListInv
<1> QED
  BY <1>3, <1>4

\* The answer to an edit starts the refresh, unless the playlist is gone or the account another.
LEMMA MutationReceivedKeeps ==
    ASSUME ListInv, MutationReceived
    PROVE  ListInv'
<1>1. /\ edit # None /\ edit.stage = "done" /\ playlist' = playlist
      /\ behind' = (behind \/ edit.key # current)
  BY DEF MutationReceived
<1>2. edit \in UnderWay /\ behind' \in BOOLEAN
  BY <1>1 DEF ListInv
<1>3. CASE page' = None /\ edit' = None
  BY <1>1, <1>2, <1>3 DEF ListInv
<1>4. CASE page' = page /\ edit.key = current /\ edit' = [edit EXCEPT !.stage = "reading"]
  <2>1. edit' \in UnderWay /\ edit'.stage = "reading"
    BY <1>2, <1>4 DEF UnderWay
  <2>2. edit' # None
    BY <2>1, NoneIsApart
  <2> QED
    BY <1>1, <1>2, <1>4, <2>1, <2>2 DEF ListInv
<1>5. CASE page' = page /\ edit.key # current /\ edit' = None
  BY <1>1, <1>2, <1>5 DEF ListInv
<1> QED
  BY <1>3, <1>4, <1>5 DEF MutationReceived

\* The refresh reads the order the server has.
LEMMA RefreshAnsweredKeeps ==
    ASSUME ListInv, RefreshAnswered
    PROVE  ListInv'
<1>1. edit # None /\ edit.stage = "reading" /\ page' = page /\ playlist' = playlist
  BY DEF RefreshAnswered
<1>2. edit \in UnderWay
  BY <1>1 DEF ListInv
<1>3. CASE ContextHolds(edit.key) /\ playlist # None
  <2>1. edit' = [edit EXCEPT !.stage = "read", !.order = playlist.order] /\ behind' = FALSE
    BY <1>3 DEF RefreshAnswered
  <2>2. playlist.order \in Orders
    BY <1>3 DEF ListInv
  <2>3. edit' \in UnderWay /\ edit'.stage = "read" /\ edit'.order = playlist.order
    BY <1>2, <2>1, <2>2 DEF UnderWay
  <2>4. edit' # None
    BY <2>3, NoneIsApart
  <2> QED
    BY <1>1, <1>3, <2>1, <2>2, <2>3, <2>4 DEF ListInv
<1>4. CASE ~(ContextHolds(edit.key) /\ playlist # None)
  <2>1. edit' = None /\ behind' = TRUE
    BY <1>4 DEF RefreshAnswered
  <2> QED
    BY <1>1, <2>1 DEF ListInv
<1> QED
  BY <1>3, <1>4

\* The page takes over the order that was read.
LEMMA RefreshReceivedKeeps ==
    ASSUME ListInv, RefreshReceived
    PROVE  ListInv'
<1>1. /\ edit # None /\ edit.stage = "read" /\ edit' = None /\ playlist' = playlist
      /\ behind' = (behind \/ edit.key # current)
      /\ page' = IF edit.key = current /\ page # None THEN edit.order ELSE page
  BY DEF RefreshReceived
<1>2. edit.order \in Orders /\ (~behind => playlist # None /\ edit.order = playlist.order)
  BY <1>1 DEF ListInv
<1>3. page' \in Orders \cup {None} /\ behind' \in BOOLEAN
  BY <1>1, <1>2 DEF ListInv
<1>4. ASSUME page' # None, ~behind' PROVE playlist' # None /\ page' = playlist'.order
  <2>1. edit.key = current /\ ~behind /\ page # None
    BY <1>1, <1>4
  <2> QED
    BY <1>1, <1>2, <2>1
<1> QED
  BY <1>1, <1>3, <1>4 DEF ListInv

\* After a lost answer the page may be behind.
LEMMA MutationLostKeeps ==
    ASSUME ListInv, MutationLost
    PROVE  ListInv'
BY DEF ListInv, MutationLost

\* After an edit of another device the page may be behind.
LEMMA EditedElsewhereKeeps ==
    ASSUME ListInv, NEW order \in Orders, EditedElsewhere(order)
    PROVE  ListInv'
<1>1. /\ playlist # None /\ playlist' = [playlist EXCEPT !.order = order] /\ behind' = TRUE
      /\ page' = page /\ edit' = edit
  BY DEF EditedElsewhere
<1>2. playlist' \in [owner : Owners, order : Orders]
  BY <1>1 DEF ListInv
<1> QED
  BY <1>1, <1>2 DEF ListInv

\* The page is rendered anew: it shows the order the server has by now.
LEMMA ListRerendersKeeps ==
    ASSUME ListInv, ListRerenders
    PROVE  ListInv'
<1>1. /\ page' = IF playlist # None /\ playlist.owner = login.owner THEN playlist.order ELSE None
      /\ behind' = (edit # None) /\ playlist' = playlist /\ edit' = edit
  BY DEF ListRerenders
<1>2. page' \in Orders \cup {None} /\ (page' # None => playlist # None /\ page' = playlist.order)
  BY <1>1 DEF ListInv
<1> QED
  BY <1>1, <1>2 DEF ListInv

-----------------------------------------------------------------------------
(* A status that is published                                              *)

\* A published account makes the search page forget another one's search.
LEMMA PublishKeepsSearch ==
    ASSUME SearchInv, AccountInv, NEW k \in Logins, PublishClientAccount(k)
    PROVE  SearchInv'
<1>1. current' = k
  BY DEF PublishClientAccount
<1>2. CASE current = None
  <2>1. UNCHANGED searchVars
    BY <1>2 DEF PublishClientAccount
  <2> QED
    BY <1>1, <1>2, <2>1, FirstStatus
<1>3. CASE current # None /\ current = k
  <2>1. UNCHANGED <<searchVars, current>>
    BY <1>1, <1>3 DEF PublishClientAccount
  <2> QED
    BY <2>1, SearchStays
<1>4. CASE current \notin {None, k}
  <2>1. SearchForgets
    BY <1>4 DEF PublishClientAccount
  <2> QED
    BY <2>1, ForgottenSearch
<1> QED
  BY <1>2, <1>3, <1>4

\* A published account of another owner makes the player start anew.
LEMMA PublishKeepsDock ==
    ASSUME DockInv, NEW k \in Logins, PublishClientAccount(k), user' = user
    PROVE  DockInv'
<1>1. current' = k /\ k # None
  BY NoneIsApart DEF PublishClientAccount
<1>2. CASE current = None \/ current.owner # k.owner
  <2>1. dock' = None /\ details' = None /\ doubt' = FALSE /\ library' = library /\ write' = write
    BY <1>2 DEF PublishClientAccount, DockRestores
  <2>2. DockTyped' /\ WriteInv'
    BY <2>1 DEF DockInv, DockTyped, WriteInv
  <2>3. MarkInv' /\ DetailsInv'
    BY <2>1 DEF MarkInv, DetailsInv
  <2> QED
    BY <2>2, <2>3 DEF DockInv
<1>3. CASE current # None /\ current.owner = k.owner
  <2>1. dock' = dock /\ details' = details /\ doubt' = doubt /\ library' = library /\ write' = write
    BY <1>3 DEF PublishClientAccount, dockVars
  <2>2. Steady' <=> Steady
    BY <2>1 DEF Steady
  <2>3. DockTyped' /\ WriteInv'
    BY <2>1 DEF DockInv, DockTyped, WriteInv
  <2>4. MarkInv' /\ DetailsInv'
    BY <1>1, <1>3, <2>1, <2>2 DEF DockInv, MarkInv, DetailsInv
  <2> QED
    BY <2>3, <2>4 DEF DockInv
<1> QED
  BY <1>2, <1>3

\* A published account has the page of the playlist rendered anew.
LEMMA PublishKeepsList ==
    ASSUME ListInv, NEW k \in Logins, PublishClientAccount(k)
    PROVE  ListInv'
<1>1. CASE current \notin {None, k}
  <2>1. ListRerenders
    BY <1>1 DEF PublishClientAccount
  <2> QED
    BY <2>1, ListRerendersKeeps
<1>2. CASE current \in {None, k}
  <2>1. UNCHANGED listVars
    BY <1>2 DEF PublishClientAccount
  <2> QED
    BY <2>1, ListStays
<1> QED
  BY <1>1, <1>2

\* A published account is the tab's from then on, and no part shows another's.
LEMMA PublishKeeps ==
    ASSUME IInv, NEW k \in Logins, PublishClientAccount(k), user' = user
    PROVE  SearchInv' /\ DockInv' /\ ListInv' /\ current' = k /\ masked' = FALSE
BY PublishKeepsSearch, PublishKeepsDock, PublishKeepsList DEF IInv, PublishClientAccount

-----------------------------------------------------------------------------
(* The steps of the account, and of the kernel                             *)

\* Steps of the account that the parts of the tab do not notice.
LEMMA PartsStay ==
    ASSUME IInv, UNCHANGED <<user, current, panelVars, searchVars, dockVars, listVars>>
    PROVE  user' \in Users /\ PanelInv' /\ SearchInv' /\ DockInv' /\ ListInv'
<1>1. user' \in Users /\ user' = user /\ current' = current
  BY DEF IInv
<1>2. PanelInv'
  <2>1. UNCHANGED <<own, shown, qr, masked, current>> /\ PanelInv
    BY DEF IInv, panelVars
  <2> QED
    BY <2>1, PanelStays
<1>3. SearchInv'
  BY SearchStays DEF IInv
<1>4. DockInv'
  BY DockStays DEF IInv
<1>5. ListInv'
  BY ListStays DEF IInv
<1> QED
  BY <1>1, <1>2, <1>3, <1>4, <1>5

\* The shared status request comes back, maybe with a login that is over.
LEMMA PollReceivedKeeps ==
    ASSUME IInv, PollReceived
    PROVE  IInv'
<1>1. /\ poll.state = "answered" /\ PublishClientAccount(poll.of) /\ poll' = Idle
      /\ UNCHANGED <<user, login, changes, own>>
  BY DEF PollReceived
<1>2. poll.of \in Logins
  BY <1>1 DEF IInv, AccountInv, Tells
<1>3. SearchInv' /\ DockInv' /\ ListInv' /\ current' = poll.of /\ masked' = FALSE
  BY <1>1, <1>2, PublishKeeps
<1>4. AccountInv'
  BY <1>1, <1>2, <1>3, StatusFacts DEF IInv, AccountInv
<1>5. PanelInv'
  <2>1. CASE poll.of = current /\ ~masked
    <3>1. UNCHANGED <<own, shown, qr, current>> /\ ~masked'
      BY <1>1, <1>3, <2>1 DEF PollReceived
    <3> QED
      BY <1>3, <2>1, <3>1 DEF IInv, PanelInv, Tells, ShowsAccount
  <2>2. CASE ~(poll.of = current /\ ~masked)
    <3>1. shown' = poll.of /\ qr' = (qr /\ poll.of = LoggedOut /\ shown \in {None, NoKey, LoggedOut})
      BY <2>2 DEF PollReceived
    <3>2. qr' \in BOOLEAN /\ ~(qr' /\ ShowsAccount') /\ shown' = current'
      BY <1>3, <3>1 DEF ShowsAccount
    <3> QED
      BY <1>1, <1>3, <3>2 DEF IInv, PanelInv, Tells
  <2> QED
    BY <2>1, <2>2
<1> QED
  BY <1>1, <1>3, <1>4, <1>5 DEF IInv

\* Every step of the status poll.
LEMMA AccountSyncKeeps ==
    ASSUME IInv, AccountSync
    PROVE  IInv'
<1>1. ASSUME UNCHANGED <<user, login, changes, current, panelVars, searchVars, dockVars, listVars>>,
             Tells(poll')
      PROVE  IInv'
  <2>1. AccountInv'
    BY <1>1 DEF IInv, AccountInv
  <2> QED
    BY <1>1, <2>1, PartsStay DEF IInv
<1>2. CASE RefreshClientAccount
  BY <1>1, <1>2, StatusFacts DEF RefreshClientAccount
<1>3. CASE PollAnswered
  <2>1. poll' = Told(login) /\ login \in Logins
    BY <1>3 DEF PollAnswered, IInv, AccountInv
  <2> QED
    BY <1>1, <1>3, <2>1, StatusFacts DEF PollAnswered
<1>4. CASE PollFails
  BY <1>1, <1>4, StatusFacts DEF PollFails
<1> QED
  BY <1>2, <1>3, <1>4, PollReceivedKeeps DEF AccountSync

\* Another device logs in or out, which the tab does not notice yet.
LEMMA LoginChangesKeeps ==
    ASSUME IInv, NEW o \in Owners, LoginChanges(o)
    PROVE  IInv'
<1>1. /\ changes < MaxChanges /\ changes' = changes + 1 /\ changes \in 0 .. MaxChanges
      /\ login' = IF o = Guest THEN LoggedOut ELSE [owner |-> o, since |-> changes + 1]
      /\ UNCHANGED <<user, current, poll, panelVars, searchVars, dockVars, listVars>>
  BY DEF LoginChanges, IInv, AccountInv
<1>2. changes + 1 \in 0 .. MaxChanges
  BY <1>1, AccountTabAssumption
<1>3. login' \in Logins
  <2>1. CASE o = Guest
    BY <1>1, <2>1, LoginsOwn
  <2>2. CASE o # Guest
    <3>1. o \in Accounts
      BY <2>2 DEF Owners
    <3> HIDE DEF LoggedOut
    <3> QED
      BY <1>1, <1>2, <2>2, <3>1 DEF Logins
  <2> QED
    BY <2>1, <2>2
<1>4. AccountInv'
  BY <1>1, <1>2, <1>3 DEF IInv, AccountInv, Tells
<1> QED
  BY <1>1, <1>4, PartsStay DEF IInv

-----------------------------------------------------------------------------
(* The steps of the login panel                                            *)

\* The panel only tells the search page, the player and the playlist through the account.
LEMMA OthersStay ==
    ASSUME IInv, UNCHANGED <<user, current, searchVars, dockVars, listVars>>
    PROVE  user' \in Users /\ SearchInv' /\ DockInv' /\ ListInv'
<1>1. SearchInv'
  BY SearchStays DEF IInv
<1>2. DockInv'
  BY DockStays DEF IInv
<1>3. ListInv'
  BY ListStays DEF IInv
<1> QED
  BY <1>1, <1>2, <1>3 DEF IInv

\* The panel publishes its own status; a QR code stays only without an account.
LEMMA PanelPublishesKeeps ==
    ASSUME IInv, PanelPublishes
    PROVE  IInv'
<1>1. /\ own.state = "answered" /\ PublishClientAccount(own.of) /\ shown' = own.of /\ own' = Idle
      /\ qr' \in IF own.of = LoggedOut THEN {qr, FALSE} ELSE {FALSE}
      /\ UNCHANGED <<user, login, changes, poll>>
  BY DEF PanelPublishes
<1>2. own.of \in Logins
  BY <1>1 DEF IInv, PanelInv, Tells
<1>3. SearchInv' /\ DockInv' /\ ListInv' /\ current' = own.of /\ masked' = FALSE
  BY <1>1, <1>2, PublishKeeps
<1>4. AccountInv'
  BY <1>1, <1>2, <1>3 DEF IInv, AccountInv, Tells
<1>5. qr \in BOOLEAN
  BY DEF IInv, PanelInv
<1>6. qr' \in BOOLEAN /\ ~(qr' /\ ShowsAccount') /\ shown' = current'
  BY <1>1, <1>3, <1>5 DEF ShowsAccount
<1>7. Tells(own')
  BY <1>1, StatusFacts
<1>8. PanelInv'
  BY <1>3, <1>6, <1>7 DEF PanelInv, Tells
<1> QED
  BY <1>1, <1>3, <1>4, <1>8 DEF IInv

\* Every step of the login panel.
LEMMA KernelLoginPanelKeeps ==
    ASSUME IInv, KernelLoginPanel
    PROVE  IInv'
<1>0. PanelInv /\ AccountInv
  BY DEF IInv
<1>1. ASSUME UNCHANGED <<user, current, searchVars, dockVars, listVars>>, PanelInv', AccountInv'
      PROVE  IInv'
  BY <1>1, OthersStay DEF IInv
<1>2. ASSUME UNCHANGED <<user, accountVars, searchVars, dockVars, listVars>>, PanelInv'
      PROVE  IInv'
  <2>1. AccountInv' /\ UNCHANGED current
    BY <1>0, <1>2, AccountStays DEF accountVars
  <2> QED
    BY <1>1, <1>2, <2>1
<1>3. ASSUME UNCHANGED <<user, accountVars, shown, qr, masked, searchVars, dockVars, listVars>>, Tells(own')
      PROVE  IInv'
  <2>1. PanelInv'
    BY <1>0, <1>3 DEF PanelInv, ShowsAccount, accountVars
  <2> QED
    BY <1>2, <1>3, <2>1
<1>4. CASE PanelRefreshes
  BY <1>3, <1>4, StatusFacts DEF PanelRefreshes
<1>5. CASE PanelAnswered
  <2>1. own' = Told(login) /\ login \in Logins
    BY <1>0, <1>5 DEF PanelAnswered, AccountInv
  <2> QED
    BY <1>3, <1>5, <2>1, StatusFacts DEF PanelAnswered
<1>6. CASE PanelFails
  BY <1>3, <1>6, StatusFacts DEF PanelFails
<1>7. ASSUME NEW kind \in {"login", "logout"}, Act(kind) PROVE IInv'
  <2>1. UNCHANGED <<user, accountVars, own, shown, qr, masked, searchVars, dockVars, listVars>>
    BY <1>7 DEF Act
  <2> QED
    BY <1>0, <1>3, <2>1 DEF PanelInv
<1>8. CASE ActionChecked
  <2>1. /\ UNCHANGED <<user, login, changes, current, own, shown, qr, masked, searchVars, dockVars, listVars>>
        /\ Refused \/ UNCHANGED poll
    BY <1>8 DEF ActionChecked
  <2>2. AccountInv'
    BY <1>0, <2>1, RefusalAsks
  <2> QED
    BY <1>0, <1>1, <2>1, <2>2, PanelStays
<1>9. CASE KernelLogout
  <2>1. /\ UNCHANGED <<user, changes, current, poll, own, shown, qr, masked, searchVars, dockVars, listVars>>
        /\ login' = LoggedOut
    BY <1>9 DEF KernelLogout
  <2>2. AccountInv'
    BY <1>0, <2>1, LoginsOwn DEF AccountInv, Tells
  <2> QED
    BY <1>0, <1>1, <2>1, <2>2, PanelStays
<1>10. CASE KernelStart
  <2>1. UNCHANGED <<user, accountVars, own, shown, qr, masked, searchVars, dockVars, listVars>>
    BY <1>10 DEF KernelStart
  <2> QED
    BY <1>0, <1>3, <2>1 DEF PanelInv
<1>11. CASE LoggedOutShown
  <2>1. /\ UNCHANGED <<user, login, changes, current, own, masked, searchVars, dockVars, listVars>>
        /\ Refused /\ shown' = NoKey /\ qr' = FALSE
    BY <1>11 DEF LoggedOutShown
  <2>2. AccountInv'
    BY <1>0, <2>1, RefusalAsks
  <2>3. PanelInv'
    BY <1>0, <2>1 DEF PanelInv, ShowsAccount, Tells
  <2> QED
    BY <1>1, <2>1, <2>2, <2>3
<1>12. CASE QrShown
  <2>1. /\ UNCHANGED <<user, accountVars, own, shown, searchVars, dockVars, listVars>>
        /\ qr' = TRUE /\ masked' = (masked \/ shown \notin {None, NoKey})
    BY <1>12 DEF QrShown
  <2>2. PanelInv'
    BY <1>0, <2>1 DEF PanelInv, ShowsAccount, accountVars, Tells
  <2> QED
    BY <1>2, <2>1, <2>2
<1>13. CASE QrExpires
  <2>1. /\ UNCHANGED <<user, accountVars, own, shown, masked, searchVars, dockVars, listVars>>
        /\ qr' = FALSE
    BY <1>13 DEF QrExpires
  <2>2. PanelInv'
    BY <1>0, <2>1 DEF PanelInv, ShowsAccount, accountVars, Tells
  <2> QED
    BY <1>2, <2>1, <2>2
<1> QED
  BY <1>4, <1>5, <1>6, <1>7, <1>8, <1>9, <1>10, <1>11, <1>12, <1>13, PanelPublishesKeeps DEF KernelLoginPanel

-----------------------------------------------------------------------------
(* The steps of the search page, the player and the page of a playlist     *)

\* Every step of the search page.
LEMMA SearchBoxKeeps ==
    ASSUME IInv, SearchBox
    PROVE  IInv'
<1>0. SearchInv /\ AccountInv /\ PanelInv /\ DockInv /\ ListInv /\ user \in Users
  BY DEF IInv
<1>1. ASSUME UNCHANGED <<user, login, changes, current, panelVars, dockVars, listVars>>,
             Refused \/ UNCHANGED poll, SearchInv'
      PROVE  IInv'
  <2>1. AccountInv'
    BY <1>0, <1>1, RefusalAsks
  <2>2. PanelInv'
    BY <1>0, <1>1, PanelStays DEF panelVars
  <2>3. DockInv'
    BY <1>0, <1>1, DockStays
  <2>4. ListInv'
    BY <1>0, <1>1, ListStays
  <2> QED
    BY <1>0, <1>1, <2>1, <2>2, <2>3, <2>4 DEF IInv
<1>2. CASE Begin \/ (\E p \in Pages : GoTo(p)) \/ Retry
  <2>1. SearchInv'
    BY <1>0, <1>2, AskingKeeps
  <2>2. UNCHANGED <<user, accountVars, panelVars, dockVars, listVars>>
    BY <1>2 DEF Begin, GoTo, Retry, Execute
  <2> QED
    BY <1>1, <2>1, <2>2 DEF accountVars
<1>3. CASE Cancel
  <2>1. UNCHANGED <<user, accountVars, panelVars, dockVars, listVars>>
    BY <1>3 DEF Cancel
  <2> QED
    BY <1>0, <1>1, <1>3, <2>1, CancelKeeps DEF accountVars
<1>4. CASE Reload
  <2>1. /\ user = "search" /\ changes < MaxChanges /\ changes' = changes + 1 /\ current' = None
        /\ poll' = Idle /\ shown' = None /\ UNCHANGED <<user, login, own, qr, masked, dockVars, listVars>>
    BY <1>4 DEF Reload
  <2>2. changes + 1 \in 0 .. MaxChanges
    BY <1>0, <2>1, AccountTabAssumption DEF AccountInv
  <2>3. AccountInv'
    BY <1>0, <2>1, <2>2, StatusFacts DEF AccountInv
  <2>4. PanelInv'
    BY <1>0, <2>1 DEF PanelInv, ShowsAccount, Tells
  <2>5. DockInv'
    BY <1>0, <2>1 DEF DockInv, dockVars, DockTyped, WriteInv, MarkInv, DetailsInv
  <2>6. ListInv'
    BY <1>0, <2>1, ListStays
  <2> QED
    BY <1>0, <1>4, <2>1, <2>3, <2>4, <2>5, <2>6, ReloadKeeps DEF IInv
<1>5. ASSUME NEW r \in requests, ShowResult(r) PROVE IInv'
  <2>1. UNCHANGED <<user, accountVars, panelVars, dockVars, listVars>>
    BY <1>5 DEF ShowResult
  <2> QED
    BY <1>0, <1>1, <1>5, <2>1, ShowResultKeeps DEF accountVars
<1>6. ASSUME NEW r \in requests, ShowFailure(r) PROVE IInv'
  <2>1. UNCHANGED <<user, login, changes, current, panelVars, dockVars, listVars>> /\ (Refused \/ UNCHANGED poll)
    BY <1>6 DEF ShowFailure
  <2> QED
    BY <1>0, <1>1, <1>6, <2>1, ShowFailureKeeps
<1>7. ASSUME NEW r \in requests, Unwind(r) PROVE IInv'
  <2>1. UNCHANGED <<user, accountVars, panelVars, dockVars, listVars>>
    BY <1>7 DEF Unwind
  <2> QED
    BY <1>0, <1>1, <1>7, <2>1, UnwindKeeps DEF accountVars
<1>8. ASSUME NEW r \in requests, NEW a \in Answers, SearchAnswered(r, a) PROVE IInv'
  <2>1. UNCHANGED <<user, accountVars, panelVars, dockVars, listVars>>
    BY <1>8 DEF SearchAnswered
  <2> QED
    BY <1>0, <1>1, <1>8, <2>1, AnsweredKeeps DEF accountVars
<1>9. CASE \E r \in requests :
              \/ ShowResult(r) \/ ShowFailure(r) \/ Unwind(r)
              \/ \E a \in {"page", "failed", "changed", "account"} : SearchAnswered(r, a)
  BY <1>5, <1>6, <1>7, <1>8, <1>9 DEF Answers
<1> QED
  BY <1>2, <1>3, <1>4, <1>9 DEF SearchBox

\* Every step of the player's mark.
LEMMA PlayerDockKeeps ==
    ASSUME IInv, PlayerDock
    PROVE  IInv'
<1>0. SearchInv /\ AccountInv /\ PanelInv /\ DockInv /\ ListInv /\ user \in Users
  BY DEF IInv
<1>1. ASSUME UNCHANGED <<user, login, changes, current, panelVars, searchVars, listVars>>,
             Refused \/ UNCHANGED poll, DockInv'
      PROVE  IInv'
  <2>1. AccountInv'
    BY <1>0, <1>1, RefusalAsks
  <2>2. PanelInv'
    BY <1>0, <1>1, PanelStays DEF panelVars
  <2>3. SearchInv'
    BY <1>0, <1>1, SearchStays
  <2>4. ListInv'
    BY <1>0, <1>1, ListStays
  <2> QED
    BY <1>0, <1>1, <2>1, <2>2, <2>3, <2>4 DEF IInv
<1>2. ASSUME UNCHANGED <<user, accountVars, panelVars, searchVars, listVars>>, DockInv'
      PROVE  IInv'
  BY <1>1, <1>2 DEF accountVars
<1>3. ASSUME NEW value \in BOOLEAN, ToggleFavorite(value) PROVE IInv'
  BY <1>0, <1>2, <1>3, ToggleFavoriteKeeps DEF ToggleFavorite
<1>4. CASE WriteChecked
  <2>1. UNCHANGED <<user, login, changes, current, panelVars, searchVars, listVars>> /\ (Refused \/ UNCHANGED poll)
    BY <1>4 DEF WriteChecked
  <2> QED
    BY <1>0, <1>1, <1>4, <2>1, WriteCheckedKeeps
<1>5. CASE WriteDone
  BY <1>0, <1>2, <1>5, WriteDoneKeeps DEF WriteDone
<1>6. CASE WriteReceived
  BY <1>0, <1>2, <1>6, WriteReceivedKeeps DEF WriteReceived
<1>7. CASE WriteLost
  BY <1>0, <1>2, <1>7, WriteLostKeeps DEF WriteLost
<1>8. CASE AskDetails
  BY <1>0, <1>2, <1>8, AskDetailsKeeps DEF AskDetails
<1>9. CASE DetailsAnswered
  <2>1. UNCHANGED <<user, login, changes, current, panelVars, searchVars, listVars>> /\ (Refused \/ UNCHANGED poll)
    BY <1>9 DEF DetailsAnswered
  <2> QED
    BY <1>0, <1>1, <1>9, <2>1, DetailsAnsweredKeeps
<1>10. CASE DetailsReceived
  BY <1>0, <1>2, <1>10, DetailsReceivedKeeps DEF DetailsReceived
<1> QED
  BY <1>3, <1>4, <1>5, <1>6, <1>7, <1>8, <1>9, <1>10 DEF PlayerDock

\* Every step of the page of a playlist.
LEMMA PlaylistDetailViewKeeps ==
    ASSUME IInv, PlaylistDetailView
    PROVE  IInv'
<1>0. SearchInv /\ AccountInv /\ PanelInv /\ DockInv /\ ListInv /\ user \in Users
  BY DEF IInv
<1>1. ASSUME UNCHANGED <<user, current, panelVars, searchVars, dockVars>>, AccountInv', ListInv'
      PROVE  IInv'
  <2>1. PanelInv'
    BY <1>0, <1>1, PanelStays DEF panelVars
  <2>2. SearchInv'
    BY <1>0, <1>1, SearchStays
  <2>3. DockInv'
    BY <1>0, <1>1, DockStays
  <2> QED
    BY <1>0, <1>1, <2>1, <2>2, <2>3 DEF IInv
<1>2. ASSUME UNCHANGED <<user, accountVars, panelVars, searchVars, dockVars>>, ListInv'
      PROVE  IInv'
  <2>1. AccountInv' /\ UNCHANGED current
    BY <1>0, <1>2, AccountStays DEF accountVars
  <2> QED
    BY <1>1, <1>2, <2>1
<1>3. ASSUME UNCHANGED <<user, login, changes, current, panelVars, searchVars, dockVars>>,
             Refused \/ UNCHANGED poll, ListInv'
      PROVE  IInv'
  <2>1. AccountInv'
    BY <1>0, <1>3, RefusalAsks
  <2> QED
    BY <1>1, <1>3, <2>1
<1>4. ASSUME NEW e \in Edits, Mutate(e) PROVE IInv'
  BY <1>0, <1>2, <1>4, MutateKeeps DEF Mutate
<1>5. CASE MutationAnswered
  <2>1. UNCHANGED <<user, login, changes, current, panelVars, searchVars, dockVars>> /\ (Refused \/ UNCHANGED poll)
    BY <1>5 DEF MutationAnswered
  <2> QED
    BY <1>0, <1>3, <1>5, <2>1, MutationAnsweredKeeps
<1>6. CASE MutationReceived
  BY <1>0, <1>2, <1>6, MutationReceivedKeeps DEF MutationReceived
<1>7. CASE RefreshAnswered
  <2>1. UNCHANGED <<user, login, changes, current, panelVars, searchVars, dockVars>> /\ (Refused \/ UNCHANGED poll)
    BY <1>7 DEF RefreshAnswered
  <2> QED
    BY <1>0, <1>3, <1>7, <2>1, RefreshAnsweredKeeps
<1>8. CASE RefreshReceived
  BY <1>0, <1>2, <1>8, RefreshReceivedKeeps DEF RefreshReceived
<1>9. CASE MutationLost
  BY <1>0, <1>2, <1>9, MutationLostKeeps DEF MutationLost
<1>10. ASSUME NEW order \in Orders, EditedElsewhere(order) PROVE IInv'
  <2>1. /\ changes < MaxChanges /\ changes' = changes + 1
        /\ UNCHANGED <<user, login, current, poll, panelVars, searchVars, dockVars>>
    BY <1>10 DEF EditedElsewhere
  <2>2. changes + 1 \in 0 .. MaxChanges
    BY <1>0, <2>1, AccountTabAssumption DEF AccountInv
  <2>3. AccountInv'
    BY <1>0, <2>1, <2>2 DEF AccountInv, Tells
  <2>4. ListInv'
    BY <1>0, <1>10, EditedElsewhereKeeps
  <2> QED
    BY <1>1, <2>1, <2>3, <2>4
<1> QED
  BY <1>4, <1>5, <1>6, <1>7, <1>8, <1>9, <1>10 DEF PlaylistDetailView

-----------------------------------------------------------------------------
(* The invariant holds                                                     *)

\* At first no account is known and nothing is shown.
LEMMA InitHolds == Init => IInv
<1> SUFFICES ASSUME Init PROVE IInv
  OBVIOUS
<1>1. login \in Logins /\ changes \in 0 .. MaxChanges
  BY AccountTabAssumption DEF Init, Logins
<1>2. AccountInv /\ PanelInv
  BY <1>1, StatusFacts DEF Init, AccountInv, PanelInv, ShowsAccount, Tells
<1>3. Listening = {} /\ Proper(requests) /\ latest \in 0 .. MaxRequests
  BY AccountTabAssumption DEF Init, Listening, Proper
<1>4. SearchInv
  BY <1>3 DEF Init, SearchInv, RequestsInv, ResultInv, FailureInv
<1>5. DockInv
  BY DEF Init, DockInv, DockTyped, WriteInv, MarkInv, DetailsInv
<1>6. login.owner \in Owners
  BY <1>1, LoginsOwn
<1>7. playlist \in [owner : Owners, order : Orders] \cup {None}
  <2>1. CASE user = "list"
    BY <1>6, <2>1 DEF Init
  <2>2. CASE user # "list"
    BY <2>2 DEF Init
  <2> QED
    BY <2>1, <2>2
<1>8. ListInv
  BY <1>7 DEF Init, ListInv
<1> QED
  BY <1>2, <1>4, <1>5, <1>8 DEF Init, IInv

\* Every step of the tab, of its servers and of other devices keeps the invariant.
LEMMA NextKeeps == IInv /\ [Next]_vars => IInv'
<1> SUFFICES ASSUME IInv, [Next]_vars PROVE IInv'
  OBVIOUS
<1>1. ASSUME NEW o \in Owners, LoginChanges(o) PROVE IInv'
  BY <1>1, LoginChangesKeeps
<1>2. CASE UNCHANGED vars
  <2>1. /\ UNCHANGED <<user, login, changes, current, panelVars, searchVars, dockVars, listVars>>
        /\ UNCHANGED accountVars
    BY <1>2 DEF vars, accountVars
  <2>2. AccountInv'
    BY <2>1, AccountStays DEF IInv
  <2> QED
    BY <2>1, <2>2, PartsStay DEF IInv
<1> QED
  BY <1>1, <1>2, AccountSyncKeeps, KernelLoginPanelKeeps, SearchBoxKeeps, PlayerDockKeeps,
     PlaylistDetailViewKeeps DEF Next

\* The invariant holds whatever the scheduling.
THEOREM TabInvariant == Spec => []IInv
<1>1. Init => IInv
  BY InitHolds
<1>2. IInv /\ [Next]_vars => IInv'
  BY NextKeeps
<1> QED
  BY <1>1, <1>2, PTL DEF Spec

\* The invariant contains the types.
LEMMA ImpliesTypeOK == IInv => TypeOK
<1> SUFFICES ASSUME IInv PROVE TypeOK
  OBVIOUS
<1>1. /\ user \in Users /\ login \in Logins /\ changes \in 0 .. MaxChanges
      /\ current \in Logins \cup {None} /\ {poll, own} \subseteq Status
      /\ shown \in Logins \cup {None, NoKey}
  BY DEF IInv, AccountInv, PanelInv, Tells
<1>2. /\ result \in Attempts \cup {None} /\ loading \in BOOLEAN /\ latest \in 0 .. MaxRequests
      /\ \A r \in requests : r.id \in 1 .. MaxRequests /\ r.key \in Logins /\ r.ask \in Attempts
  BY SearchFacts DEF IInv, ResultInv, Requests
<1>3. {stale, doubt, qr, masked, behind} \subseteq BOOLEAN
  BY SearchFacts DEF IInv, ResultInv, DockInv, DockTyped, PanelInv, ListInv
<1>4. /\ library \in [Owners -> BOOLEAN] /\ write \in Writes \cup {None} /\ edit \in UnderWay \cup {None}
      /\ playlist \in [owner : Owners, order : Orders] \cup {None} /\ page \in Orders \cup {None}
  BY DEF IInv, DockInv, DockTyped, ListInv
<1> QED
  BY <1>1, <1>2, <1>3, <1>4 DEF TypeOK

\* Every variable keeps its type.
THEOREM TabTypeCorrect == Spec => []TypeOK
BY TabInvariant, ImpliesTypeOK, PTL

\* The tab listens to one request at most.
LEMMA OneListens ==
    ASSUME SearchInv
    PROVE  Cardinality(Listening) <= 1
<1>1. CASE Listening = {}
  BY <1>1, FS_EmptySet
<1>2. ASSUME NEW r \in Listening PROVE Cardinality(Listening) <= 1
  <2>1. ASSUME NEW s \in Listening PROVE s = r
    <3>1. s \in requests /\ r \in requests /\ s.id = r.id
      BY <2>1, SearchFacts
    <3> QED
      BY <3>1, SearchFacts DEF Proper
  <2>2. Listening = {r}
    BY <2>1
  <2>3. Cardinality(Listening) = 1
    BY <2>2, FS_Singleton
  <2> QED
    BY <2>3
<1> QED
  BY <1>1, <1>2

\* API_USAGE.md, PlayerDock, KernelLoginPanel, PlaylistDetailView: what the tab shows is of
\* the account it knows, of a request it listens to, and of what the server has.
THEOREM TabStaysSound == Spec => []TabSound
<1>1. ASSUME IInv PROVE TabSound
  <2>1. TypeOK
    BY <1>1, ImpliesTypeOK
  <2>2. ~(qr /\ ShowsAccount) /\ shown \in {None, NoKey, current}
    BY <1>1 DEF IInv, PanelInv
  <2>3. /\ result # None /\ current # None /\ ~stale => result.of = current
        /\ loading <=> Listening # {}
        /\ \A r \in Listening : r.key = current /\ (r.ask.of \notin {None, current} => stale)
    BY <1>1, SearchFacts DEF IInv, ResultInv, Ours
  <2>4. Cardinality(Listening) <= 1
    BY <1>1, OneListens DEF IInv
  <2>5. \A r \in requests : r.ask.page > 1 => r.ask.of # None
    BY <1>1, SearchFacts DEF IInv, Proper, Whole
  <2>6. /\ dock # None => dock.owner = current.owner
        /\ dock # None /\ write = None /\ ~doubt => dock.value = library[dock.owner]
    BY <1>1 DEF IInv, DockInv, MarkInv, Steady
  <2>7. page # None /\ edit = None /\ ~behind => playlist # None /\ page = playlist.order
    BY <1>1 DEF IInv, ListInv
  <2> QED
    BY <2>1, <2>2, <2>3, <2>4, <2>5, <2>6, <2>7 DEF TabSound
<1> QED
  BY <1>1, TabInvariant, PTL

-----------------------------------------------------------------------------
(* What changes at the server                                              *)

\* Only a write that is done changes a library, only an edit a playlist.
LEMMA ServerStays ==
    ASSUME [Next]_vars
    PROVE  /\ WriteDone \/ library' = library
           /\ MutationAnswered \/ (\E order \in Orders : EditedElsewhere(order)) \/ playlist' = playlist
<1>1. ASSUME NEW k, PublishClientAccount(k) PROVE library' = library /\ playlist' = playlist
  BY <1>1 DEF PublishClientAccount, DockRestores, ListRerenders, dockVars, listVars
<1>2. CASE AccountSync
  <2>1. CASE PollReceived
    BY <1>1, <2>1 DEF PollReceived
  <2>2. CASE RefreshClientAccount \/ PollAnswered \/ PollFails
    BY <2>2 DEF RefreshClientAccount, PollAnswered, PollFails, dockVars, listVars
  <2> QED
    BY <1>2, <2>1, <2>2 DEF AccountSync
<1>3. CASE KernelLoginPanel
  <2>1. CASE PanelPublishes
    BY <1>1, <2>1 DEF PanelPublishes
  <2>2. CASE PanelRefreshes \/ PanelAnswered \/ PanelFails \/ \E kind \in {"login", "logout"} : Act(kind)
    BY <2>2 DEF PanelRefreshes, PanelAnswered, PanelFails, Act, dockVars, listVars
  <2>3. CASE ActionChecked \/ KernelLogout \/ KernelStart \/ LoggedOutShown \/ QrShown \/ QrExpires
    BY <2>3 DEF ActionChecked, KernelLogout, KernelStart, LoggedOutShown, QrShown, QrExpires, dockVars, listVars
  <2> QED
    BY <1>3, <2>1, <2>2, <2>3 DEF KernelLoginPanel
<1>4. CASE SearchBox
  <2>1. CASE Begin \/ (\E p \in Pages : GoTo(p)) \/ Retry \/ Cancel \/ Reload
    BY <2>1 DEF Begin, GoTo, Retry, Execute, Cancel, Reload, dockVars, listVars
  <2>2. ASSUME NEW r \in requests,
               \/ ShowResult(r) \/ ShowFailure(r) \/ Unwind(r)
               \/ \E a \in {"page", "failed", "changed", "account"} : SearchAnswered(r, a)
        PROVE  library' = library /\ playlist' = playlist
    BY <2>2 DEF ShowResult, ShowFailure, Unwind, SearchAnswered, dockVars, listVars
  <2> QED
    BY <1>4, <2>1, <2>2 DEF SearchBox
<1>5. CASE PlayerDock
  <2>1. CASE (\E value \in BOOLEAN : ToggleFavorite(value)) \/ WriteChecked \/ WriteReceived \/ WriteLost
    BY <2>1 DEF ToggleFavorite, WriteChecked, WriteReceived, WriteLost, listVars
  <2>2. CASE AskDetails \/ DetailsAnswered \/ DetailsReceived
    BY <2>2 DEF AskDetails, DetailsAnswered, DetailsReceived, listVars
  <2>3. CASE WriteDone
    BY <2>3 DEF WriteDone, listVars
  <2> QED
    BY <1>5, <2>1, <2>2, <2>3 DEF PlayerDock
<1>6. CASE PlaylistDetailView
  <2>1. ASSUME NEW e \in Edits, Mutate(e) PROVE library' = library /\ playlist' = playlist
    BY <2>1 DEF Mutate, dockVars
  <2>2. CASE MutationReceived \/ RefreshAnswered \/ RefreshReceived \/ MutationLost
    BY <2>2 DEF MutationReceived, RefreshAnswered, RefreshReceived, MutationLost, dockVars
  <2>3. CASE MutationAnswered
    BY <2>3 DEF MutationAnswered, dockVars
  <2>4. ASSUME NEW order \in Orders, EditedElsewhere(order) PROVE library' = library
    BY <2>4 DEF EditedElsewhere, dockVars
  <2> QED
    BY <1>6, <2>1, <2>2, <2>3, <2>4 DEF PlaylistDetailView
<1>7. ASSUME NEW o \in Owners, LoginChanges(o) PROVE library' = library /\ playlist' = playlist
  BY <1>7 DEF LoginChanges, dockVars, listVars
<1>8. CASE UNCHANGED vars
  BY <1>8 DEF vars, dockVars, listVars
<1> QED
  BY <1>2, <1>3, <1>4, <1>5, <1>6, <1>7, <1>8 DEF Next

\* accountClient.ts: a write changes the library of the account the tab sent it for, and an
\* edit of a playlist is of its owner and loses no entry.
THEOREM WritesReachTheirSender == Spec => WritesGoToSender
<1>1. ASSUME IInv, [Next]_vars, NEW o \in Owners, library'[o] # library[o]
      PROVE  write # None /\ write.key.owner = o /\ library'[o] = write.value
  <2>1. WriteDone
    BY <1>1, ServerStays
  <2>2. /\ write \in Writes /\ write.key.owner \in Owners
        /\ library' = [library EXCEPT ![write.key.owner] = write.value]
    BY <1>1, <2>1, WriteDoneFacts DEF IInv
  <2>3. library \in [Owners -> BOOLEAN]
    BY <1>1 DEF IInv, DockInv, DockTyped
  <2> QED
    BY <1>1, <2>2, <2>3, NoneIsApart
<1>2. ASSUME IInv, [Next]_vars, playlist' # playlist, changes' = changes
      PROVE  /\ edit # None /\ edit.key.owner = playlist.owner
             /\ edit.ask.kind = "move" => ToSet(playlist'.order) = ToSet(playlist.order)
  <2>1. MutationAnswered
    <3>1. ASSUME NEW order \in Orders, EditedElsewhere(order) PROVE FALSE
      <4>1. changes' = changes + 1 /\ changes \in 0 .. MaxChanges
        BY <1>2, <3>1 DEF EditedElsewhere, IInv, AccountInv
      <4> QED
        BY <1>2, <4>1, AccountTabAssumption
    <3> QED
      BY <1>2, <3>1, ServerStays
  <2>2. edit # None /\ Finds(edit) /\ playlist' = Edited(edit.ask)
    BY <1>2, <2>1 DEF MutationAnswered
  <2>3. playlist # None /\ playlist.owner = edit.key.owner
    BY <2>2 DEF Finds
  <2>4. ASSUME edit.ask.kind = "move" PROVE ToSet(playlist'.order) = ToSet(playlist.order)
    <3>1. playlist \in [owner : Owners, order : Orders]
      BY <1>2, <2>3 DEF IInv, ListInv
    <3>2. playlist'.order = edit.ask.order
      BY <2>2, <2>4, <3>1 DEF Edited
    <3> QED
      BY <2>2, <2>4, <3>2 DEF Finds
  <2> QED
    BY <2>2, <2>3, <2>4
<1> DEFINE Step ==
        /\ \A o \in Owners : library'[o] # library[o] =>
              write # None /\ write.key.owner = o /\ library'[o] = write.value
        /\ playlist' # playlist /\ changes' = changes =>
              /\ edit # None /\ edit.key.owner = playlist.owner
              /\ edit.ask.kind = "move" => ToSet(playlist'.order) = ToSet(playlist.order)
<1>3. IInv /\ [Next]_vars => Step
  BY <1>1, <1>2
<1>4. Spec => [][Step]_vars
  BY <1>3, TabInvariant, PTL DEF Spec
<1> QED
  BY <1>4 DEF WritesGoToSender
=================================================================================
