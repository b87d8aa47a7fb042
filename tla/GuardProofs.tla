----------------------------- MODULE GuardProofs -----------------------------
(* Theorems about the two halves of deploy/priority-guard.py: the pauses and *)
(* restarts, for every window, stable period and number of restarts, and the *)
(* memory ceiling, for every host.                                           *)
EXTENDS PriorityGuard, KernelMemory, FiniteSetTheorems, TLAPS

\* A state file no run has let grow beyond the restarts allowed.
Sound(s) == s \in States /\ Cardinality(s.resumes) <= MaxResumes

\* Ages that grow older leave the window or stay different from each other.
LEMMA OlderFacts ==
    ASSUME NEW S \in SUBSET Ages
    PROVE  /\ Older(S) \in SUBSET Ages
           /\ IsFiniteSet(S) /\ Cardinality(S) \in Nat
           /\ Cardinality(Older(S)) \in Nat
           /\ Cardinality(Older(S)) <= Cardinality(S)
<1> DEFINE T == {a + 1 : a \in S}
           f == [a \in S |-> a + 1]
<1>1. IsFiniteSet(Ages)
  BY FS_Interval, GuardAssumption DEF Ages
<1>2. IsFiniteSet(S)
  BY <1>1, FS_Subset
<1>3. f \in Surjection(S, T)
  BY DEF Surjection
<1>4. IsFiniteSet(T) /\ Cardinality(T) <= Cardinality(S)
  BY <1>2, <1>3, FS_Surjection
<1>5. Older(S) \in SUBSET T /\ Older(S) \in SUBSET Ages
  BY DEF Older
<1>6. IsFiniteSet(Older(S)) /\ Cardinality(Older(S)) <= Cardinality(T)
  BY <1>4, <1>5, FS_Subset
<1>7. Cardinality(S) \in Nat /\ Cardinality(T) \in Nat /\ Cardinality(Older(S)) \in Nat
  BY <1>2, <1>4, <1>6, FS_CardinalityType
<1> QED
  BY <1>2, <1>4, <1>5, <1>6, <1>7

\* What every reachable state satisfies: the completed restarts are all remembered by
\* the file and by the state a run has loaded, and a run that restarts has room for one.
Remembered ==
    /\ Sound(loaded)
    /\ restarts \subseteq file.resumes
    /\ pc \in {"stopping", "starting"} => restarts \subseteq loaded.resumes
    /\ pc = "starting" => Cardinality(loaded.resumes) < MaxResumes

IInv == TypeOK /\ Remembered

\* A guard that was never run satisfies the invariant.
LEMMA InitIInv == Init => IInv
<1> SUFFICES ASSUME Init PROVE IInv
  OBVIOUS
<1>1. NoState \in States
  BY GuardAssumption DEF NoState, States, Ages
<1>2. Cardinality({}) = 0 /\ NoState.resumes = {}
  BY FS_EmptySet DEF NoState
<1>3. Sound(NoState)
  BY <1>1, <1>2, GuardAssumption DEF Sound
<1>4. TypeOK
  <2>1. hold \in BOOLEAN
    BY DEF Init
  <2>2. calm \in 0 .. Stable + 1
    BY GuardAssumption DEF Init
  <2>5. blind \in BOOLEAN
    BY Zenon DEF Init
  <2>3. stoppedBy \in [Music -> {"nobody", "guard", "operator"}]
    BY DEF Init
  <2>4. \A c \in Music : c \in running <=> stoppedBy[c] = "nobody"
    BY DEF Init
  <2> QED
    BY <1>3, <2>1, <2>2, <2>3, <2>4, <2>5 DEF Init, TypeOK, Sound
<1>5. Remembered
  BY <1>2, <1>3 DEF Init, Remembered
<1> QED
  BY <1>4, <1>5 DEF IInv

\* One period later the file is still sound and remembers the restarts still in the window.
LEMMA NowFacts ==
    ASSUME IInv
    PROVE  /\ Sound(Now) /\ Now.resumes = Older(file.resumes)
           /\ Older(restarts) \subseteq Now.resumes
           /\ Older(restarts) \subseteq Ages
<1>1. file \in States /\ Cardinality(file.resumes) <= MaxResumes /\ file.resumes \in SUBSET Ages
  BY DEF IInv, TypeOK, States
<1>2. Now.resumes = Older(file.resumes)
  BY <1>1 DEF Now, Aged, States
<1>3. Older(file.resumes) \in SUBSET Ages /\ Cardinality(Older(file.resumes)) <= MaxResumes
  BY <1>1, OlderFacts, GuardAssumption
<1>4. Now.since \in (0 .. Stable) \cup {None}
  BY <1>1, GuardAssumption DEF Now, Aged, States
<1>5. Now = [file EXCEPT !.since = Now.since, !.resumes = Now.resumes]
  BY <1>1 DEF Now, Aged, States
<1>6. Now \in States
  BY <1>1, <1>2, <1>3, <1>4, <1>5 DEF States
<1>7. restarts \subseteq file.resumes /\ restarts \subseteq Ages
  BY DEF IInv, Remembered, TypeOK
<1>8. Older(restarts) \subseteq Older(file.resumes) /\ Older(restarts) \subseteq Ages
  BY <1>7 DEF Older
<1> QED
  BY <1>2, <1>3, <1>6, <1>8 DEF Sound

\* A run that ends at once writes a state that forgets no restart.
LEMMA EndsIInv ==
    ASSUME IInv, Looks, NEW s, Ends(s), Sound(s), s.resumes = Now.resumes
    PROVE  IInv'
<1>1. /\ file' = s /\ loaded' = Now /\ pc' = "idle" /\ targets' = {}
      /\ restarts' = Older(restarts) /\ running' = running /\ stoppedBy' = stoppedBy
      /\ host' = host /\ hold' = hold
  BY DEF Looks, Ends
<1>2. calm' \in 0 .. Stable + 1 /\ shaken' \in {"no", "earlier", "now"} /\ blind' \in BOOLEAN
  <2>1. calm' \in 0 .. Stable + 1
    BY GuardAssumption DEF IInv, TypeOK, Looks
  <2>2. shaken' \in {"no", "earlier", "now"}
    BY DEF IInv, TypeOK, Looks
  <2>3. blind' \in BOOLEAN
    BY Zenon DEF Ends
  <2> QED
    BY <2>1, <2>2, <2>3
<1>3. TypeOK'
  BY <1>1, <1>2, NowFacts DEF IInv, TypeOK, Sound
<1>4. Remembered'
  BY <1>1, NowFacts DEF Remembered, Sound
<1> QED
  BY <1>3, <1>4 DEF IInv

\* A run that goes on to call Docker leaves the file as it loaded it.
LEMMA GoesOnIInv ==
    ASSUME IInv, Looks, NEW phase \in {"stopping", "starting"}, NEW C \in SUBSET Music,
           GoesOn(phase, C),
           phase = "starting" => Cardinality(Now.resumes) < MaxResumes
    PROVE  IInv'
<1>1. /\ file' = Now /\ loaded' = Now /\ pc' = phase /\ targets' = C
      /\ restarts' = Older(restarts) /\ running' = running /\ stoppedBy' = stoppedBy
      /\ host' = host /\ hold' = hold /\ blind' = blind
  BY DEF Looks, GoesOn
<1>2. calm' \in 0 .. Stable + 1 /\ shaken' \in {"no", "earlier", "now"}
  BY GuardAssumption DEF IInv, TypeOK, Looks
<1>3. TypeOK'
  BY <1>1, <1>2, NowFacts DEF IInv, TypeOK, Sound
<1>4. Remembered'
  BY <1>1, NowFacts DEF Remembered, Sound
<1> QED
  BY <1>3, <1>4 DEF IInv

\* A run of the script loads the state and forgets only restarts older than the window.
LEMMA RunIInv ==
    ASSUME IInv, Run
    PROVE  IInv'
<1>0. /\ Sound(Now) /\ Now \in States /\ Now.resumes \in SUBSET Ages
      /\ Cardinality(Now.resumes) \in Nat
  BY NowFacts, OlderFacts DEF Sound, States
<1>1. CASE SeePressure
  BY <1>1, GoesOnIInv DEF SeePressure, IInv, TypeOK
<1>2. CASE SeeRunning
  <2> DEFINE s == IF Now.paused THEN [Now EXCEPT !.paused = FALSE, !.since = None] ELSE Now
  <2>1. Sound(s) /\ s.resumes = Now.resumes
    BY <1>0 DEF Sound, States
  <2> QED
    BY <1>2, <2>1, EndsIInv DEF SeeRunning
<1>3. CASE SeeBarred \/ WaitOut
  BY <1>3, <1>0, EndsIInv DEF SeeBarred, WaitOut
<1>4. CASE SeeDip
  <2>1. Sound(Dipped) /\ Dipped.resumes = Now.resumes
    BY <1>0 DEF Sound, States, Dipped
  <2> QED
    BY <1>4, <2>1, EndsIInv DEF SeeDip
<1>5. CASE StartStreak
  <2> DEFINE s == [Now EXCEPT !.since = 0]
  <2>1. Sound(s) /\ s.resumes = Now.resumes
    BY <1>0, GuardAssumption DEF Sound, States
  <2> QED
    BY <1>5, <2>1, EndsIInv DEF StartStreak
<1>6. CASE Latch
  <2> DEFINE s == [Now EXCEPT !.latched = TRUE]
  <2>1. Sound(s) /\ s.resumes = Now.resumes
    BY <1>0 DEF Sound, States
  <2> QED
    BY <1>6, <2>1, EndsIInv DEF Latch
<1>7. CASE Resume
  <2>1. Cardinality(Now.resumes) < MaxResumes
    BY <1>7, <1>0, GuardAssumption DEF Resume, LatchDue
  <2> QED
    BY <1>7, <2>1, GoesOnIInv DEF Resume
<1> QED
  BY <1>1, <1>2, <1>3, <1>4, <1>5, <1>6, <1>7 DEF Run

\* A Docker call changes containers and nothing the restarts are counted by.
LEMMA ContainersTyped ==
    ASSUME TypeOK, NEW c \in Music, Stop(c) \/ Start(c)
    PROVE  /\ running' \in SUBSET Music
           /\ stoppedBy' \in [Music -> {"nobody", "guard", "operator"}]
           /\ \A d \in Music : d \in running' <=> stoppedBy'[d] = "nobody"
<1>1. CASE Stop(c)
  BY <1>1 DEF Stop, TypeOK
<1>2. CASE Start(c)
  BY <1>2 DEF Start, TypeOK
<1> QED
  BY <1>1, <1>2

\* The container whose turn it is, is one of the music containers.
LEMMA TurnIsMusic == Turn \in Music
BY DEF Turn, Music

\* A docker call, done or failed, leaves the history of restarts alone.
LEMMA DockerIInv ==
    ASSUME IInv, DockerCall \/ DockerFails
    PROVE  IInv'
<1>1. /\ running' \in SUBSET Music
      /\ stoppedBy' \in [Music -> {"nobody", "guard", "operator"}]
      /\ \A d \in Music : d \in running' <=> stoppedBy'[d] = "nobody"
  BY ContainersTyped, TurnIsMusic DEF DockerCall, DockerFails, IInv, TypeOK
<1>2. /\ UNCHANGED <<host, hold, file, loaded, calm, restarts>>
      /\ pc' \in {pc, "failed"} /\ targets' \subseteq targets
  BY DEF DockerCall, DockerFails
<1>3. shaken' \in {"no", "earlier", "now"} /\ blind' \in BOOLEAN
  <2>1. shaken' \in {"no", "earlier", "now"}
    BY DEF DockerCall, DockerFails, IInv, TypeOK
  <2>2. blind' \in BOOLEAN
    BY Zenon DEF DockerCall, DockerFails, IInv, TypeOK
  <2> QED
    BY <2>1, <2>2
<1>4. TypeOK'
  BY <1>1, <1>2, <1>3 DEF IInv, TypeOK
<1>5. Remembered'
  BY <1>2 DEF IInv, Remembered, Sound
<1> QED
  BY <1>4, <1>5 DEF IInv

\* What a run writes down at its end holds every restart that still counts.
LEMMA RecordIInv ==
    ASSUME IInv, RecordPause \/ RecordResume
    PROVE  IInv'
<1>1. /\ UNCHANGED <<running, stoppedBy, host, hold, loaded, targets, calm>>
      /\ pc' = "idle" /\ shaken' \in {"no", "earlier", "now"} /\ blind' \in BOOLEAN
  BY DEF RecordPause, RecordResume, Recorded
<1>2. /\ Sound(loaded) /\ loaded \in States /\ loaded.resumes \in SUBSET Ages
      /\ IsFiniteSet(loaded.resumes) /\ Cardinality(loaded.resumes) \in Nat
  BY OlderFacts DEF IInv, Remembered, Sound, States
<1>3. CASE RecordPause
  <2>1. file' = Paused(loaded) /\ restarts' = restarts /\ restarts \subseteq loaded.resumes
    BY <1>3 DEF RecordPause, IInv, Remembered
  <2>2. Sound(Paused(loaded)) /\ Paused(loaded).resumes = loaded.resumes
    BY <1>2 DEF Paused, Sound, States
  <2>3. TypeOK'
    BY <1>1, <2>1, <2>2 DEF IInv, TypeOK, Sound
  <2>4. Remembered'
    BY <1>1, <1>2, <2>1, <2>2 DEF Remembered, Sound
  <2> QED
    BY <2>3, <2>4 DEF IInv
<1>4. CASE RecordResume /\ 0 \in Ages
  <2>1. /\ file' = Resumed(loaded) /\ restarts' = restarts \cup {0}
        /\ restarts \subseteq loaded.resumes /\ Cardinality(loaded.resumes) < MaxResumes
    BY <1>4 DEF RecordResume, IInv, Remembered
  <2>2. Cardinality(loaded.resumes \cup {0}) <= MaxResumes
    <3>1. Cardinality(loaded.resumes \cup {0}) =
            IF 0 \in loaded.resumes THEN Cardinality(loaded.resumes) ELSE Cardinality(loaded.resumes) + 1
      BY <1>2, FS_AddElement
    <3> QED
      BY <1>2, <2>1, <3>1, GuardAssumption
  <2>3. Resumed(loaded).resumes = loaded.resumes \cup {0}
    BY <1>2 DEF Resumed, States
  <2>4. Sound(Resumed(loaded))
    BY <1>2, <1>4, <2>2, <2>3 DEF Resumed, Sound, States
  <2>5. TypeOK'
    BY <1>1, <1>4, <2>1, <2>4 DEF IInv, TypeOK, Sound
  <2>6. Remembered'
    BY <1>1, <1>2, <2>1, <2>3 DEF Remembered, Sound
  <2> QED
    BY <2>5, <2>6 DEF IInv
<1>5. 0 \in Ages
  BY GuardAssumption DEF Ages
<1> QED
  BY <1>3, <1>4, <1>5

\* The host and the operator change no history of restarts.
LEMMA OutsideIInv ==
    ASSUME IInv,
           \/ HostChanges
           \/ \E S \in SUBSET Music : OperatorStops(S) \/ OperatorStarts(S)
           \/ OperatorHolds \/ OperatorUnlatches
    PROVE  IInv'
<1>0. shaken' \in {"no", "earlier", "now"} /\ blind' = blind
  BY DEF HostChanges, OperatorStops, OperatorStarts, OperatorHolds, OperatorUnlatches,
         OperatorActs, IInv, TypeOK
<1>1. CASE HostChanges
  BY <1>0, <1>1 DEF HostChanges, runVars, IInv, TypeOK, Remembered, Sound
<1>2. ASSUME NEW S \in SUBSET Music, OperatorStops(S) PROVE IInv'
  <2>1. /\ running' \in SUBSET Music
        /\ stoppedBy' \in [Music -> {"nobody", "guard", "operator"}]
        /\ \A d \in Music : d \in running' <=> stoppedBy'[d] = "nobody"
    BY <1>2 DEF OperatorStops, IInv, TypeOK
  <2> QED
    BY <1>0, <1>2, <2>1 DEF OperatorStops, runVars, IInv, TypeOK, Remembered, Sound
<1>3. ASSUME NEW S \in SUBSET Music, OperatorStarts(S) PROVE IInv'
  <2>1. /\ running' \in SUBSET Music
        /\ stoppedBy' \in [Music -> {"nobody", "guard", "operator"}]
        /\ \A d \in Music : d \in running' <=> stoppedBy'[d] = "nobody"
    BY <1>3 DEF OperatorStarts, IInv, TypeOK
  <2> QED
    BY <1>0, <1>3, <2>1 DEF OperatorStarts, runVars, IInv, TypeOK, Remembered, Sound
<1>4. CASE OperatorHolds
  BY <1>0, <1>4 DEF OperatorHolds, runVars, IInv, TypeOK, Remembered, Sound
<1>5. CASE OperatorUnlatches
  <2> DEFINE s == [file EXCEPT !.latched = FALSE, !.resumes = {}]
  <2>1. s \in States /\ s.resumes = {}
    BY DEF IInv, TypeOK, States
  <2>2. Cardinality({}) = 0 /\ Cardinality(s.resumes) <= MaxResumes
    BY <2>1, FS_EmptySet, GuardAssumption
  <2>3. /\ file' = s /\ restarts' = {}
        /\ UNCHANGED <<running, stoppedBy, host, hold, pc, loaded, targets, calm>>
    BY <1>5 DEF OperatorUnlatches, runVars
  <2>4. TypeOK'
    BY <1>0, <2>1, <2>2, <2>3 DEF IInv, TypeOK
  <2>5. Remembered'
    BY <2>3 DEF IInv, Remembered, Sound
  <2> QED
    BY <2>4, <2>5 DEF IInv
<1> QED
  BY <1>1, <1>2, <1>3, <1>4, <1>5

\* The guard's invariant holds whatever the host, docker and the operator do.
LEMMA SpecIInv == Spec => []IInv
<1>1. IInv /\ [Next]_vars => IInv'
  <2> SUFFICES ASSUME IInv, [Next]_vars PROVE IInv'
    OBVIOUS
  <2>1. CASE UNCHANGED vars
    BY <2>1 DEF vars, runVars, IInv, TypeOK, Remembered, Sound
  <2> QED
    BY <2>1, RunIInv, DockerIInv, RecordIInv, OutsideIInv DEF Next
<1> QED
  BY InitIInv, <1>1, PTL DEF Spec

\* The variables of the guard keep their types, and the state file never lists more
\* restarts than are allowed.
THEOREM TypeCorrect == Spec => []TypeOK
<1>1. IInv => TypeOK
  BY DEF IInv
<1> QED
  BY <1>1, SpecIInv, PTL

\* Whatever the operator does and however Docker fails, no more automatic restarts are
\* completed in a window than MAX_AUTO_RESUMES.
THEOREM RestartsStayBounded == Spec => []RestartsBounded
<1>1. IInv => RestartsBounded
  <2> SUFFICES ASSUME IInv PROVE RestartsBounded
    OBVIOUS
  <2>1. file.resumes \in SUBSET Ages /\ Cardinality(file.resumes) <= MaxResumes
    BY DEF IInv, TypeOK, States
  <2>2. restarts \in SUBSET file.resumes /\ restarts \in SUBSET Ages
    BY DEF IInv, TypeOK, Remembered
  <2>3. Cardinality(restarts) <= Cardinality(file.resumes)
    BY <2>1, <2>2, OlderFacts, FS_Subset
  <2>4. Cardinality(restarts) \in Nat /\ Cardinality(file.resumes) \in Nat
    BY <2>1, <2>2, OlderFacts
  <2> QED
    BY <2>1, <2>3, <2>4, GuardAssumption DEF RestartsBounded
<1> QED
  BY <1>1, SpecIInv, PTL

-----------------------------------------------------------------------------
(* What the guard stopped, and what it waits for before it starts anything.  *)

\* In a run that nothing has disturbed, a run that stops still has every running container
\* before it, and a run that starts has started whatever is behind it. Between runs, as
\* long as all disturbances are mended, a container the guard stopped stands still with all
\* the others under a recorded pause.
PauseKept ==
    /\ shaken # "now" =>
        /\ pc # "failed"
        /\ pc = "stopping" => running \subseteq targets
        /\ pc = "starting" => Music \ targets \subseteq running
    /\ shaken = "no" /\ pc = "idle" =>
        \A c \in Music : stoppedBy[c] = "guard" => file.paused /\ running = {}

\* A recorded healthy streak is no longer than the calm it stands for.
StreakIsCalm == file.since # None => calm > file.since

\* A streak is recorded under a pause only. As long as every run that went past it has
\* judged the host, only a run about to record a pause leaves a streak behind that a
\* pressured host has ended.
CalmKept ==
    /\ file.since # None => file.paused
    /\ ~blind =>
        /\ pc = "starting" => calm = Stable + 1
        /\ pc # "stopping" => StreakIsCalm

\* One period older, the file differs in its instants only.
LEMMA NowKeeps ==
    ASSUME IInv
    PROVE  /\ Now.paused = file.paused /\ Now.latched = file.latched
           /\ Now.since = IF file.since \in 0 .. Stable - 1 THEN file.since + 1 ELSE file.since
  BY DEF Now, Aged, IInv, TypeOK, States

\* A run keeps what the guard stopped under a pause: it clears the pause only while
\* something runs, and then nothing has been stopped by the guard.
LEMMA RunPauseKept ==
    ASSUME IInv, PauseKept, Run
    PROVE  PauseKept'
<1>1. /\ Looks /\ UNCHANGED <<running, stoppedBy>>
      /\ shaken' = (IF shaken = "now" THEN "earlier" ELSE shaken)
  BY DEF Run, SeePressure, SeeRunning, SeeBarred, SeeDip, StartStreak, WaitOut, Latch, Resume,
         Looks
<1>2. Now \in States /\ Now.paused = file.paused
  BY NowFacts, NowKeeps DEF Sound
<1>3. shaken' # "now" /\ (shaken' = "no" => shaken = "no")
  BY <1>1 DEF IInv, TypeOK
<1>4. shaken' = "no" => \A c \in Music : stoppedBy[c] = "guard" => file.paused /\ running = {}
  BY <1>1, <1>3 DEF Looks, PauseKept
<1>5. CASE SeePressure
  BY <1>1, <1>5 DEF SeePressure, GoesOn, PauseKept
<1>6. CASE Resume
  BY <1>1, <1>6 DEF Resume, GoesOn, PauseKept
<1>7. CASE SeeRunning
  <2>1. pc' = "idle" /\ running # {}
    BY <1>7 DEF SeeRunning, Ends
  <2> QED
    BY <1>1, <1>4, <2>1 DEF PauseKept
<1>8. CASE SeeBarred \/ WaitOut \/ SeeDip \/ StartStreak \/ Latch
  <2>1. /\ file' \in {Now, Dipped, [Now EXCEPT !.since = 0], [Now EXCEPT !.latched = TRUE]}
        /\ pc' = "idle"
    BY <1>8 DEF SeeBarred, WaitOut, SeeDip, StartStreak, Latch, Ends
  <2>2. file'.paused = file.paused
    BY <1>2, <2>1 DEF Dipped, States
  <2> QED
    BY <1>1, <1>4, <2>1, <2>2 DEF PauseKept
<1> QED
  BY <1>5, <1>6, <1>7, <1>8 DEF Run

\* Docker calls work off the containers in turn, and the record comes after the last one.
LEMMA DockerPauseKept ==
    ASSUME IInv, PauseKept, DockerCall \/ DockerFails \/ RecordPause \/ RecordResume
    PROVE  PauseKept'
<1>1. CASE DockerCall
  BY <1>1, TurnIsMusic DEF DockerCall, Stop, Start, PauseKept, IInv, TypeOK
<1>2. CASE DockerFails
  BY <1>2 DEF DockerFails, PauseKept
<1>3. CASE RecordPause
  <2>1. file'.paused
    BY <1>3 DEF RecordPause, Paused, IInv, Remembered, Sound, States
  <2> QED
    BY <1>3, <2>1 DEF RecordPause, Recorded, PauseKept, IInv, TypeOK
<1>4. CASE RecordResume
  BY <1>4 DEF RecordResume, Recorded, PauseKept, IInv, TypeOK
<1> QED
  BY <1>1, <1>2, <1>3, <1>4

\* The operator between two runs takes over what the guard had stopped.
LEMMA OutsidePauseKept ==
    ASSUME IInv, PauseKept,
           \/ HostChanges
           \/ \E S \in SUBSET Music : OperatorStops(S) \/ OperatorStarts(S)
           \/ OperatorHolds \/ OperatorUnlatches
    PROVE  PauseKept'
<1>1. CASE HostChanges
  BY <1>1 DEF HostChanges, runVars, PauseKept
<1>2. ASSUME NEW S \in SUBSET Music, OperatorStops(S) PROVE PauseKept'
  BY <1>2 DEF OperatorStops, OperatorActs, runVars, PauseKept, IInv, TypeOK
<1>3. ASSUME NEW S \in SUBSET Music, OperatorStarts(S) PROVE PauseKept'
  BY <1>3 DEF OperatorStarts, OperatorActs, runVars, PauseKept, IInv, TypeOK
<1>4. CASE OperatorHolds
  BY <1>4 DEF OperatorHolds, OperatorActs, runVars, PauseKept, IInv, TypeOK
<1>5. CASE OperatorUnlatches
  <2>1. file'.paused = file.paused
    BY <1>5 DEF OperatorUnlatches, IInv, TypeOK, States
  <2> QED
    BY <1>5, <2>1 DEF OperatorUnlatches, OperatorActs, runVars, PauseKept, IInv, TypeOK
<1> QED
  BY <1>1, <1>2, <1>3, <1>4, <1>5

\* What the guard stops stays covered by a recorded pause until it runs again or an
\* operator decides about it; when a call fails or the operator acts during a run, it is so
\* again from the next stop or restart that comes to its record undisturbed.
THEOREM GuardStopsAreRemembered == Spec => []GuardStopRemembered
<1>1. Init => PauseKept
  BY DEF Init, PauseKept
<1>2. IInv /\ PauseKept /\ [Next]_vars => PauseKept'
  <2> SUFFICES ASSUME IInv, PauseKept, [Next]_vars PROVE PauseKept'
    OBVIOUS
  <2>1. CASE UNCHANGED vars
    BY <2>1 DEF vars, runVars, PauseKept
  <2> QED
    BY <2>1, RunPauseKept, DockerPauseKept, OutsidePauseKept DEF Next
<1>3. PauseKept => GuardStopRemembered
  BY DEF PauseKept, GuardStopRemembered
<1> QED
  BY <1>1, <1>2, <1>3, SpecIInv, PTL DEF Spec

\* An observation of a roomy host outlasts the streak as it ages; any other one ends the calm.
LEMMA LooksCalm ==
    ASSUME IInv, CalmKept, Run
    PROVE  /\ Now \in States
           /\ Now.since # None => Now.paused /\ Now.since \in 0 .. Stable
           /\ host = "roomy" => calm' \in 1 .. Stable + 1
           /\ host = "roomy" /\ ~blind /\ Now.since # None => calm' > Now.since
<1>1. Looks
  BY DEF Run, SeePressure, SeeRunning, SeeBarred, SeeDip, StartStreak, WaitOut, Latch, Resume, Looks
<1>2. (file.since # None => file.paused) /\ (~blind => StreakIsCalm)
  BY <1>1 DEF CalmKept, Looks
<1>3. /\ file.since \in (0 .. Stable) \cup {None} /\ calm \in 0 .. Stable + 1
      /\ None \notin 0 .. Stable /\ Stable \in Nat
  BY GuardAssumption DEF IInv, TypeOK, States
<1>4. Now \in States
  BY NowFacts DEF Sound
<1>5. host = "roomy" => calm' = IF calm > Stable THEN calm ELSE calm + 1
  BY <1>1 DEF Looks
<1>6. Now.since # None => file.since # None /\ Now.since \in 0 .. Stable /\ Now.since <= file.since + 1
  BY <1>3, NowKeeps
<1>7. host = "roomy" => calm' \in 1 .. Stable + 1
  BY <1>3, <1>5
<1>8. host = "roomy" /\ ~blind /\ Now.since # None => calm' > Now.since
  BY <1>2, <1>3, <1>5, <1>6 DEF StreakIsCalm
<1> QED
  BY <1>2, <1>4, <1>6, <1>7, <1>8, NowKeeps

\* A run that ends keeps the calm if the streak it writes, when it has judged the host, is one.
LEMMA EndsCalmKept ==
    ASSUME NEW s, Ends(s), s.since # None => s.paused,
           ~blind /\ ~Barred /\ s.since # None => calm' > s.since
    PROVE  CalmKept'
<1>1. file' = s /\ pc' = "idle" /\ blind' = (s.since # None /\ (blind \/ Barred))
  BY DEF Ends
<1>2. ~blind' => StreakIsCalm'
  BY <1>1, Zenon DEF StreakIsCalm
<1> QED
  BY <1>1, <1>2 DEF CalmKept

\* A run goes on with a streak only while it finds the host roomy, and restarts only at
\* the end of one.
LEMMA RunCalmKept ==
    ASSUME IInv, CalmKept, Run
    PROVE  CalmKept'
<1>1. /\ Now \in States
      /\ Now.since # None => Now.paused /\ Now.since \in 0 .. Stable
      /\ host = "roomy" => calm' \in 1 .. Stable + 1
      /\ host = "roomy" /\ ~blind /\ Now.since # None => calm' > Now.since
  BY LooksCalm
<1>2. CASE SeePressure
  BY <1>1, <1>2 DEF SeePressure, GoesOn, CalmKept
<1>3. CASE SeeRunning
  <2> DEFINE s == IF Now.paused THEN [Now EXCEPT !.paused = FALSE, !.since = None] ELSE Now
  <2>1. s.since = None
    BY <1>1 DEF States
  <2>2. Ends(s)
    BY <1>3 DEF SeeRunning
  <2> QED
    BY <2>1, <2>2, EndsCalmKept
<1>4. CASE SeeBarred
  BY <1>1, <1>4, EndsCalmKept DEF SeeBarred
<1>5. CASE SeeDip
  <2>1. Dipped.since = None
    BY <1>1 DEF Dipped, States
  <2> QED
    BY <1>5, <2>1, EndsCalmKept DEF SeeDip
<1>6. CASE StartStreak
  <2> DEFINE s == [Now EXCEPT !.since = 0]
  <2>1. Ends(s) /\ host = "roomy" /\ Now.paused
    BY <1>6 DEF StartStreak, EnoughToResume, Barred
  <2>2. s.since = 0 /\ s.paused
    BY <1>1, <2>1 DEF States
  <2>3. calm' > s.since
    BY <1>1, <2>1, <2>2, GuardAssumption
  <2> QED
    BY <2>1, <2>2, <2>3, EndsCalmKept
<1>7. CASE WaitOut
  <2>1. Ends(Now) /\ host = "roomy"
    BY <1>7 DEF WaitOut, EnoughToResume
  <2> QED
    BY <1>1, <2>1, EndsCalmKept
<1>8. CASE Latch
  <2> DEFINE s == [Now EXCEPT !.latched = TRUE]
  <2>1. Ends(s) /\ host = "roomy"
    BY <1>8 DEF Latch, EnoughToResume
  <2>2. s.since = Now.since /\ s.paused = Now.paused
    BY <1>1 DEF States
  <2> QED
    BY <1>1, <2>1, <2>2, EndsCalmKept
<1>9. CASE Resume
  <2>1. /\ file' = Now /\ pc' = "starting" /\ blind' = blind /\ host = "roomy"
        /\ Now.since = Stable
    BY <1>9 DEF Resume, GoesOn, EnoughToResume, WaitedOut
  <2>2. Now.since # None
    BY <2>1, GuardAssumption
  <2>3. ~blind => calm' = Stable + 1
    BY <1>1, <2>1, <2>2, GuardAssumption
  <2> QED
    BY <1>1, <2>1, <2>3 DEF CalmKept, StreakIsCalm
<1> QED
  BY <1>2, <1>3, <1>4, <1>5, <1>6, <1>7, <1>8, <1>9 DEF Run

\* Nothing but a run reads or extends a streak; one that dies of a pressure it saw is
\* noted as having left the streak behind.
LEMMA OtherCalmKept ==
    ASSUME IInv, CalmKept,
           \/ DockerCall \/ DockerFails \/ RecordPause \/ RecordResume
           \/ HostChanges
           \/ \E S \in SUBSET Music : OperatorStops(S) \/ OperatorStarts(S)
           \/ OperatorHolds \/ OperatorUnlatches
    PROVE  CalmKept'
<1>1. CASE DockerCall
  BY <1>1 DEF DockerCall, CalmKept, StreakIsCalm
<1>2. CASE DockerFails
  <2>1. /\ UNCHANGED <<file, calm>> /\ pc' = "failed"
        /\ blind' = (blind \/ (pc = "stopping" /\ file.since # None))
    BY <1>2 DEF DockerFails
  <2>2. ~blind' => StreakIsCalm'
    BY <2>1, Zenon DEF CalmKept, StreakIsCalm
  <2> QED
    BY <2>1, <2>2 DEF CalmKept
<1>3. CASE RecordPause \/ RecordResume
  <2>1. file'.since = None /\ pc' = "idle"
    BY <1>3 DEF RecordPause, RecordResume, Recorded, Paused, Resumed, IInv, Remembered, Sound, States
  <2> QED
    BY <2>1 DEF CalmKept, StreakIsCalm
<1>4. CASE HostChanges
  BY <1>4 DEF HostChanges, runVars, CalmKept, StreakIsCalm
<1>5. ASSUME NEW S \in SUBSET Music, OperatorStops(S) \/ OperatorStarts(S) PROVE CalmKept'
  BY <1>5 DEF OperatorStops, OperatorStarts, OperatorActs, runVars, CalmKept, StreakIsCalm
<1>6. CASE OperatorHolds
  BY <1>6 DEF OperatorHolds, OperatorActs, runVars, CalmKept, StreakIsCalm
<1>7. CASE OperatorUnlatches
  <2>1. file'.since = file.since /\ file'.paused = file.paused
    BY <1>7 DEF OperatorUnlatches, IInv, TypeOK, States
  <2> QED
    BY <1>7, <2>1 DEF OperatorUnlatches, OperatorActs, runVars, CalmKept, StreakIsCalm
<1> QED
  BY <1>1, <1>2, <1>3, <1>4, <1>5, <1>6, <1>7

\* A container is started by the guard only when every run of a whole stable period, up to
\* the one that starts it, has found the host above the resume lines; the operator may
\* start, stop, hold and unlatch at any moment of it and Docker calls may fail, as long
\* as no run goes past the recorded streak without judging the host.
THEOREM RestartsWaitForCalm == Spec => StartsAfterCalm
<1>1. Init => CalmKept
  BY DEF Init, NoState, CalmKept, StreakIsCalm
<1>2. IInv /\ CalmKept /\ [Next]_vars => CalmKept'
  <2> SUFFICES ASSUME IInv, CalmKept, [Next]_vars PROVE CalmKept'
    OBVIOUS
  <2>1. CASE UNCHANGED vars
    BY <2>1 DEF vars, runVars, CalmKept, StreakIsCalm
  <2> QED
    BY <2>1, RunCalmKept, OtherCalmKept DEF Next
<1>3. CalmKept => [~blind => \A c \in Music : GuardStarts(c) => calm = Stable + 1]_vars
  BY DEF CalmKept, GuardStarts
<1> QED
  BY <1>1, <1>2, <1>3, SpecIInv, PTL DEF Spec, StartsAfterCalm

-----------------------------------------------------------------------------
(* The memory ceiling of the kernel, for every host and every use of memory *)

\* How a target stands to the amount it was made from: a multiple of the grain within
\* the floor and the ceiling, and at most one grain below the clamped amount.
RoundedFrom(t, raw) ==
    /\ t \in Floor .. Ceiling
    /\ t % Grain = 0
    /\ t = Floor \/ t <= raw
    /\ t = Ceiling \/ t > raw - Grain

\* Clamping and then rounding down gives such a target.
LEMMA ClampedGrains ==
    ASSUME NEW raw \in Int
    PROVE  RoundedFrom(Grains(Clamp(raw)), raw)
<1> USE DEF Floor, Ceiling, Grain
<1> DEFINE c == Clamp(raw)
           g == Grains(c)
<1>1. c \in Floor .. Ceiling /\ (c = Floor \/ c <= raw) /\ (c = Ceiling \/ c >= raw)
  BY DEF Clamp
<1> HIDE DEF c
<1>2. g \in Floor .. Ceiling /\ g % Grain = 0 /\ g <= c /\ g > c - Grain
  BY <1>1 DEF Grains
<1>3. (c = Floor => g = Floor) /\ (c = Ceiling => g = Ceiling)
  BY <1>1 DEF Grains
<1> HIDE DEF g
<1>4. (g = Floor \/ g <= raw) /\ (g = Ceiling \/ g > raw - Grain)
  BY <1>1, <1>2, <1>3
<1>5. RoundedFrom(g, raw)
  BY <1>2, <1>4 DEF RoundedFrom
<1> QED
  BY <1>5 DEF g, c

\* The target of a run stands in this way to what was read.
LEMMA TargetFacts ==
    ASSUME NEW u \in Nat, avail \in Nat
    PROVE  RoundedFrom(Target(u), u + avail - Reserve)
<1>1. u + avail - Reserve \in Int
  BY DEF Reserve
<1> QED
  BY <1>1, ClampedGrains DEF Target

\* What every reachable state satisfies.
MemoryInv == MemoryTypeOK /\ LimitFollowsBasis /\ ReadingsStand /\ GrowthLeavesReserve

\* The ceiling starts at its floor.
LEMMA MemoryStart == MemoryInit => MemoryInv
<1> SUFFICES ASSUME MemoryInit PROVE MemoryInv
  OBVIOUS
<1>1. limit = 320 /\ spare \in Nat /\ basis = 620
  BY MemoryAssumption DEF MemoryInit, Floor, Reserve
<1>2. MemoryTypeOK
  <2>1. limit % Grain = 0
    BY <1>1 DEF Grain
  <2>2. settled \in BOOLEAN /\ killed \in BOOLEAN /\ stage \in {"idle", "looked", "measured"}
    BY DEF MemoryInit
  <2>3. /\ limit \in Floor .. Ceiling /\ basis \in Nat
        /\ ram \in 0 .. Ceiling /\ swap \in 0 .. SwapSize
        /\ avail \in Nat /\ usage \in 0 .. Ceiling /\ held \in 0 .. Ceiling /\ grown \in Int
    BY <1>1 DEF MemoryInit, Floor, Ceiling, SwapSize
  <2> QED
    BY <1>1, <2>1, <2>2, <2>3 DEF MemoryTypeOK
<1>3. LimitFollowsBasis
  BY <1>1 DEF LimitFollowsBasis, Floor, Ceiling, Reserve, Grain
<1>4. ReadingsStand /\ GrowthLeavesReserve
  BY DEF MemoryInit, ReadingsStand, GrowthLeavesReserve
<1> QED
  BY <1>2, <1>3, <1>4 DEF MemoryInv

\* A run that reads the host finds no pressure and what is spare, less what is held.
LEMMA ReadHostInv ==
    ASSUME MemoryInv, ReadHost
    PROVE  MemoryInv'
<1>1. MemoryTypeOK /\ LimitFollowsBasis
  BY DEF MemoryInv
<1>2. /\ stage' = "looked" /\ avail' = spare - ram /\ held' = ram
      /\ settled' = TRUE /\ grown' = 0 /\ spare - ram >= PauseLine
      /\ UNCHANGED <<limit, spare, ram, swap, usage, basis, killed>>
  BY DEF ReadHost, NoPressure
<1>3. avail' \in Nat /\ avail' >= PauseLine /\ avail' + held' = spare
  BY <1>1, <1>2 DEF MemoryTypeOK, PauseLine, Ceiling
<1>4. MemoryTypeOK' /\ LimitFollowsBasis'
  BY <1>1, <1>2, <1>3 DEF MemoryTypeOK, LimitFollowsBasis
<1>5. ReadingsStand' /\ GrowthLeavesReserve'
  BY <1>2, <1>3 DEF ReadingsStand, GrowthLeavesReserve
<1> QED
  BY <1>4, <1>5 DEF MemoryInv

\* The numbers of a run that is over are gone.
LEMMA RunEndsFacts ==
    ASSUME NEW g \in Int, RunEnds(g)
    PROVE  /\ stage' = "idle" /\ avail' \in Nat /\ grown' \in Int
           /\ usage' \in 0 .. Ceiling /\ held' \in 0 .. Ceiling
           /\ grown' = IF settled THEN g ELSE 0
           /\ ReadingsStand'
<1>1. stage' = "idle" /\ avail' = 0 /\ usage' = 0 /\ held' = 0
      /\ grown' = IF settled THEN g ELSE 0
  BY DEF RunEnds
<1>2. ReadingsStand'
  BY <1>1 DEF ReadingsStand
<1> QED
  BY <1>1, <1>2 DEF Ceiling

\* A limit that is left alone is within its steps of the target.
LEMMA ReadKernelInv ==
    ASSUME MemoryInv, ReadKernel
    PROVE  MemoryInv'
<1> USE DEF Floor, Ceiling, Reserve, LowerStep
<1>1. MemoryTypeOK /\ LimitFollowsBasis /\ ReadingsStand
  BY DEF MemoryInv
<1> DEFINE t == Target(ram)
<1>2. /\ t \in Floor .. Ceiling
      /\ t = Floor \/ t <= ram + avail - Reserve
  BY <1>1, TargetFacts DEF MemoryTypeOK, RoundedFrom
<1>3. stage = "looked" /\ UNCHANGED <<limit, spare, ram, swap, settled, basis, killed>>
  BY DEF ReadKernel
<1>4. LimitFollowsBasis'
  BY <1>1, <1>3 DEF LimitFollowsBasis
<1>5. CASE WithinSteps(t)
  <2>1. RunEnds(ram - held)
    BY <1>5 DEF ReadKernel
  <2>2. ram - held \in Int
    BY <1>1 DEF MemoryTypeOK
  <2>3. /\ stage' = "idle" /\ avail' \in Nat /\ grown' \in Int
        /\ usage' \in 0 .. Ceiling /\ held' \in 0 .. Ceiling
        /\ grown' = IF settled THEN ram - held ELSE 0
        /\ ReadingsStand'
    BY <2>1, <2>2, RunEndsFacts
  <2>4. MemoryTypeOK'
    BY <1>1, <1>3, <2>3 DEF MemoryTypeOK
  <2>5. limit - LowerStep < t
    BY <1>5 DEF WithinSteps
  <2>6. settled => avail + held = spare
    BY <1>1, <1>3 DEF ReadingsStand
  <2> HIDE DEF t
  <2>7. settled => limit < Floor + LowerStep \/ spare + (ram - held) - limit > Reserve - LowerStep
    BY <1>1, <1>2, <2>5, <2>6 DEF MemoryTypeOK
  <2>8. GrowthLeavesReserve'
    BY <1>3, <2>3, <2>7 DEF GrowthLeavesReserve
  <2> QED
    BY <1>4, <2>3, <2>4, <2>8 DEF MemoryInv
<1>6. CASE ~WithinSteps(t)
  <2>1. stage' = "measured" /\ usage' = ram /\ UNCHANGED <<avail, held, grown>>
    BY <1>6 DEF ReadKernel
  <2>2. ~WithinSteps(Target(usage))'
    BY <1>3, <1>6, <2>1 DEF WithinSteps, Target
  <2>3. MemoryTypeOK'
    BY <1>1, <1>3, <2>1 DEF MemoryTypeOK
  <2>4. ReadingsStand'
    BY <1>1, <1>3, <2>1, <2>2 DEF ReadingsStand
  <2>5. GrowthLeavesReserve'
    BY <2>1 DEF GrowthLeavesReserve
  <2> QED
    BY <1>4, <2>3, <2>4, <2>5 DEF MemoryInv
<1> QED
  BY <1>5, <1>6

\* A move of the limit leaves it the rounded target of what was read.
LEMMA UpdateInv ==
    ASSUME MemoryInv, Update
    PROVE  MemoryInv'
<1> USE DEF Floor, Ceiling, Grain, Reserve, LowerStep, SwapSize
<1>1. MemoryTypeOK /\ LimitFollowsBasis /\ ReadingsStand
  BY DEF MemoryInv
<1> DEFINE t == Target(usage)
<1>2. /\ t \in Floor .. Ceiling
      /\ t % Grain = 0
      /\ t = Floor \/ t <= usage + avail - Reserve
      /\ t = Ceiling \/ t > usage + avail - Reserve - Grain
  BY <1>1, TargetFacts DEF MemoryTypeOK, RoundedFrom
<1>3. /\ stage = "measured" /\ MoveLimit(t) /\ basis' = usage + avail
      /\ RunEnds(usage - held) /\ UNCHANGED <<spare, settled>>
  BY DEF Update
<1> HIDE DEF t
<1>4. /\ limit' = t
      /\ ram' \in 0 .. Ceiling /\ swap' \in 0 .. SwapSize /\ killed' \in BOOLEAN
  BY <1>1, <1>2, <1>3 DEF MoveLimit, MemoryTypeOK
<1>5. usage - held \in Int
  BY <1>1 DEF MemoryTypeOK
<1>6. /\ stage' = "idle" /\ avail' \in Nat /\ grown' \in Int
      /\ usage' \in 0 .. Ceiling /\ held' \in 0 .. Ceiling
      /\ grown' = IF settled THEN usage - held ELSE 0
      /\ ReadingsStand'
  BY <1>3, <1>5, RunEndsFacts
<1>7. MemoryTypeOK'
  BY <1>1, <1>2, <1>3, <1>4, <1>6 DEF MemoryTypeOK
<1>8. LimitFollowsBasis'
  BY <1>1, <1>2, <1>3, <1>4 DEF LimitFollowsBasis, MemoryTypeOK
<1>9. GrowthLeavesReserve'
  <2>1. settled => avail + held = spare
    BY <1>1, <1>3 DEF ReadingsStand
  <2>2. settled => t < Floor + LowerStep \/ spare + (usage - held) - t > Reserve - LowerStep
    BY <1>1, <1>2, <2>1 DEF MemoryTypeOK
  <2> QED
    BY <1>3, <1>4, <1>6, <2>2 DEF GrowthLeavesReserve
<1> QED
  BY <1>6, <1>7, <1>8, <1>9 DEF MemoryInv

\* A run that gives up leaves everything as it was.
LEMMA GiveUpInv ==
    ASSUME MemoryInv, GiveUp
    PROVE  MemoryInv'
<1>1. MemoryTypeOK /\ LimitFollowsBasis
  BY DEF MemoryInv
<1>2. RunEnds(0) /\ settled' = FALSE /\ UNCHANGED <<limit, spare, ram, swap, basis, killed>>
  BY DEF GiveUp
<1>3. /\ stage' = "idle" /\ avail' \in Nat /\ grown' \in Int
      /\ usage' \in 0 .. Ceiling /\ held' \in 0 .. Ceiling
      /\ ReadingsStand'
  BY <1>2, RunEndsFacts
<1>4. MemoryTypeOK' /\ LimitFollowsBasis'
  BY <1>1, <1>2, <1>3 DEF MemoryTypeOK, LimitFollowsBasis
<1>5. GrowthLeavesReserve'
  BY <1>2 DEF GrowthLeavesReserve
<1> QED
  BY <1>3, <1>4, <1>5 DEF MemoryInv

\* Every step keeps the limit a function of the readings it was chosen for.
LEMMA MemoryStep == MemoryInv /\ [MemoryNext]_memoryVars => MemoryInv'
<1> SUFFICES ASSUME MemoryInv, [MemoryNext]_memoryVars PROVE MemoryInv'
  OBVIOUS
<1>1. CASE ReadHost \/ ReadKernel \/ Update \/ GiveUp
  BY <1>1, ReadHostInv, ReadKernelInv, UpdateInv, GiveUpInv
<1>2. ASSUME NEW s \in Spares, SpareChanges(s) PROVE MemoryInv'
  <2>1. /\ spare' \in Nat /\ settled' = FALSE /\ grown' = 0
        /\ UNCHANGED <<limit, ram, swap, stage, avail, usage, held, basis, killed>>
    BY <1>2, MemoryAssumption DEF SpareChanges, runOfGuard
  <2>2. MemoryTypeOK'
    <3>1. settled' \in BOOLEAN
      BY <2>1, Zenon
    <3>2. grown' \in Int
      BY <2>1
    <3>3. MemoryTypeOK
      BY DEF MemoryInv
    <3> QED
      BY <2>1, <3>1, <3>2, <3>3 DEF MemoryTypeOK
  <2>3. LimitFollowsBasis'
    BY <2>1 DEF MemoryInv, LimitFollowsBasis
  <2>4. ReadingsStand' /\ GrowthLeavesReserve'
    BY <2>1 DEF MemoryInv, ReadingsStand, GrowthLeavesReserve, WithinSteps, Target
  <2> QED
    BY <2>2, <2>3, <2>4 DEF MemoryInv
<1>3. ASSUME NEW r \in Amounts, NEW w \in Amounts, KernelUses(r, w) PROVE MemoryInv'
  <2>1. limit \in Floor .. Ceiling /\ r \in Nat /\ w \in Nat
    BY MemoryAssumption DEF MemoryInv, MemoryTypeOK
  <2>2. ram' \in 0 .. Ceiling /\ swap' \in 0 .. SwapSize
    BY <1>3, <2>1 DEF KernelUses, Floor, Ceiling, SwapSize
  <2> QED
    BY <1>3, <2>2 DEF MemoryInv, KernelUses, MemoryTypeOK, LimitFollowsBasis, ReadingsStand,
                      GrowthLeavesReserve, runOfGuard, WithinSteps, Target
<1>4. CASE UNCHANGED memoryVars
  BY <1>4 DEF MemoryInv, memoryVars, runOfGuard, MemoryTypeOK, LimitFollowsBasis,
              ReadingsStand, GrowthLeavesReserve, WithinSteps, Target
<1> QED
  BY <1>1, <1>2, <1>3, <1>4 DEF MemoryNext

\* The memory invariant holds on every host.
LEMMA MemoryHolds == MemorySpec => []MemoryInv
BY MemoryStart, MemoryStep, PTL DEF MemorySpec

\* The variables keep their types: the ceiling stays a multiple of the grain between
\* the floor and the ceiling, on every host.
THEOREM MemoryTypeCorrect == MemorySpec => []MemoryTypeOK
<1>1. MemoryInv => MemoryTypeOK
  BY DEF MemoryInv
<1> QED
  BY <1>1, MemoryHolds, PTL

\* After a run of the guard the kernel may grow to its ceiling and the host still keeps
\* the reserve, short of at most the lower step and of the growth between two readings.
THEOREM ReserveKept == MemorySpec => []GrowthLeavesReserve
<1>1. MemoryInv => GrowthLeavesReserve
  BY DEF MemoryInv
<1> QED
  BY <1>1, MemoryHolds, PTL

\* Only an update moves the limit or kills the kernel.
LEMMA OnlyUpdateMoves ==
    ASSUME [MemoryNext]_memoryVars, ~Update
    PROVE  limit' = limit /\ killed' = killed
BY DEF MemoryNext, ReadHost, ReadKernel, GiveUp, SpareChanges, KernelUses, memoryVars

\* The limit is raised only when clearly more, and lowered only when less, is taken for spare.
LEMMA MovesStep ==
    ASSUME MemoryInv, [MemoryNext]_memoryVars
    PROVE  MoveIsDue
<1> USE DEF Floor, Ceiling, Grain, Reserve, LowerStep, RaiseStep, SwapSize
<1>1. MemoryTypeOK /\ LimitFollowsBasis /\ ReadingsStand
  BY DEF MemoryInv
<1>2. CASE Update
  <2> DEFINE t == Target(usage)
  <2>1. /\ t \in Floor .. Ceiling
        /\ t = Floor \/ t <= usage + avail - Reserve
        /\ t = Ceiling \/ t > usage + avail - Reserve - Grain
    BY <1>1, TargetFacts DEF MemoryTypeOK, RoundedFrom
  <2>2. limit' = t /\ ~(limit - LowerStep < t /\ t < limit + RaiseStep)
    BY <1>1, <1>2 DEF Update, MoveLimit, ReadingsStand, WithinSteps
  <2> HIDE DEF t
  <2>3. limit' > limit => t >= limit + RaiseStep
    BY <1>1, <2>1, <2>2 DEF MemoryTypeOK
  <2>4. limit' < limit => t <= limit - LowerStep
    BY <1>1, <2>1, <2>2 DEF MemoryTypeOK
  <2> QED
    BY <1>1, <2>1, <2>2, <2>3, <2>4 DEF MemoryTypeOK, LimitFollowsBasis, MoveIsDue
<1>3. CASE ~Update
  <2>1. limit' = limit
    BY <1>3, OnlyUpdateMoves
  <2> QED
    BY <1>1, <2>1 DEF MemoryTypeOK, MoveIsDue
<1> QED
  BY <1>2, <1>3

\* A process dies of a lower limit only when swap is nearly used up, or when it has
\* grown since its use was read.
LEMMA LoweringStep ==
    ASSUME MemoryInv, [MemoryNext]_memoryVars
    PROVE  KernelIsSpared
<1> USE DEF Floor, Ceiling, SwapSize, Reserve, PauseLine, Grain
<1>1. MemoryTypeOK /\ ReadingsStand
  BY DEF MemoryInv
<1>2. CASE Update
  <2> DEFINE t == Target(usage)
  <2>1. t \in Floor .. Ceiling /\ (t = Ceiling \/ t > usage + avail - Reserve - Grain)
    BY <1>1, TargetFacts DEF MemoryTypeOK, RoundedFrom
  <2>2. killed' # killed => ~(swap + (IF ram > t THEN ram - t ELSE 0) <= SwapSize)
    BY <1>1, <1>2 DEF Update, MoveLimit, MemoryTypeOK
  <2>3. avail >= PauseLine
    BY <1>1, <1>2 DEF Update, ReadingsStand
  <2> HIDE DEF t
  <2>4. ram \in 0 .. Ceiling /\ swap \in 0 .. SwapSize /\ avail \in Nat /\ usage \in Nat
    BY <1>1 DEF MemoryTypeOK
  <2>5. ~(swap + (IF ram > t THEN ram - t ELSE 0) <= SwapSize) =>
          swap > SwapSize - (Reserve - PauseLine) - Grain - (ram - usage)
    BY <2>1, <2>3, <2>4
  <2> QED
    BY <2>2, <2>5 DEF KernelIsSpared
<1>3. CASE ~Update
  BY <1>3, OnlyUpdateMoves DEF KernelIsSpared
<1> QED
  BY <1>2, <1>3

\* The ceiling never moves against the host, up only when a run takes more for spare than
\* at the last move by nearly the raise step, down only when it takes less by the grain,
\* and its move kills only a kernel whose swap is nearly full or that has grown meanwhile.
THEOREM MovesAreSafe == MemorySpec => SafeMoves
<1>1. MemoryInv /\ [MemoryNext]_memoryVars => [MoveIsDue]_memoryVars
  BY MovesStep
<1>2. MemoryInv /\ [MemoryNext]_memoryVars => [KernelIsSpared]_memoryVars
  BY LoweringStep
<1> QED
  BY <1>1, <1>2, MemoryHolds, PTL DEF MemorySpec, SafeMoves
=============================================================================
