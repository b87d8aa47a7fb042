--------------------------- MODULE PriorityGuard ----------------------------
(***************************************************************************)
(* deploy/priority-guard.py: the oneshot service that stops B-Music when   *)
(* the host is under pressure and restarts it afterwards, beside an        *)
(* operator who starts and stops the same containers.  Runs never overlap  *)
(* (one systemd unit); inside a run every Docker call and every write of   *)
(* the state file is a step.  Time is counted in runs: every run makes     *)
(* every recorded instant one older.                                       *)
(***************************************************************************)
EXTENDS Naturals, FiniteSets

CONSTANTS
    App, Kernel,    \* the two containers
    None,           \* JSON null
    Stable,         \* RESUME_STABLE_SECONDS, in runs
    Window,         \* AUTO_RESUME_WINDOW_SECONDS, in runs
    MaxResumes      \* MAX_AUTO_RESUMES

Music == {App, Kernel}

ASSUME GuardAssumption ==
    /\ App # Kernel
    /\ Stable \in Nat /\ Window \in Nat \ {0} /\ MaxResumes \in Nat
    /\ None \notin Nat

VARIABLES
    running,    \* containers whose State.Running is true
    stoppedBy,  \* who stopped each container that is not running
    host,       \* what the measurements of a run would say
    hold,       \* private/priority-hold exists
    file,       \* private/priority-state.json; instants are ages in runs
    pc,         \* where the run is
    loaded,     \* the state the run loaded and will write back
    targets,    \* containers the run still has to stop or start
    calm,       \* history: consecutive roomy observations up to now, capped
    restarts,   \* history: ages of the restarts the guard completed
    shaken,     \* history: a call failed or the operator acted, in the run or in one before it
    blind       \* history: a run has gone past the recorded streak without judging the host

runVars == <<pc, loaded, targets>>
vars    == <<running, stoppedBy, host, hold, file, runVars, calm, restarts, shaken, blind>>

Ages   == 0 .. Window - 1
States == [paused : BOOLEAN, since : (0..Stable) \cup {None},
           resumes : SUBSET Ages, latched : BOOLEAN]

TypeOK ==
    /\ running \subseteq Music
    /\ stoppedBy \in [Music -> {"nobody", "guard", "operator"}]
    /\ \A c \in Music : c \in running <=> stoppedBy[c] = "nobody"
    /\ host \in {"pressure", "tight", "roomy"}
    /\ hold \in BOOLEAN
    /\ file \in States /\ loaded \in States
    /\ Cardinality(file.resumes) <= MaxResumes
    /\ pc \in {"idle", "failed", "stopping", "starting"}
    /\ targets \subseteq Music
    /\ calm \in 0 .. Stable + 1
    /\ restarts \subseteq Ages
    /\ shaken \in {"no", "earlier", "now"}
    /\ blind \in BOOLEAN

NoState == [paused |-> FALSE, since |-> None, resumes |-> {}, latched |-> FALSE]

Init ==
    /\ running = Music
    /\ stoppedBy = [c \in Music |-> "nobody"]
    /\ host = "roomy" /\ hold = FALSE
    /\ file = NoState /\ loaded = NoState
    /\ pc = "idle" /\ targets = {}
    /\ calm = 0 /\ restarts = {} /\ shaken = "no" /\ blind = FALSE

-----------------------------------------------------------------------------
(* Time and decisions                                                      *)

Older(ages) == {a + 1 : a \in ages} \cap Ages

\* The state load_state returns to a run one period later.
Aged(s) ==
    [s EXCEPT !.since = IF @ \in 0 .. Stable - 1 THEN @ + 1 ELSE @,
              !.resumes = Older(@)]

Now == Aged(file)

\* The guard is not to restart anything.
Barred == ~Now.paused \/ Now.latched \/ hold

\* Above the resume lines, not only above the pause lines.
EnoughToResume == host = "roomy"

\* Mutant: one restart too many.
LatchDueLate == Cardinality(Now.resumes) > MaxResumes

LatchDue == Cardinality(Now.resumes) >= MaxResumes

\* Mutant: a dip leaves the start of the healthy streak in place.
DippedKept == Now

\* A dip below the resume lines ends the healthy streak.
Dipped == [Now EXCEPT !.since = None]

\* Mutant: the pause is not recorded.
PausedForgotten(s) == [s EXCEPT !.since = None]

Paused(s) == [s EXCEPT !.paused = TRUE, !.since = None]

\* Mutant: only the last restart is remembered.
ResumedOnce(s) == [s EXCEPT !.paused = FALSE, !.since = None, !.resumes = {0}]

Resumed(s) == [s EXCEPT !.paused = FALSE, !.since = None, !.resumes = @ \cup {0}]

\* Mutant: every run starts the healthy streak anew.
WaitedOutNever == FALSE

WaitedOut == Now.since = Stable

-----------------------------------------------------------------------------
(* A run of main()                                                         *)

\* inspect both containers, load the state and measure the host.
Looks ==
    /\ pc \in {"idle", "failed"}
    /\ loaded' = Now
    /\ calm' = IF host # "roomy" THEN 0 ELSE IF calm > Stable THEN calm ELSE calm + 1
    /\ shaken' = IF shaken = "now" THEN "earlier" ELSE shaken
    /\ UNCHANGED <<stoppedBy, running, host, hold>>

\* A run that at most writes the state.
Ends(s) ==
    /\ file' = s
    /\ pc' = "idle" /\ targets' = {}
    /\ restarts' = Older(restarts)
    /\ blind' = (s.since # None /\ (blind \/ Barred))

\* A run that goes on to call Docker.
GoesOn(phase, containers) ==
    /\ file' = Now
    /\ pc' = phase /\ targets' = containers
    /\ restarts' = Older(restarts)
    /\ blind' = blind

SeePressure ==
    /\ Looks /\ running # {} /\ host = "pressure"
    /\ GoesOn("stopping", running)

\* Running although paused: an operator started B-Music, the pause is over.
SeeRunning ==
    /\ Looks /\ running # {} /\ host # "pressure"
    /\ Ends(IF Now.paused THEN [Now EXCEPT !.paused = FALSE, !.since = None] ELSE Now)

SeeBarred ==
    /\ Looks /\ running = {} /\ Barred
    /\ Ends(Now)

SeeDip ==
    /\ Looks /\ running = {} /\ ~Barred /\ ~EnoughToResume
    /\ Ends(Dipped)

StartStreak ==
    /\ Looks /\ running = {} /\ ~Barred /\ EnoughToResume /\ Now.since = None
    /\ Ends([Now EXCEPT !.since = 0])

WaitOut ==
    /\ Looks /\ running = {} /\ ~Barred /\ EnoughToResume
    /\ Now.since # None /\ ~WaitedOut
    /\ Ends(Now)

Latch ==
    /\ Looks /\ running = {} /\ ~Barred /\ EnoughToResume /\ WaitedOut /\ LatchDue
    /\ Ends([Now EXCEPT !.latched = TRUE])

Resume ==
    /\ Looks /\ running = {} /\ ~Barred /\ EnoughToResume /\ WaitedOut /\ ~LatchDue
    /\ GoesOn("starting", Music)

Run == SeePressure \/ SeeRunning \/ SeeBarred \/ SeeDip \/ StartStreak \/ WaitOut \/ Latch \/ Resume

-----------------------------------------------------------------------------
(* Docker calls and the state written after them                           *)

Stop(c) ==
    /\ running' = running \ {c}
    /\ stoppedBy' = IF c \in running THEN [stoppedBy EXCEPT ![c] = "guard"] ELSE stoppedBy

Start(c) ==
    /\ running' = running \cup {c}
    /\ stoppedBy' = [stoppedBy EXCEPT ![c] = "nobody"]

\* pause_targets goes App then Kernel, resume_targets Kernel then App.
Turn ==
    IF pc = "stopping"
    THEN IF App \in targets THEN App ELSE Kernel
    ELSE IF Kernel \in targets THEN Kernel ELSE App

DockerCall ==
    /\ targets # {}
    /\ \/ pc = "stopping" /\ Stop(Turn)
       \/ pc = "starting" /\ Start(Turn)
    /\ targets' = targets \ {Turn}
    /\ UNCHANGED <<host, hold, file, pc, loaded, calm, restarts, shaken, blind>>

\* The call raises or the unit is killed, with or without effect; nothing is written.
DockerFails ==
    /\ targets # {}
    /\ \/ pc = "stopping" /\ Stop(Turn)
       \/ pc = "starting" /\ Start(Turn)
       \/ UNCHANGED <<running, stoppedBy>>
    /\ pc' = "failed" /\ targets' = {}
    /\ shaken' = "now"
    /\ blind' = (blind \/ (pc = "stopping" /\ file.since # None))
    /\ UNCHANGED <<host, hold, file, loaded, calm, restarts>>

\* A run that comes to its record undisturbed has made containers and file agree again.
Recorded ==
    /\ pc' = "idle"
    /\ shaken' = IF shaken = "now" THEN "now" ELSE "no"
    /\ blind' = FALSE
    /\ UNCHANGED <<running, stoppedBy, host, hold, loaded, targets, calm>>

RecordPause ==
    /\ pc = "stopping" /\ targets = {}
    /\ file' = Paused(loaded)
    /\ Recorded
    /\ UNCHANGED restarts

RecordResume ==
    /\ pc = "starting" /\ targets = {}
    /\ file' = Resumed(loaded)
    /\ restarts' = restarts \cup {0}
    /\ Recorded

-----------------------------------------------------------------------------
(* The host and the operator                                               *)

HostChanges ==
    /\ \E h \in {"pressure", "tight", "roomy"} \ {host} : host' = h
    /\ UNCHANGED <<running, stoppedBy, hold, file, runVars, calm, restarts, shaken, blind>>

\* An operator who acts between two runs disturbs nothing.
OperatorActs ==
    /\ shaken' = IF pc \in {"idle", "failed"} THEN shaken ELSE "now"
    /\ blind' = blind

\* docker compose stop, of some services.
OperatorStops(S) ==
    /\ OperatorActs
    /\ S # {} /\ S \subseteq running
    /\ running' = running \ S
    /\ stoppedBy' = [c \in Music |-> IF c \in S THEN "operator" ELSE stoppedBy[c]]
    /\ UNCHANGED <<host, hold, file, runVars, calm, restarts>>

\* docker compose start: from now on what still stands is the operator's decision.
OperatorStarts(S) ==
    /\ OperatorActs
    /\ S # {} /\ S \subseteq Music \ running
    /\ running' = running \cup S
    /\ stoppedBy' = [c \in Music |-> IF c \in running \cup S THEN "nobody" ELSE "operator"]
    /\ UNCHANGED <<host, hold, file, runVars, calm, restarts>>

OperatorHolds ==
    /\ OperatorActs
    /\ hold' = ~hold
    /\ UNCHANGED <<running, stoppedBy, host, file, runVars, calm, restarts>>

\* Removing "latched" and "resumes" from the state file.
OperatorUnlatches ==
    /\ OperatorActs
    /\ file.latched
    /\ file' = [file EXCEPT !.latched = FALSE, !.resumes = {}]
    /\ restarts' = {}
    /\ UNCHANGED <<running, stoppedBy, host, hold, runVars, calm>>

-----------------------------------------------------------------------------

Next ==
    \/ Run
    \/ DockerCall \/ DockerFails \/ RecordPause \/ RecordResume
    \/ HostChanges
    \/ \E S \in SUBSET Music : OperatorStops(S) \/ OperatorStarts(S)
    \/ OperatorHolds \/ OperatorUnlatches

Spec == Init /\ [][Next]_vars

\* The timer starts the next run, and a run goes on.
FairSpec == Spec /\ WF_vars(Run) /\ WF_vars(DockerCall \/ RecordPause \/ RecordResume)

-----------------------------------------------------------------------------
(* Properties                                                              *)

GuardStarts(c) == pc = "starting" /\ c \notin running /\ c \in running' /\ targets' # targets

\* At most MAX_AUTO_RESUMES automatic restarts are completed in any window, whatever
\* the operator does and however often Docker fails.
RestartsBounded == Cardinality(restarts) <= MaxResumes

\* The guard starts a container only after a whole stable period in which every run
\* found the host above the resume lines, though the operator starts, stops, holds and
\* unlatches at any moment and Docker calls fail; unless a run has met the streak while it
\* was held or latched, or died of a pressure it saw, which leave healthy_since as it is.
StartsAfterCalm ==
    [][~blind => \A c \in Music : GuardStarts(c) => calm = Stable + 1]_vars

\* When no run is going on, a container the guard stopped is covered by a recorded pause:
\* only then can the guard bring it back. A failed call, or an operator who acts while
\* the guard does, can break that until the next undisturbed stop or restart of
\* everything, which mends it.
GuardStopRemembered ==
    pc = "idle" /\ shaken = "no" =>
        \A c \in Music : stoppedBy[c] = "guard" => file.paused

\* When the host stays healthy every container the guard stopped runs again, or the
\* pause is latched for the operator, or the operator holds the guard; a disturbance
\* counts only as long as it has not been mended.
GuardStopsEnd ==
    <>[](host = "roomy" /\ ~hold /\ shaken = "no") =>
        <>[](\A c \in Music : stoppedBy[c] = "guard" => file.latched)

-----------------------------------------------------------------------------
(* What the script says of itself, and what it does                        *)

\* The docstring says that after a guard stop B-Music restarts once the host has been
\* healthy for five minutes. One failed call is enough to prevent that for ever.
EveryStopEnds ==
    <>[](host = "roomy" /\ ~hold /\ pc # "failed") =>
        <>[](\A c \in Music : stoppedBy[c] = "guard" => file.latched)

\* The docstring says that the restart comes after five healthy minutes; a streak that a
\* held run went past counts although nobody looked.
EveryStartAfterCalm == [][\A c \in Music : GuardStarts(c) => calm = Stable + 1]_vars
=============================================================================
