---------------------------- MODULE KernelMemory ----------------------------
(***************************************************************************)
(* deploy/priority-guard.py: the RAM ceiling of the running kernel, moved  *)
(* by every run of the guard with the memory the rest of the host leaves.  *)
(* All amounts are MiB.                                                    *)
(***************************************************************************)
EXTENDS Integers

CONSTANTS
    Spares,     \* amounts of memory the host may leave to the kernel
    Amounts     \* amounts the kernel may hold in RAM or in swap

ASSUME MemoryAssumption == Spares \subseteq Nat /\ Amounts \subseteq Nat

Floor     == 320    \* KERNEL_FLOOR_MIB
Ceiling   == 768    \* KERNEL_CEILING_MIB
SwapSize  == 512    \* KERNEL_SWAP_MIB
Reserve   == 300    \* HOST_RESERVE_MIB
LowerStep == 32     \* LOWER_STEP_MIB
RaiseStep == 96     \* RAISE_STEP_MIB
Grain     == 16
PauseLine == 200    \* PAUSE_MEMORY_MIB

VARIABLES
    limit,      \* HostConfig.Memory of the kernel
    spare,      \* memory the rest of the host leaves: the kernel's use plus what is available
    ram, swap,  \* what the kernel holds
    stage,      \* how far the run of the guard is: it reads the host, then the kernel
    avail,      \* MemAvailable as the run has read it
    usage,      \* the kernel's use as the run has read it
    held,       \* history: what the kernel held when the run read MemAvailable
    settled,    \* history: the host is the one the present or the last run has seen
    grown,      \* history: what the kernel grew by between the two readings of the last run
    basis,      \* history: what was taken for spare when the limit last moved
    killed      \* history: the kernel was killed by a move of its limit

runOfGuard == <<stage, avail, usage, held>>
memoryVars == <<limit, spare, ram, swap, runOfGuard, settled, grown, basis, killed>>

\* Mutant: nothing caps the ceiling itself.
ClampBelow(t) == IF t < Floor THEN Floor ELSE t

Clamp(t) == IF t < Floor THEN Floor ELSE IF t > Ceiling THEN Ceiling ELSE t

\* Mutant: the target is rounded up.
GrainsUp(t) == ((t + Grain - 1) \div Grain) * Grain

Grains(t) == (t \div Grain) * Grain

\* Mutant: raising reacts as fast as lowering.
WithinStepsEven(t) == limit - LowerStep < t /\ t < limit + LowerStep

\* Mutant: lowering waits for as much as raising.
WithinStepsSlow(t) == limit - RaiseStep < t /\ t < limit + RaiseStep

\* kernel_memory_target answers None: the change is too small.
WithinSteps(t) == limit - LowerStep < t /\ t < limit + RaiseStep

\* What is taken for spare with u read for the kernel's use, clamped less the reserve.
Target(u) == Grains(Clamp(u + avail - Reserve))

MemoryTypeOK ==
    /\ limit \in Floor .. Ceiling
    /\ limit % Grain = 0
    /\ spare \in Nat
    /\ ram \in 0 .. Ceiling
    /\ swap \in 0 .. SwapSize
    /\ stage \in {"idle", "looked", "measured"}
    /\ avail \in Nat
    /\ usage \in 0 .. Ceiling
    /\ held \in 0 .. Ceiling
    /\ settled \in BOOLEAN
    /\ grown \in Int
    /\ basis \in Nat
    /\ killed \in BOOLEAN

\* compose.antigravity-safe.yml starts the kernel at its floor.
MemoryInit ==
    /\ limit = Floor
    /\ spare \in Spares
    /\ ram = 0 /\ swap = 0
    /\ stage = "idle" /\ avail = 0 /\ usage = 0 /\ held = 0
    /\ settled = FALSE /\ grown = 0
    /\ basis = Floor + Reserve
    /\ killed = FALSE

\* docker update: what no longer fits the limit goes to the swap, if that has room.
MoveLimit(t) ==
    LET excess == IF ram > t THEN ram - t ELSE 0
        fits   == swap + excess <= SwapSize
    IN  /\ limit' = t
        /\ ram'  = IF fits THEN ram - excess ELSE 0
        /\ swap' = IF fits THEN swap + excess ELSE 0
        /\ killed' = (killed \/ ~fits)

\* Mutant: the ceiling is moved under pressure too.
NoPressureAlways == TRUE

\* A run that finds less than this free stops B-Music instead.
NoPressure == spare - ram >= PauseLine

\* main() reads MemAvailable and goes on without pressure.
ReadHost ==
    /\ stage = "idle" /\ NoPressure
    /\ stage' = "looked"
    /\ avail' = spare - ram /\ held' = ram
    /\ settled' = TRUE /\ grown' = 0
    /\ UNCHANGED <<limit, spare, ram, swap, usage, basis, killed>>

\* The run is over, and no longer than its numbers.
RunEnds(growth) ==
    /\ stage' = "idle" /\ avail' = 0 /\ usage' = 0 /\ held' = 0
    /\ grown' = IF settled THEN growth ELSE 0

\* memory_usage_mib, after the primary's health check; a small change ends the run.
ReadKernel ==
    /\ stage = "looked"
    /\ IF WithinSteps(Target(ram))
       THEN RunEnds(ram - held)
       ELSE /\ stage' = "measured"
            /\ usage' = ram
            /\ UNCHANGED <<avail, held, grown>>
    /\ UNCHANGED <<limit, spare, ram, swap, settled, basis, killed>>

\* The docker update, on a kernel that may have grown again.
Update ==
    /\ stage = "measured"
    /\ MoveLimit(Target(usage))
    /\ basis' = usage + avail
    /\ RunEnds(usage - held)
    /\ UNCHANGED <<spare, settled>>

\* The disk or the primary is in trouble, no kernel runs, or a Docker call fails.
GiveUp ==
    /\ stage # "idle"
    /\ RunEnds(0)
    /\ settled' = FALSE
    /\ UNCHANGED <<limit, spare, ram, swap, basis, killed>>

SpareChanges(s) ==
    /\ s # spare /\ s >= ram
    /\ spare' = s
    /\ settled' = FALSE /\ grown' = 0
    /\ UNCHANGED <<limit, ram, swap, runOfGuard, basis, killed>>

KernelUses(r, w) ==
    /\ r <= limit /\ r <= spare /\ w <= SwapSize
    /\ ram' = r /\ swap' = w
    /\ UNCHANGED <<limit, spare, runOfGuard, settled, grown, basis, killed>>

MemoryNext ==
    \/ ReadHost \/ ReadKernel \/ Update \/ GiveUp
    \/ \E s \in Spares : SpareChanges(s)
    \/ \E r, w \in Amounts : KernelUses(r, w)

MemorySpec == MemoryInit /\ [][MemoryNext]_memoryVars

-----------------------------------------------------------------------------
(* What the limit and the readings of a run stand for                      *)

LimitFollowsBasis ==
    /\ limit = Floor \/ limit <= basis - Reserve
    /\ limit = Ceiling \/ limit > basis - Reserve - Grain

ReadingsStand ==
    stage # "idle" =>
        /\ avail >= PauseLine
        /\ settled => avail + held = spare
        /\ stage = "measured" => ~WithinSteps(Target(usage))

-----------------------------------------------------------------------------
(* Properties                                                              *)

\* When a run has ended and the host has not changed since it was read, the kernel may
\* grow to its ceiling and the host keeps the reserve, short of at most the step below
\* which the ceiling is not lowered, and short of what the kernel grew by between the two
\* readings of the run, which counts twice; only a ceiling within one such step of the
\* floor may stand above that.
GrowthLeavesReserve ==
    stage = "idle" /\ settled =>
        limit < Floor + LowerStep \/ spare + grown - limit > Reserve - LowerStep

\* The ceiling follows the host and not its noise: it moves up only when the run takes
\* clearly more for spare than at the last move, and down only when it takes less.
MoveIsDue ==
    /\ limit' > limit => usage + avail > basis + RaiseStep - Grain
    /\ limit' < limit => usage + avail < basis - Grain

\* Lowering the ceiling sends what no longer fits to the swap. Without pressure that is
\* less than the reserve exceeds the pause line by, plus a grain, plus what the kernel has
\* grown by since the run read its use: a kernel with that much swap left is not killed.
KernelIsSpared ==
    killed' # killed => swap > SwapSize - (Reserve - PauseLine) - Grain - (ram - usage)

\* No move of the ceiling comes without its reason, or at the kernel's expense.
SafeMoves == [][MoveIsDue /\ KernelIsSpared]_memoryVars
=============================================================================
