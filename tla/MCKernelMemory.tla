--------------------------- MODULE MCKernelMemory ---------------------------
(* Instances of KernelMemory for TLC.                                        *)
EXTENDS KernelMemory

\* Around the floor, the pause line, the steps and the ceiling, not multiples of the grain.
MCSpares == {520, 640, 651, 772, 905, 1130}
MCAmounts == {0, 330, 500, 700}
=============================================================================
