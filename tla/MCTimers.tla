------------------------------ MODULE MCTimers ------------------------------
(* A timer with a thread of its own beside a timer of the kernel, for TLC:   *)
(* the two have nothing in common, every pair of platforms is explored.      *)
EXTENDS ThreadTimer, FiniteSets

CONSTANT Contexts

ASSUME ContextsAssumption == IsFiniteSet(Contexts)

VARIABLES kplatform, kkind, kmem, ktimer, kcpc, kdpc

Kernel == INSTANCE KernelTimer WITH
  platform <- kplatform, kind <- kkind, mem <- kmem, cpc <- kcpc, dpc <- kdpc

ThreadVars == vars
KernelVars == <<kplatform, kkind, kmem, ktimer, kcpc, kdpc>>

MCInit == Init /\ Kernel!Init
MCNext ==
  \/ Next /\ UNCHANGED KernelVars
  \/ Kernel!Next /\ UNCHANGED ThreadVars

MCSpec == MCInit /\ [][MCNext]_<<vars, KernelVars>> /\ Fairness

\* KernelTimer's property, of the timer of the kernel: dispatch functions read a
\* freed timer only if the kernel started them before its deletion.
KernelImplementsTimer == Kernel!ImplementsKernelTimer
=============================================================================
