---------------------------- MODULE ContextOptions ----------------------------
(* What a run of the context stressor is given (generator/stress_orig):      *)
(* options of its job line, and what the system may refuse.                  *)
EXTENDS Integers

CONSTANTS
  ContextThreads,   \* s_context_threads (--context-threads)
  ContextOps,       \* --ops; 0 for none
  ContextStops,     \* has the stressor a time limit, or may it be stopped?
  ContextFailures   \* may allocations and thread creation fail?

ASSUME ContextAssumption ==
  /\ ContextThreads \in Nat \ {0} /\ ContextOps \in Nat
  /\ ContextStops \in BOOLEAN /\ ContextFailures \in BOOLEAN
=============================================================================
