---------------------------- MODULE RealtimeOptions ----------------------------
(* What the single-core tests of generator/realtime_orig/ are built with, and *)
(* where they run.                                                            *)
EXTENDS Integers

CONSTANTS
  Iterations,   \* TEST_ITERATION
  MqBlocks      \* whether a send to a full queue blocks or is refused: systems differ

ASSUME RealtimeAssumption == Iterations \in Nat \ {0} /\ MqBlocks \subseteq BOOLEAN
=============================================================================
