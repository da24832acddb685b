--------------------------- MODULE SequentialOptions ---------------------------
(***************************************************************************)
(* What a build and a call of test-schedule fix for the sequential mode    *)
(* (generator/test_schedule.c), and what its environment may answer.       *)
(* Utilizations are whole numbers of points, Whole of which are 1.0, and   *)
(* random factors whole numbers of 1 / PowOne; times have no unit.         *)
(***************************************************************************)
EXTENDS Integers, Sequences

CONSTANTS
  Registry,       \* sequence of the kinds of workload
  MaxTasks,       \* TEST_SCHEDULE_MAX_TASKS
  MaxGradients,   \* TEST_SCHEDULE_NUM_GRADIENTS
  UtilStart, UtilEnd, UtilStep, Whole,
  SeqCycles,      \* jobs of each task in a gradient
  Durations,      \* what an execution may take
  PowResults,     \* what pow may return; below 0 stands for no number too
  PowOne,
  Low,            \* 0.001
  LongPeriod,     \* 10 s
  MaxPeriod       \* TEST_SCHEDULE_MAX_PERIOD_NS

\* The command line accepts no other options (validate_schedule_args).
ASSUME SequentialAssumption ==
  /\ Registry \in Seq({"builtin", "excluded", "industrial"})
  /\ {MaxTasks, MaxGradients, UtilStart, UtilEnd, UtilStep, Whole, SeqCycles, PowOne}
       \subseteq Nat \ {0}
  /\ UtilStart <= UtilEnd /\ UtilEnd <= Whole
  /\ Durations \subseteq Nat /\ PowResults \subseteq Int
  /\ {Low, LongPeriod, MaxPeriod} \subseteq Nat
=============================================================================
