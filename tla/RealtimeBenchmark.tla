-------------------------- MODULE RealtimeBenchmark ---------------------------
(***************************************************************************)
(* The command test-realtime (realtime_benchmark_run_all in                *)
(* generator/realtime_orig/les/bench_init.c): one thread runs the tests on *)
(* one processor (realtime_init) and then, when asked to, those on several *)
(* (multicore_init).  A test that does not return keeps everything after   *)
(* it from starting.                                                       *)
(***************************************************************************)
EXTENDS MulticoreInit, RealtimeOptions, Sequences

VARIABLES
  index, blocks, found, status, pc, sleepers, count, holder, messages, failed,  \* of RealtimeTests
  run_multicore

Single == INSTANCE RealtimeTests

singleVars == <<index, blocks, found, status, pc, sleepers, count, holder, messages, failed>>
commandVars == <<run_multicore, singleVars, vars>>

\* What a full queue does is the business of the single-core tests: both answers
\* there, one of them where the multicore tests follow.
CommandInit ==
  /\ Single!Init /\ Init
  /\ run_multicore \in (IF blocks THEN BOOLEAN ELSE {FALSE})

SingleOver == index > Len(Single!Tests)

\* realtime_init returns after its last test.
SingleStep == Single!Next /\ UNCHANGED <<run_multicore, vars>>

\* A step of multicore_init.
Multicore(Step) ==
  run_multicore /\ SingleOver /\ Step /\ UNCHANGED <<run_multicore, singleVars>>

Returned == SingleOver /\ (run_multicore => stage = "over")

CommandNext == SingleStep \/ Multicore(Next)

\* The fairness of its parts.
CommandSpec ==
  /\ CommandInit /\ [][CommandNext]_commandVars
  /\ WF_commandVars(SingleStep)
  /\ WF_commandVars(Multicore(NextTest)) /\ WF_commandVars(Multicore(IpcStep))
  /\ WF_commandVars(Multicore(MemStep)) /\ WF_commandVars(Multicore(TaskStep))

-----------------------------------------------------------------------------
(* Properties; those of the tests are stated in their modules. *)

CommandTypeOK == run_multicore \in BOOLEAN /\ Single!TypeOK /\ TypeOK

MeasuredAsDocumented == Single!MeasuredAsDocumented
NoMessageIsLost == Single!NoMessageIsLost
ObjectsOutliveThreads == Single!ObjectsOutliveThreads

=============================================================================
