---------------------------- MODULE MulticoreInit ----------------------------
(***************************************************************************)
(* The multicore part of test-realtime (multicore_init in                  *)
(* generator/realtime_orig/les/bench_init.c): one thread runs the          *)
(* message-queue test, the memory test and the task test, each once here.  *)
(* A test that does not return keeps the next one from starting; threads a *)
(* test has left behind go on beside the next ones.                        *)
(***************************************************************************)
EXTENDS IpcBandwidth, MemBandwidth, TaskLatency

VARIABLE stage      \* the test that runs: ipc, mem, task; or over

vars == <<stage, ipcVars, memVars, taskVars>>

Init == stage = "ipc" /\ IpcInit /\ MemInit /\ TaskInit

\* The call of a test has returned.
NextTest ==
  /\ \/ stage = "ipc" /\ IpcReturned /\ stage' = "mem"
     \/ stage = "mem" /\ mem_pc = "returned" /\ stage' = "task"
     \/ stage = "task" /\ TaskReturned /\ stage' = "over"
  /\ UNCHANGED <<ipcVars, memVars, taskVars>>

\* A step of a test: its caller and father only in their turn.
IpcStep ==
  /\ \/ stage = "ipc" /\ (IpcCaller \/ IpcFather)
     \/ ~IpcEnded /\ \E p \in Number : IpcPairStep(p)
  /\ UNCHANGED <<stage, memVars, taskVars>>

MemStep ==
  /\ (stage = "mem" /\ MemCaller) \/ \E w \in Number : MemWorkerStep(w)
  /\ UNCHANGED <<stage, ipcVars, taskVars>>

TaskStep ==
  /\ (stage = "task" /\ TaskFather) \/ \E p \in Number : TaskSon(p) \/ TaskTmpEnds(p)
  /\ UNCHANGED <<stage, ipcVars, memVars>>

Next == NextTest \/ IpcStep \/ MemStep \/ TaskStep

\* As in the tests alone: every thread runs when it can.  Each test is over
\* after a bounded number of steps, so it is enough to be fair to all of its
\* threads together.
Spec ==
  /\ Init /\ [][Next]_vars
  /\ WF_vars(NextTest) /\ WF_vars(IpcStep) /\ WF_vars(MemStep) /\ WF_vars(TaskStep)

-----------------------------------------------------------------------------
TypeOK ==
  /\ IpcTypeOK /\ MemTypeOK /\ TaskTypeOK
  /\ stage \in {"ipc", "mem", "task", "over"}

\* The clock of each multicore test spans the work of its threads, no less and no
\* more (ipc_bw.c:158-168, mem_bw.c:244-250, task_lt.c:121-133): nothing is sent,
\* copied or created before it runs, and nothing is left when it stops, whichever
\* announcements the shared semaphores mix up.  Exempt is a son of the task test
\* that could not create all its threads: it answers before it joins those it has
\* (task_lt.c:54-61).
ClocksSpanWork == ClockSpansTraffic /\ MemClockSpansWork /\ TaskClockSpansWork

\* The three tests come to their end, whichever father or sons, and tmp threads of
\* the task test, cannot be created; unless the message-queue test ends the process,
\* or stops in a wait that nobody answers, as the memory test does.
TestsEnd == <>(stage = "over" \/ IpcEnded \/ IpcHangs \/ MemHangs)
=============================================================================
