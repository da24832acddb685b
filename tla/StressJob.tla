------------------------------ MODULE StressJob ------------------------------
(***************************************************************************)
(* The stressors of a job file, run one after the other                    *)
(* (generator/stress_orig/common/stress-ng.c): stress_run_one_job spawns   *)
(* the instances of a stressor, waits for them on a semaphore up to the    *)
(* end of the stressor's time and a safety margin, deletes the threads if  *)
(* some are missing, sums up their bogus operations and frees what they    *)
(* used.  A thread that was deleted may run on (on POSIX it is cancelled,  *)
(* at its next cancellation point) while the next stressors run.           *)
(*                                                                         *)
(* A stressor is one run of the command thread through its steps; a worker *)
(* is one instance of one stressor.  Its thread is where wst says, and its *)
(* operations are counted up to MaxOps.                                    *)
(***************************************************************************)
EXTENDS Integers, FiniteSets, FiniteSetsExt

CONSTANTS
  Stressors,      \* the lines of the job file
  Instances,      \* num_instances (-c) of each
  MaxOps,         \* --ops; 0 runs without operations, for ever
  Timed,          \* the stressors with a time limit (-t)
  MayHang,        \* may a worker block inside its stressor?
  Failures,       \* may allocations and thread creation fail?
  MayStop         \* may test_stress_stop be called?

ASSUME ConstantsAssumption ==
  /\ Stressors \in Nat \ {0} /\ Instances \in Nat \ {0} /\ MaxOps \in Nat
  /\ Timed \subseteq 1..Stressors
  /\ {MayHang, Failures, MayStop} \subseteq BOOLEAN

Stressor == 1..Stressors
Instance == 1..Instances
Worker == Stressor \X Instance

VARIABLES
  pc,           \* where the command thread is in stress_run_one_job
  job,          \* the stressor it runs, or ran last
  next,         \* i of the spawn loop
  spawned,      \* spawned_count
  finished,     \* finished_count
  deadline,     \* of the wait: forever, set or passed
  globalStop,   \* g_stress_global_stop
  stopped,      \* has a stop been requested? (one is enough: a bound)
  timeUp,       \* timeUp[s]: is time_end of stressor s over?
  wst,          \* wst[w]: none, failed, run, blocked, release, ended, killed
  cancelled,    \* the workers whose thread was deleted
  ops,          \* bogo.current_ops of each worker
  argsOf,       \* args of each worker: none, live or freed
  semOf,        \* semaphore of each stressor: none, live or freed
  sem,          \* its count
  result,       \* output_result of each stressor
  lastBogo      \* g_last_bogo.current_ops

mainVars   == <<pc, job, next, spawned, finished>>
clockVars  == <<deadline, timeUp>>
stopVars   == <<globalStop, stopped>>
workerVars == <<wst, cancelled, ops>>
memVars    == <<argsOf, semOf>>
sumVars    == <<result, lastBogo>>
vars == <<mainVars, clockVars, stopVars, workerVars, memVars, sem, sumVars>>

Init ==
  /\ pc = "idle" /\ job = 0 /\ next = 1 /\ spawned = 0 /\ finished = 0
  /\ deadline = "forever" /\ timeUp = [s \in Stressor |-> FALSE]
  /\ globalStop = FALSE /\ stopped = FALSE
  /\ wst = [w \in Worker |-> "none"] /\ cancelled = {} /\ ops = [w \in Worker |-> 0]
  /\ argsOf = [w \in Worker |-> "none"] /\ semOf = [s \in Stressor |-> "none"]
  /\ sem = [s \in Stressor |-> 0]
  /\ result = [s \in Stressor |-> 0] /\ lastBogo = 0

-----------------------------------------------------------------------------
(* The command thread. *)

\* The instances of a stressor whose thread was created, those of them that
\* have finished, and the threads in tid_list.
Created(s) == {k \in Instance : wst[<<s, k>>] \notin {"none", "failed"}}
Ended(s) == {k \in Instance : wst[<<s, k>>] = "ended"}
Spawned(s) == {s} \X Created(s)

\* args_list[0 .. spawned_count - 1].
Counted == {<<job, k>> : k \in 1..spawned}

\* The operations of a set of workers.
OpsOf(workers) == SumFunction(Restrict(ops, workers))

OpsSum == OpsOf(Counted)

\* The next line; without a semaphore the stressor is not run.
BeginStressor ==
  /\ pc = "idle" /\ job < Stressors
  /\ job' = job + 1 /\ next' = 1 /\ spawned' = 0 /\ finished' = 0
  /\ globalStop' = FALSE
  /\ deadline' = IF job + 1 \in Timed THEN "set" ELSE "forever"
  /\ \/ pc' = "spawn" /\ semOf' = [semOf EXCEPT ![job + 1] = "live"]
     \/ Failures /\ pc' = "idle" /\ UNCHANGED semOf
  /\ UNCHANGED <<stopped, timeUp, workerVars, argsOf, sem, sumVars>>

\* Mutant: one instance too many.
BugSpawnInstance ==
  /\ pc = "spawn" /\ next <= Instances + 1
  /\ spawned' = spawned + 1 /\ next' = next + 1
  /\ wst' = [wst EXCEPT ![<<job, next>>] = "run"]
  /\ argsOf' = [argsOf EXCEPT ![<<job, next>>] = "live"]
  /\ UNCHANGED <<pc, job, finished, clockVars, stopVars, cancelled, ops, semOf, sem,
                 sumVars>>

\* One instance: its args, then its thread.
SpawnInstance ==
  /\ pc = "spawn" /\ next <= Instances
  /\ LET w == <<job, next>> IN
       /\ argsOf' = [argsOf EXCEPT ![w] = "live"]
       /\ \/ wst' = [wst EXCEPT ![w] = "run"] /\ spawned' = spawned + 1
          \/ Failures /\ wst' = [wst EXCEPT ![w] = "failed"] /\ UNCHANGED spawned
  /\ next' = next + 1
  /\ UNCHANGED <<pc, job, finished, clockVars, stopVars, cancelled, ops, semOf, sem,
                 sumVars>>

SpawnEnds ==
  /\ pc = "spawn" /\ (next > Instances \/ Failures)
  /\ pc' = "wait"
  /\ UNCHANGED <<job, next, spawned, finished, clockVars, stopVars, workerVars,
                 memVars, sem, sumVars>>

\* stress_wait_for_workers: one semaphore for all workers.
WorkerFinished ==
  /\ pc = "wait" /\ finished < spawned /\ sem[job] > 0 /\ deadline # "passed"
  /\ sem' = [sem EXCEPT ![job] = @ - 1]
  /\ finished' = finished + 1
  /\ UNCHANGED <<pc, job, next, spawned, clockVars, stopVars, workerVars, memVars, sumVars>>

\* A wait without a deadline gets one when it sees the stop.
StopSeen ==
  /\ pc = "wait" /\ finished < spawned /\ deadline = "forever" /\ globalStop
  /\ deadline' = "set"
  /\ UNCHANGED <<mainVars, timeUp, stopVars, workerVars, memVars, sem, sumVars>>

WaitEnds ==
  /\ pc = "wait" /\ finished = spawned /\ pc' = "result"
  /\ UNCHANGED <<job, next, spawned, finished, clockVars, stopVars, workerVars,
                 memVars, sem, sumVars>>

\* The margin is over: every thread of the stressor is deleted, those that
\* have finished too.
DeleteThreads ==
  /\ pc = "wait" /\ finished < spawned /\ deadline = "passed"
  /\ cancelled' = cancelled \cup Spawned(job)
  /\ pc' = "result"
  /\ UNCHANGED <<job, next, spawned, finished, clockVars, stopVars, wst, ops,
                 memVars, sem, sumVars>>

\* Mutant: one instance is left out of the sum.
BugSumResult ==
  /\ pc = "result" /\ pc' = "last"
  /\ result' = [result EXCEPT ![job] = OpsOf({<<job, k>> : k \in 1..(spawned - 1)})]
  /\ UNCHANGED <<job, next, spawned, finished, clockVars, stopVars, workerVars,
                 memVars, sem, lastBogo>>

SumResult ==
  /\ pc = "result" /\ pc' = "last"
  /\ result' = [result EXCEPT ![job] = OpsSum]
  /\ UNCHANGED <<job, next, spawned, finished, clockVars, stopVars, workerVars,
                 memVars, sem, lastBogo>>

SumLast ==
  /\ pc = "last" /\ pc' = "free"
  /\ lastBogo' = IF spawned > 0 THEN OpsSum ELSE lastBogo
  /\ UNCHANGED <<job, next, spawned, finished, clockVars, stopVars, workerVars,
                 memVars, sem, result>>

Orphans == finished < spawned

\* Mutant: args and semaphore are freed whoever still runs.
BugFree ==
  /\ pc = "free" /\ pc' = "idle"
  /\ argsOf' = [w \in Worker |-> IF w \in Counted THEN "freed" ELSE argsOf[w]]
  /\ semOf' = [semOf EXCEPT ![job] = "freed"]
  /\ UNCHANGED <<job, next, spawned, finished, clockVars, stopVars, workerVars, sem,
                 sumVars>>

\* What the threads used is freed, or leaked if some of them may still run.
Free ==
  /\ pc = "free" /\ pc' = "idle"
  /\ IF Orphans
       THEN UNCHANGED memVars
       ELSE /\ argsOf' = [w \in Worker |-> IF w \in Counted THEN "freed" ELSE argsOf[w]]
            /\ semOf' = [semOf EXCEPT ![job] = "freed"]
  /\ UNCHANGED <<job, next, spawned, finished, clockVars, stopVars, workerVars, sem,
                 sumVars>>

-----------------------------------------------------------------------------
(* The workers, the clock and the caller of test_stress_stop. *)

\* stress_continue
Continue(w) ==
  /\ ~globalStop
  /\ ~timeUp[w[1]]
  /\ MaxOps = 0 \/ ops[w] < MaxOps

\* One round of the stressor.  With MaxOps = 0 the count is left out.
Operate(w) ==
  /\ wst[w] = "run" /\ Continue(w) /\ MaxOps > 0
  /\ ops' = [ops EXCEPT ![w] = @ + 1]
  /\ UNCHANGED <<mainVars, clockVars, stopVars, wst, cancelled, memVars, sem, sumVars>>

\* The stressor blocks, and may come back late.
Block(w) ==
  /\ MayHang /\ wst[w] = "run"
  /\ wst' = [wst EXCEPT ![w] = "blocked"]
  /\ UNCHANGED <<mainVars, clockVars, stopVars, cancelled, ops, memVars, sem, sumVars>>

Unblock(w) ==
  /\ wst[w] = "blocked"
  /\ wst' = [wst EXCEPT ![w] = "run"]
  /\ UNCHANGED <<mainVars, clockVars, stopVars, cancelled, ops, memVars, sem, sumVars>>

StressorReturns(w) ==
  /\ wst[w] = "run" /\ ~Continue(w)
  /\ wst' = [wst EXCEPT ![w] = "release"]
  /\ UNCHANGED <<mainVars, clockVars, stopVars, cancelled, ops, memVars, sem, sumVars>>

\* Mutant: all stressors share one semaphore.
BugRelease(w) ==
  /\ wst[w] = "release"
  /\ wst' = [wst EXCEPT ![w] = "ended"]
  /\ sem' = [sem EXCEPT ![job] = @ + 1]
  /\ UNCHANGED <<mainVars, clockVars, stopVars, cancelled, ops, memVars, sumVars>>

Release(w) ==
  /\ wst[w] = "release"
  /\ wst' = [wst EXCEPT ![w] = "ended"]
  /\ sem' = [sem EXCEPT ![w[1]] = @ + 1]
  /\ UNCHANGED <<mainVars, clockVars, stopVars, cancelled, ops, memVars, sumVars>>

\* A deleted thread dies where it is, at a cancellation point or at once.
Die(w) ==
  /\ w \in cancelled /\ wst[w] \in {"run", "blocked", "release"}
  /\ wst' = [wst EXCEPT ![w] = "killed"]
  /\ UNCHANGED <<mainVars, clockVars, stopVars, cancelled, ops, memVars, sem, sumVars>>

WorkerStep(w) == Operate(w) \/ StressorReturns(w) \/ Release(w)

TimeIsUp ==
  /\ pc # "idle" /\ job \in Timed /\ ~timeUp[job]
  /\ timeUp' = [timeUp EXCEPT ![job] = TRUE]
  /\ UNCHANGED <<mainVars, deadline, stopVars, workerVars, memVars, sem, sumVars>>

\* Mutant: only a stop ends the wait.
BugMarginPasses ==
  /\ pc = "wait" /\ deadline = "set" /\ globalStop
  /\ deadline' = "passed"
  /\ UNCHANGED <<mainVars, timeUp, stopVars, workerVars, memVars, sem, sumVars>>

\* The margin follows the stressor's time, or the stop.
MarginPasses ==
  /\ pc = "wait" /\ deadline = "set" /\ (job \in Timed => timeUp[job])
  /\ deadline' = "passed"
  /\ UNCHANGED <<mainVars, timeUp, stopVars, workerVars, memVars, sem, sumVars>>

\* stress_ng_main_stop, from any thread at any time.
Stop ==
  /\ MayStop /\ ~stopped /\ job > 0
  /\ globalStop' = TRUE /\ stopped' = TRUE
  /\ UNCHANGED <<mainVars, clockVars, workerVars, memVars, sem, sumVars>>

-----------------------------------------------------------------------------
MainStep ==
  \/ BeginStressor \/ SpawnInstance \/ SpawnEnds \/ WorkerFinished \/ StopSeen
  \/ WaitEnds \/ DeleteThreads \/ SumResult \/ SumLast \/ Free

Next ==
  \/ MainStep
  \/ \E w \in Worker : WorkerStep(w) \/ Block(w) \/ Unblock(w) \/ Die(w)
  \/ TimeIsUp \/ MarginPasses \/ Stop

Spec == Init /\ [][Next]_vars

\* The command and the workers are scheduled and time passes; a blocked worker
\* may stay blocked and a deleted one may live.
FairSpec ==
  /\ Spec
  /\ WF_vars(MainStep) /\ WF_vars(TimeIsUp) /\ WF_vars(MarginPasses)
  /\ \A w \in Worker : WF_vars(WorkerStep(w))

-----------------------------------------------------------------------------
(* Properties. *)

\* The types of the variables.
TypeOK ==
  /\ pc \in {"idle", "spawn", "wait", "result", "last", "free"}
  /\ job \in 0..Stressors /\ next \in 1..(Instances + 1)
  /\ spawned \in 0..Instances /\ finished \in 0..Instances
  /\ deadline \in {"forever", "set", "passed"}
  /\ {globalStop, stopped} \subseteq BOOLEAN
  /\ timeUp \in [Stressor -> BOOLEAN]
  /\ wst \in [Worker -> {"none", "failed", "run", "blocked", "release", "ended", "killed"}]
  /\ cancelled \subseteq Worker /\ ops \in [Worker -> Nat]
  /\ argsOf \in [Worker -> {"none", "live", "freed"}]
  /\ semOf \in [Stressor -> {"none", "live", "freed"}]
  /\ sem \in [Stressor -> Nat]
  /\ result \in [Stressor -> Nat] /\ lastBogo \in Nat

Running(w) == wst[w] \in {"run", "blocked", "release"}

\* No thread runs on args or on a semaphore that were freed (stress-ng.c:384-396
\* against 140-162), whatever ended the wait and however late the thread is.
NoUseAfterFree ==
  \A w \in Worker : Running(w) => argsOf[w] = "live" /\ semOf[w[1]] = "live"

\* The wait counts the workers of its own stressor and no other (:192-211): a
\* worker of an earlier stressor that comes back late is not taken for one.
CountsOwnWorkers == job > 0 => finished + sem[job] = Cardinality(Ended(job))

\* A stressor whose workers all finished is reported with all their operations
\* (:350-365), also while deleted workers of earlier stressors still run; unless
\* a thread was created after one that could not be.
ResultIsTotal ==
  (pc \in {"last", "free"} /\ ~Orphans /\ Created(job) = 1..spawned) =>
    result[job] = OpsOf(Spawned(job))

\* The wait has no limit: the stressor has none, and no stop is in force.
Unlimited == pc = "wait" /\ job \notin Timed /\ ~globalStop

\* Every stressor of the job file gets its turn and the command returns
\* (:183-219), unless it waits without a limit for a worker that blocks again
\* and again.
JobFileEnds ==
  \/ <>(pc = "idle" /\ job = Stressors)
  \/ /\ <>[]Unlimited
     /\ \E w \in Worker : []<>(w[1] = job /\ wst[w] = "blocked")

\* g_last_bogo holds the "Accumulated bogo_ops from the last
\* stress_run_one_job() call" (:112): all operations of all its workers.
LastBogoIsTotal ==
  (pc = "free" /\ ~Orphans) => lastBogo = OpsOf(Spawned(job))
=============================================================================
