---------------------------- MODULE TestSchedule ----------------------------
(***************************************************************************)
(* One invocation of test_schedule_run_custom (generator/test_schedule.c): *)
(* the command thread measures the workloads, sweeps the utilization       *)
(* gradients, and for each gradient starts one thread per task, watches    *)
(* their job counters, reaps or abandons them, and aggregates what they    *)
(* recorded.                                                               *)
(*                                                                         *)
(* Time is abstract.  A task sleeps and a workload executes for any time;  *)
(* the watchdog's clock advances by one unit per polling sleep, and        *)
(* StallWindow[t] is the number of units task t may stay without progress  *)
(* (max(3 * period, 5 s) in the code).  The overall budget expires at any  *)
(* moment after it is armed.                                               *)
(***************************************************************************)
EXTENDS Integers, FiniteSets

CONSTANTS
  NumTasks,          \* workloads kept by Phase 1
  NumGradients,      \* number of utilization steps of the sweep
  Cycles,            \* jobs each task is to run in a gradient
  StallWindow,       \* [Task -> polls without progress that mean "stalled"]
  Serialize,         \* TEST_SCHEDULE_SERIALIZE_EXEC
  ResourceFailures   \* may calloc, sem_create and pthread_create fail?

Task == 1..NumTasks
Grad == 1..NumGradients
Thread == Grad \X Task      \* <<g, t>>: the thread of task t in gradient g

ASSUME SizeAssumption ==
  /\ NumTasks \in Nat \ {0}
  /\ NumGradients \in Nat \ {0}
  /\ Cycles \in Nat \ {0}
ASSUME WindowAssumption == StallWindow \in [Task -> Nat \ {0}]
ASSUME ModeAssumption == Serialize \in BOOLEAN /\ ResourceFailures \in BOOLEAN

VARIABLES
  mpc,        \* where the command thread is
  grad,       \* gradient_idx (from 1)
  idx,        \* the loop index of the command thread's current loop
  budget,     \* is test_deadline_ts still ahead?
  suppress,   \* g_sched_suppress_output
  arrays,     \* the tasks[] and stats[] arrays: "none", "live", "freed"
  gate,       \* is g_exec_gate non-NULL?
  sem,        \* the count of the semaphore it points to
  jobs,       \* stats[t].total_jobs
  misses,     \* stats[t].deadline_misses
  lastJobs,   \* the watchdog's last_jobs[t]
  age,        \* now - last_progress_ts[t], in polls, capped at the window
  done,       \* the watchdog's done flag
  allStalled, \* the watchdog's all_stalled flag
  ctx,        \* the contexts[] block of gradient g: "none", "live", "freed"
  running,    \* contexts[t].running
  handle,     \* the pthread handle: none, joinable, joined or detached
  pc,         \* where a task thread is
  phase,      \* the workload call it is making or about to make
  resJobs,    \* g_result.gradients[g].total_jobs
  resMisses,  \* g_result.gradients[g].total_misses
  status      \* how gradient g ended: none, failed, partial, complete

watchVars  == <<lastJobs, age, done, allStalled>>
threadVars == <<pc, phase>>
ctxVars    == <<ctx, running, handle>>
statVars   == <<jobs, misses>>
gateVars   == <<gate, sem>>
resVars    == <<resJobs, resMisses, status>>
vars == <<mpc, grad, idx, budget, suppress, arrays, gateVars, statVars,
          watchVars, ctxVars, threadVars, resVars>>

MainPC == {"begin", "alloc", "measure", "gradient", "create", "reapFailed",
           "watch", "poll", "decide", "backstop", "forced", "reapForced",
           "aggJobs", "aggMisses", "reap", "cleanup", "destroyGate",
           "returned"}
ThreadPC == {"none", "atGate", "blocked", "inside", "account", "miss",
             "loop", "sleep", "exit", "done"}

Min(a, b) == IF a < b THEN a ELSE b

\* contexts[t].completed: the last thing the thread writes.
Completed(th) == pc[th] = "done"

\* The threads of the gradient being run, by task.
Current(t) == <<grad, t>>

Init ==
  /\ mpc = "begin" /\ grad = 1 /\ idx = 1
  /\ budget = TRUE /\ suppress = FALSE /\ arrays = "none"
  /\ gate = FALSE /\ sem = 0
  /\ jobs = [t \in Task |-> 0] /\ misses = [t \in Task |-> 0]
  /\ lastJobs = [t \in Task |-> 0] /\ age = [t \in Task |-> 0]
  /\ done = TRUE /\ allStalled = TRUE
  /\ ctx = [g \in Grad |-> "none"]
  /\ running = [th \in Thread |-> FALSE]
  /\ handle = [th \in Thread |-> "none"]
  /\ pc = [th \in Thread |-> "none"]
  /\ phase = [th \in Thread |-> "init"]
  /\ resJobs = [g \in Grad |-> 0] /\ resMisses = [g \in Grad |-> 0]
  /\ status = [g \in Grad |-> "none"]

-----------------------------------------------------------------------------
(* The command thread: set-up and Phase 1. *)

\* g_result is cleared and the gate created; a failed sem_create falls back
\* to ungated execution.
Begin ==
  /\ mpc = "begin"
  /\ mpc' = "alloc"
  /\ \E ok \in {TRUE} \cup {~ResourceFailures} :
       gate' = (Serialize /\ ok)
  /\ sem' = IF gate' THEN 1 ELSE 0
  /\ UNCHANGED <<grad, idx, budget, suppress, arrays, statVars, watchVars,
                 ctxVars, threadVars, resVars>>

AllocArrays ==
  /\ mpc = "alloc"
  /\ mpc' = "measure"
  /\ arrays' = "live"
  /\ UNCHANGED <<grad, idx, budget, suppress, gateVars, statVars, watchVars,
                 ctxVars, threadVars, resVars>>

\* goto cleanup: whatever was allocated is freed there.
AllocArraysFails ==
  /\ mpc = "alloc" /\ ResourceFailures
  /\ mpc' = "cleanup"
  /\ UNCHANGED <<grad, idx, budget, suppress, arrays, gateVars, statVars,
                 watchVars, ctxVars, threadVars, resVars>>

\* The worker measuring workload idx has returned and is joined (or the
\* inline fallback has).  There is no time limit on this join.
MeasureWcet ==
  /\ mpc = "measure"
  /\ IF idx < NumTasks
       THEN mpc' = "measure" /\ idx' = idx + 1
       ELSE mpc' = "gradient" /\ idx' = 1
  /\ UNCHANGED <<grad, budget, suppress, arrays, gateVars, statVars,
                 watchVars, ctxVars, threadVars, resVars>>

-----------------------------------------------------------------------------
(* The command thread: Phase 2, run_gradient. *)

\* The contexts are allocated and initialised, the statistics zeroed, and
\* workload output suppressed.
StartGradient ==
  /\ mpc = "gradient" /\ grad \in Grad /\ budget
  /\ mpc' = "create" /\ idx' = 1
  /\ suppress' = TRUE
  /\ ctx' = [ctx EXCEPT ![grad] = "live"]
  /\ running' = [th \in Thread |-> IF th[1] = grad THEN TRUE ELSE running[th]]
  /\ jobs' = [t \in Task |-> 0]
  /\ misses' = [t \in Task |-> 0]
  /\ UNCHANGED <<grad, budget, arrays, gateVars, watchVars, handle,
                 threadVars, resVars>>

\* calloc of the contexts fails: run_gradient returns -1, the caller prints
\* a message and still counts the gradient.
StartGradientFails ==
  /\ mpc = "gradient" /\ grad \in Grad /\ budget /\ ResourceFailures
  /\ status' = [status EXCEPT ![grad] = "failed"]
  /\ grad' = grad + 1
  /\ UNCHANGED <<mpc, idx, budget, suppress, arrays, gateVars, statVars,
                 watchVars, ctxVars, threadVars, resJobs, resMisses>>

\* The sweep is over, or the total budget is exhausted and the remaining
\* gradients are skipped; Phase 3 averages the gradients run.
StopSweep ==
  /\ mpc = "gradient" /\ (grad \notin Grad \/ ~budget)
  /\ mpc' = "cleanup"
  /\ UNCHANGED <<grad, idx, budget, suppress, arrays, gateVars, statVars,
                 watchVars, ctxVars, threadVars, resVars>>

CreateThread ==
  /\ mpc = "create"
  /\ pc' = [pc EXCEPT ![Current(idx)] = "atGate"]
  /\ handle' = [handle EXCEPT ![Current(idx)] = "joinable"]
  /\ IF idx < NumTasks
       THEN mpc' = "create" /\ idx' = idx + 1
       ELSE mpc' = "watch" /\ idx' = 1
  /\ UNCHANGED <<grad, budget, suppress, arrays, gateVars, statVars,
                 watchVars, ctx, running, phase, resVars>>

\* Mutant: the threads are not told.
BugStopThreads(n) == UNCHANGED running

\* running is cleared in the first n contexts of the gradient.
StopThreads(n) ==
  running' = [th \in Thread |->
    IF th[1] = grad /\ th[2] <= n THEN FALSE ELSE running[th]]

\* pthread_create fails for task idx: the threads already started are told
\* to stop.
CreateThreadFails ==
  /\ mpc = "create" /\ ResourceFailures
  /\ StopThreads(idx - 1)
  /\ mpc' = "reapFailed"
  /\ UNCHANGED <<grad, idx, budget, suppress, arrays, gateVars, statVars,
                 watchVars, ctx, handle, threadVars, resVars>>

\* Mutant: the last context is forgotten.
BugReapOrAbandon(n) ==
  handle' = [th \in Thread |->
    IF th[1] = grad /\ th[2] < n
      THEN IF Completed(th) THEN "joined" ELSE "detached"
      ELSE handle[th]]

\* sched_reap_or_abandon over the first n contexts of the gradient: join the
\* finished threads, detach the others.
ReapOrAbandon(n) ==
  handle' = [th \in Thread |->
    IF th[1] = grad /\ th[2] <= n
      THEN IF Completed(th) THEN "joined" ELSE "detached"
      ELSE handle[th]]

\* The rest of the failure path; the contexts are leaked on purpose.
ReapFailed ==
  /\ mpc = "reapFailed"
  /\ ReapOrAbandon(idx - 1)
  /\ suppress' = FALSE
  /\ status' = [status EXCEPT ![grad] = "failed"]
  /\ grad' = grad + 1 /\ mpc' = "gradient" /\ idx' = 1
  /\ UNCHANGED <<budget, arrays, gateVars, statVars, watchVars, ctx, running,
                 threadVars, resJobs, resMisses>>

-----------------------------------------------------------------------------
(* The command thread: the watchdog, wait_all_tasks_deadline. *)

\* The watchdog's locals before it starts and after it returns.
NoWatch ==
  /\ lastJobs' = [t \in Task |-> 0] /\ age' = [t \in Task |-> 0]
  /\ done' = TRUE /\ allStalled' = TRUE

StartPoll ==
  /\ mpc' = "poll" /\ idx' = 1
  /\ done' = TRUE /\ allStalled' = TRUE

WatchStart ==
  /\ mpc = "watch"
  /\ StartPoll
  /\ lastJobs' = jobs
  /\ age' = [t \in Task |-> 0]
  /\ UNCHANGED <<grad, budget, suppress, arrays, gateVars, statVars, ctxVars,
                 threadVars, resVars>>

\* The progress arrays cannot be allocated: only completion and the budget
\* are watched.
WatchStartFails ==
  /\ mpc = "watch" /\ ResourceFailures
  /\ mpc' = "backstop"
  /\ UNCHANGED <<grad, idx, budget, suppress, arrays, gateVars, statVars,
                 watchVars, ctxVars, threadVars, resVars>>

\* Mutant: only the last task looked at counts.
BugStallVerdict(a) == a >= StallWindow[idx]

\* all_stalled after looking at an unfinished task without progress for a.
StallVerdict(a) == allStalled /\ a >= StallWindow[idx]

\* One iteration of the polling loop's for.
PollTask ==
  /\ mpc = "poll"
  /\ LET progressed == jobs[idx] # lastJobs[idx]
         newAge     == IF progressed THEN 0 ELSE age[idx]
     IN IF Completed(Current(idx))
          THEN UNCHANGED watchVars
          ELSE /\ done' = FALSE
               /\ lastJobs' = [lastJobs EXCEPT ![idx] = jobs[idx]]
               /\ age' = [age EXCEPT ![idx] = newAge]
               /\ allStalled' = StallVerdict(newAge)
  /\ IF idx < NumTasks
       THEN mpc' = "poll" /\ idx' = idx + 1
       ELSE mpc' = "decide" /\ idx' = 1
  /\ UNCHANGED <<grad, budget, suppress, arrays, gateVars, statVars, ctxVars,
                 threadVars, resVars>>

\* The gradient is complete: output is allowed again before aggregating.
AllDone ==
  /\ mpc' = "aggJobs" /\ idx' = 1
  /\ suppress' = FALSE
  /\ status' = [status EXCEPT ![grad] = "complete"]
  /\ NoWatch
  /\ UNCHANGED <<grad, budget, arrays, gateVars, statVars, ctxVars, threadVars,
                 resJobs, resMisses>>

PollDone == mpc = "decide" /\ done /\ AllDone

ToForced ==
  /\ mpc' = "forced"
  /\ NoWatch
  /\ UNCHANGED <<grad, idx, budget, suppress, arrays, gateVars, statVars,
                 ctxVars, threadVars, resVars>>

PollStalled == mpc = "decide" /\ ~done /\ allStalled /\ ToForced

PollBudget == mpc = "decide" /\ ~done /\ ~allStalled /\ ~budget /\ ToForced

\* sched_watchdog_sleep_ms(100), and the clock read at the next poll.
PollSleep ==
  /\ mpc = "decide" /\ ~done /\ ~allStalled /\ budget
  /\ StartPoll
  /\ age' = [t \in Task |-> Min(age[t] + 1, StallWindow[t])]
  /\ UNCHANGED <<grad, budget, suppress, arrays, gateVars, statVars, lastJobs,
                 ctxVars, threadVars, resVars>>

\* Mutant: one finished task is enough.
BugBackstopDone ==
  mpc = "backstop" /\ (\E t \in Task : Completed(Current(t))) /\ AllDone

BackstopDone ==
  mpc = "backstop" /\ (\A t \in Task : Completed(Current(t))) /\ AllDone

\* Mutant: only completion ends this wait.
BugBackstopBudget == FALSE

BackstopBudget ==
  mpc = "backstop" /\ (\E t \in Task : ~Completed(Current(t))) /\ ~budget
    /\ ToForced

-----------------------------------------------------------------------------
(* The command thread: forced completion, aggregation, Phase 3. *)

ForceStop ==
  /\ mpc = "forced"
  /\ StopThreads(NumTasks)
  /\ mpc' = "reapForced"
  /\ UNCHANGED <<grad, idx, budget, suppress, arrays, gateVars, statVars,
                 watchVars, ctx, handle, threadVars, resVars>>

ReapForced ==
  /\ mpc = "reapForced"
  /\ ReapOrAbandon(NumTasks)
  /\ suppress' = FALSE
  /\ status' = [status EXCEPT ![grad] = "partial"]
  /\ mpc' = "aggJobs" /\ idx' = 1
  /\ UNCHANGED <<grad, budget, arrays, gateVars, statVars, watchVars, ctx,
                 running, threadVars, resJobs, resMisses>>

\* The two reads of one task's statistics; on the forced path the task may
\* still be running between them.
AggregateJobs ==
  /\ mpc = "aggJobs"
  /\ resJobs' = [resJobs EXCEPT ![grad] = @ + jobs[idx]]
  /\ mpc' = "aggMisses"
  /\ UNCHANGED <<grad, idx, budget, suppress, arrays, gateVars, statVars,
                 watchVars, ctxVars, threadVars, resMisses, status>>

AggregateMisses ==
  /\ mpc = "aggMisses"
  /\ resMisses' = [resMisses EXCEPT ![grad] = @ + misses[idx]]
  /\ IF idx < NumTasks
       THEN mpc' = "aggJobs" /\ idx' = idx + 1 /\ UNCHANGED grad
       ELSE /\ idx' = 1
            /\ IF status[grad] = "complete"
                 THEN mpc' = "reap" /\ UNCHANGED grad
                 ELSE mpc' = "gradient" /\ grad' = grad + 1
  /\ UNCHANGED <<budget, suppress, arrays, gateVars, statVars, watchVars,
                 ctxVars, threadVars, resJobs, status>>

\* Every task completed: join them all, then free their contexts.
ReapCompleted ==
  /\ mpc = "reap"
  /\ ReapOrAbandon(NumTasks)
  /\ ctx' = [ctx EXCEPT ![grad] = "freed"]
  /\ mpc' = "gradient" /\ grad' = grad + 1
  /\ UNCHANGED <<idx, budget, suppress, arrays, gateVars, statVars, watchVars,
                 running, threadVars, resVars>>

Cleanup ==
  /\ mpc = "cleanup"
  /\ arrays' = "freed"
  /\ jobs' = [t \in Task |-> 0] /\ misses' = [t \in Task |-> 0]
  /\ mpc' = "destroyGate"
  /\ UNCHANGED <<grad, idx, budget, suppress, gateVars, watchVars, ctxVars,
                 threadVars, resVars>>

DestroyGate ==
  /\ mpc = "destroyGate"
  /\ gate' = FALSE /\ sem' = 0
  /\ mpc' = "returned"
  /\ UNCHANGED <<grad, idx, budget, suppress, arrays, statVars, watchVars,
                 ctxVars, threadVars, resVars>>

\* test_deadline_ts, set when Phase 1 starts, passes.
BudgetExpires ==
  /\ budget /\ mpc \notin {"begin", "alloc"}
  /\ budget' = FALSE
  /\ UNCHANGED <<mpc, grad, idx, suppress, arrays, gateVars, statVars,
                 watchVars, ctxVars, threadVars, resVars>>

-----------------------------------------------------------------------------
(* A task thread, task_thread_entry. *)

mainVars == <<mpc, grad, idx, budget, suppress, arrays, watchVars, ctxVars,
              resVars>>

\* Mutant: teardown is not gated.
BugReachGate(th) ==
  /\ pc[th] = "atGate"
  /\ pc' = [pc EXCEPT ![th] =
       IF gate /\ phase[th] # "teardown" THEN "blocked" ELSE "inside"]
  /\ UNCHANGED <<mainVars, gateVars, statVars, phase>>

\* if (g_exec_gate) sem_wait(g_exec_gate): the pointer is read...
ReachGate(th) ==
  /\ pc[th] = "atGate"
  /\ pc' = [pc EXCEPT ![th] = IF gate THEN "blocked" ELSE "inside"]
  /\ UNCHANGED <<mainVars, gateVars, statVars, phase>>

\* Mutant: the count is not waited for.
BugTakeGate(th) ==
  /\ pc[th] = "blocked" /\ gate
  /\ sem' = sem - 1
  /\ pc' = [pc EXCEPT ![th] = "inside"]
  /\ UNCHANGED <<mainVars, gate, statVars, phase>>

\* ... and the semaphore taken.
TakeGate(th) ==
  /\ pc[th] = "blocked" /\ gate /\ sem > 0
  /\ sem' = sem - 1
  /\ pc' = [pc EXCEPT ![th] = "inside"]
  /\ UNCHANGED <<mainVars, gate, statVars, phase>>

\* A wait on a semaphore that was destroyed meanwhile: an RTOS that wakes
\* the waiters lets the thread through (the result of the wait is not
\* looked at); elsewhere it never returns.
WakeFromDestroyedGate(th) ==
  /\ pc[th] = "blocked" /\ ~gate
  /\ pc' = [pc EXCEPT ![th] = "inside"]
  /\ UNCHANGED <<mainVars, gateVars, statVars, phase>>

\* The workload call returns and the gate, if there is one now, is posted.
LeaveWorkload(th) ==
  /\ pc[th] = "inside"
  /\ sem' = IF gate THEN sem + 1 ELSE sem
  /\ pc' = [pc EXCEPT ![th] = CASE phase[th] = "init"     -> "loop"
                                [] phase[th] = "exec"     -> "account"
                                [] phase[th] = "teardown" -> "exit"]
  /\ UNCHANGED <<mainVars, gate, statVars, phase>>

\* A write to a counter of stats[]; after Cleanup it hits freed memory, of
\* which nothing here is kept.
Increment(counter, t) ==
  IF arrays = "live" THEN [counter EXCEPT ![t] = @ + 1] ELSE counter

\* One job done; it missed if the workload failed or answered late.
AccountJob(th) ==
  /\ pc[th] = "account"
  /\ jobs' = Increment(jobs, th[2])
  /\ \E next \in {"miss", "loop"} : pc' = [pc EXCEPT ![th] = next]
  /\ UNCHANGED <<mainVars, gateVars, misses, phase>>

\* Mutant: a job that failed and was late counts two misses.
BugAccountMiss(th) ==
  /\ pc[th] = "miss"
  /\ misses' = [misses EXCEPT ![th[2]] = @ + 2]
  /\ pc' = [pc EXCEPT ![th] = "loop"]
  /\ UNCHANGED <<mainVars, gateVars, jobs, phase>>

AccountMiss(th) ==
  /\ pc[th] = "miss"
  /\ misses' = Increment(misses, th[2])
  /\ pc' = [pc EXCEPT ![th] = "loop"]
  /\ UNCHANGED <<mainVars, gateVars, jobs, phase>>

StartTeardown(th) ==
  /\ phase' = [phase EXCEPT ![th] = "teardown"]
  /\ pc' = [pc EXCEPT ![th] = "atGate"]

\* Mutant: one job too many.
BugLoopHead(th) ==
  /\ pc[th] = "loop"
  /\ IF running[th] /\ jobs[th[2]] <= Cycles
       THEN pc' = [pc EXCEPT ![th] = "sleep"] /\ UNCHANGED phase
       ELSE StartTeardown(th)
  /\ UNCHANGED <<mainVars, gateVars, statVars>>

\* The while condition.
LoopHead(th) ==
  /\ pc[th] = "loop"
  /\ IF running[th] /\ jobs[th[2]] < Cycles
       THEN pc' = [pc EXCEPT ![th] = "sleep"] /\ UNCHANGED phase
       ELSE StartTeardown(th)
  /\ UNCHANGED <<mainVars, gateVars, statVars>>

\* The release time is reached, or running was cleared while sleeping.
WakeUp(th) ==
  /\ pc[th] = "sleep"
  /\ IF running[th]
       THEN /\ phase' = [phase EXCEPT ![th] = "exec"]
            /\ pc' = [pc EXCEPT ![th] = "atGate"]
       ELSE StartTeardown(th)
  /\ UNCHANGED <<mainVars, gateVars, statVars>>

SetCompleted(th) ==
  /\ pc[th] = "exit"
  /\ pc' = [pc EXCEPT ![th] = "done"]
  /\ UNCHANGED <<mainVars, gateVars, statVars, phase>>

-----------------------------------------------------------------------------
MainStep ==
  \/ Begin \/ AllocArrays \/ AllocArraysFails
  \/ StartGradient \/ StartGradientFails \/ StopSweep
  \/ CreateThread \/ CreateThreadFails \/ ReapFailed
  \/ WatchStart \/ WatchStartFails
  \/ PollTask \/ PollDone \/ PollStalled \/ PollBudget \/ PollSleep
  \/ BackstopDone \/ BackstopBudget
  \/ ForceStop \/ ReapForced
  \/ AggregateJobs \/ AggregateMisses \/ ReapCompleted
  \/ Cleanup \/ DestroyGate

\* A thread's steps other than taking the gate and returning from a workload.
OwnStep(th) ==
  \/ ReachGate(th) \/ AccountJob(th) \/ AccountMiss(th)
  \/ LoopHead(th) \/ WakeUp(th) \/ SetCompleted(th)

ThreadStep(th) ==
  \/ OwnStep(th) \/ TakeGate(th) \/ WakeFromDestroyedGate(th)
  \/ LeaveWorkload(th)

Next ==
  \/ MainStep \/ MeasureWcet \/ BudgetExpires
  \/ \E th \in Thread : ThreadStep(th)

Spec == Init /\ [][Next]_vars

(* Fairness. *)

\* The command thread is scheduled and time passes; task threads owe nothing.
FairMain == WF_vars(MainStep) /\ WF_vars(BudgetExpires)

\* Every workload call made while measuring returns.
FairMeasure == WF_vars(MeasureWcet)

\* Task threads are scheduled, their workload calls return, and a thread
\* waiting for a gate that is posted again and again gets it.
FairThreads ==
  \A th \in Thread :
    WF_vars(OwnStep(th)) /\ WF_vars(LeaveWorkload(th)) /\ SF_vars(TakeGate(th))

\* Task threads, and workloads that are measured, may hang anywhere.
FairSpec == Spec /\ FairMain

\* No workload hangs.
HealthySpec == FairSpec /\ FairMeasure /\ FairThreads

-----------------------------------------------------------------------------
(* Properties. *)

TypeOK ==
  /\ mpc \in MainPC /\ grad \in 1..(NumGradients + 1) /\ idx \in Task
  /\ budget \in BOOLEAN /\ suppress \in BOOLEAN
  /\ arrays \in {"none", "live", "freed"}
  /\ gate \in BOOLEAN /\ sem \in Nat
  /\ jobs \in [Task -> Nat] /\ misses \in [Task -> Nat]
  /\ lastJobs \in [Task -> Nat] /\ age \in [Task -> Nat]
  /\ done \in BOOLEAN /\ allStalled \in BOOLEAN
  /\ ctx \in [Grad -> {"none", "live", "freed"}]
  /\ running \in [Thread -> BOOLEAN]
  /\ handle \in [Thread -> {"none", "joinable", "joined", "detached"}]
  /\ pc \in [Thread -> ThreadPC]
  /\ phase \in [Thread -> {"init", "exec", "teardown"}]
  /\ resJobs \in [Grad -> Nat] /\ resMisses \in [Grad -> Nat]
  /\ status \in [Grad -> {"none", "failed", "partial", "complete"}]

Orphan(th) == handle[th] = "detached"

\* No thread was abandoned before gradient g started: its statistics have
\* one writer each.
Untainted(g) == \A th \in Thread : Orphan(th) => th[1] >= g

\* A gradient the watchdog calls complete, when no thread of an earlier one
\* was abandoned, counts exactly Cycles jobs per task and at most one miss
\* per job: the aggregation races with no task.
CompleteIsExact ==
  \A g \in Grad :
    status[g] = "complete" /\ Untainted(g) /\ g < grad =>
      resJobs[g] = NumTasks * Cycles /\ resMisses[g] <= resJobs[g]

\* While the gate exists at most one workload is in init, exec or teardown
\* (test_schedule.c:69), abandoned threads included.
GateMutex ==
  gate => \A th1, th2 \in Thread :
            pc[th1] = "inside" /\ pc[th2] = "inside" => th1 = th2

\* Contexts are freed only when every thread that points to them has
\* finished (test_schedule.c:1030).
NoContextUseAfterFree ==
  \A th \in Thread : ctx[th[1]] = "freed" => pc[th] = "done"

\* The tasks and statistics arrays are freed when no thread that is still the
\* command's own can touch them (test_schedule.c:1376): only an abandoned thread
\* may be late for them.
ArraysOutliveManaged ==
  arrays = "freed" =>
    \A th \in Thread : pc[th] \notin {"none", "exit", "done"} => Orphan(th)

\* Between gradients no started thread is left unreaped: each is joined, or
\* detached if it still runs (test_schedule.c:1059).
NoUnreapedThread ==
  mpc \in {"gradient", "cleanup", "destroyGate", "returned"} =>
    \A th \in Thread :
      /\ handle[th] # "joinable"
      /\ pc[th] # "none" => handle[th] # "none"

\* Output is suppressed as long as a thread that has not been reaped may
\* run a workload (test_schedule.c:59).
SuppressedWhileManaged ==
  \A th \in Thread :
    handle[th] = "joinable" /\ pc[th] = "inside" => suppress

\* An abandoned thread finishes the job it is in and starts no other one.
OrphansStartNoJob ==
  [][\A th \in Thread :
       Orphan(th) /\ pc[th] = "sleep" /\ pc'[th] # "sleep" =>
         phase'[th] = "teardown"]_vars

\* With budget left, the watchdog gives up a gradient only when it saw every
\* unfinished task without a new job for the task's whole stall window
\* (test_schedule.c:746).
OnlyStalledIsCut ==
  [][mpc = "decide" /\ mpc' = "forced" /\ budget =>
       \A t \in Task :
         Completed(Current(t)) \/ age[t] >= StallWindow[t]]_vars

\* The command reaches Phase 3 and returns whatever the task threads do
\* (test_schedule.c:571 and 1159).  One join has no time limit (:363): only a
\* workload that hangs while it is measured keeps the command for ever.
SweepReturns == <>(mpc = "returned") \/ <>[](mpc = "measure")

\* The sweep as its caller sees it: gradients published one by one, never
\* revised, each complete one exact as long as all before it are complete.
Sweep == INSTANCE ScheduleSweep WITH
  Jobs    <- NumTasks * Cycles,
  count   <- grad - 1,
  outcome <- [g \in Grad |->
                IF g < grad
                  THEN [status |-> status[g], jobs |-> resJobs[g],
                        misses |-> resMisses[g]]
                  ELSE [status |-> "none", jobs |-> 0, misses |-> 0]],
  over    <- mpc \in {"cleanup", "destroyGate", "returned"}

\* The command implements ScheduleSweep.
ImplementsSweep == Sweep!Spec

-----------------------------------------------------------------------------
(* What comments and documents of the code say, and the code does not do.  *)

\* test_schedule.c:772: an abandoned thread drains on its own after the
\* command returns.
OrphansDrain ==
  \A th \in Thread : Orphan(th) ~> Completed(th)
=============================================================================
