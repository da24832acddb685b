----------------------------- MODULE TaskLatency -----------------------------
(***************************************************************************)
(* The test of task creation and deletion on several cores                 *)
(* (generator/realtime_orig/multicore/task_lt.c): a father thread starts   *)
(* the sons, waits until all are prepared, starts the clock and the sons,  *)
(* and stops the clock when all have answered.  Each son creates a number  *)
(* of tmp threads and joins them.  When one of the sons cannot be created  *)
(* the others are released and nothing is measured.                        *)
(***************************************************************************)
EXTENDS MulticoreTest

CONSTANT Creations     \* TEST_REPETITION

ASSUME TaskAssumption == Creations \in Nat \ {0}

VARIABLES
  task_father,      \* none, create, ready, notify, wait, release, join, returned, refused
  task_i,           \* the son its loop is at
  success_count,
  semaphores,       \* live or destroyed
  task_clock,       \* before, running, stopped, or none when cycles = 0
  task_to_father, task_to_son,  \* son_to_father and father_to_son, their counts
  task_son,         \* of each son: none, start, ready, work, join, clear, ended
  made, running, joined         \* its tmp threads: created, still running, joined

taskFatherVars == <<task_father, task_i, success_count, semaphores, task_clock>>
taskSonVars == <<task_son, made, running, joined>>
taskVars == <<taskFatherVars, taskSonVars, task_to_father, task_to_son>>

TaskInit ==
  /\ task_father = "none" /\ task_i = 1 /\ success_count = 0 /\ task_clock = "before"
  /\ task_son = [p \in Number |-> "none"]
  /\ made = [p \in Number |-> 0] /\ running = [p \in Number |-> 0] /\ joined = [p \in Number |-> 0]
  /\ task_to_father = 0 /\ task_to_son = 0 /\ semaphores = "live"

-----------------------------------------------------------------------------
(* father_thread *)

\* A loop over n sons goes on, or the father goes on to step s.
TaskLoop(n, s) ==
  IF task_i < n
  THEN task_i' = task_i + 1 /\ UNCHANGED task_father
  ELSE task_i' = 1 /\ task_father' = s

TaskCreateSon ==
  /\ task_father = "create"
  /\ \/ /\ task_son' = [task_son EXCEPT ![task_i] = "start"]
        /\ success_count' = success_count + 1
        /\ TaskLoop(Concurrency, "ready")
        /\ UNCHANGED task_clock
     \/ /\ "son" \in MayFail
        /\ task_i' = 1 /\ task_father' = IF success_count = 0 THEN "returned" ELSE "release"
        /\ task_clock' = "none"
        /\ UNCHANGED <<task_son, success_count>>
  /\ UNCHANGED <<made, running, joined, task_to_father, task_to_son, semaphores>>

TaskAwaitReady ==
  /\ task_father = "ready" /\ task_to_father > 0
  /\ task_to_father' = task_to_father - 1
  /\ TaskLoop(Concurrency, "notify")
  /\ task_clock' = IF task_i = Concurrency THEN "running" ELSE task_clock
  /\ UNCHANGED <<success_count, taskSonVars, task_to_son, semaphores>>

TaskNotify ==
  /\ task_father = "notify"
  /\ task_to_son' = task_to_son + 1
  /\ TaskLoop(Concurrency, "wait")
  /\ UNCHANGED <<success_count, taskSonVars, task_to_father, semaphores, task_clock>>

TaskAwaitDone ==
  /\ task_father = "wait" /\ task_to_father > 0
  /\ task_to_father' = task_to_father - 1
  /\ TaskLoop(Concurrency, "join")
  /\ task_clock' = IF task_i = Concurrency THEN "stopped" ELSE task_clock
  /\ UNCHANGED <<success_count, taskSonVars, task_to_son, semaphores>>

\* Mutant: nobody releases the sons that exist.
BugTaskRelease ==
  /\ task_father = "release" /\ task_father' = "join" /\ task_i' = 1
  /\ UNCHANGED <<success_count, taskSonVars, task_to_father, task_to_son, semaphores,
                 task_clock>>

\* The sons that exist are released, nothing is waited for.
TaskRelease ==
  /\ task_father = "release"
  /\ task_to_son' = task_to_son + 1
  /\ TaskLoop(success_count, "join")
  /\ UNCHANGED <<success_count, taskSonVars, task_to_father, semaphores, task_clock>>

\* Mutant: the last son is not joined.
BugTaskJoin ==
  /\ task_father = "join" /\ (task_son[task_i] = "ended" \/ task_i = success_count)
  /\ TaskLoop(success_count, "returned")
  /\ UNCHANGED <<success_count, taskSonVars, task_to_father, task_to_son, semaphores,
                 task_clock>>

TaskJoin ==
  /\ task_father = "join" /\ task_son[task_i] = "ended"
  /\ TaskLoop(success_count, "returned")
  /\ UNCHANGED <<success_count, taskSonVars, task_to_father, task_to_son, semaphores,
                 task_clock>>

\* multicore_task_lat: without its father it returns 0, and leaves the semaphores.
TaskCreateFather ==
  /\ task_father = "none"
  /\ task_father' \in {"create"} \cup (IF "father" \in MayFail THEN {"refused"} ELSE {})
  /\ UNCHANGED <<task_i, success_count, semaphores, taskSonVars, task_to_father,
                 task_to_son, task_clock>>

TaskReturn ==
  /\ semaphores = "live" /\ task_father = "returned"
  /\ semaphores' = "destroyed"
  /\ UNCHANGED <<task_father, task_i, success_count, taskSonVars, task_to_father,
                 task_to_son, task_clock>>

TaskFather ==
  \/ TaskCreateFather \/ TaskCreateSon \/ TaskAwaitReady \/ TaskNotify \/ TaskAwaitDone
  \/ TaskRelease \/ TaskJoin \/ TaskReturn

TaskReturned == task_father = "refused" \/ semaphores = "destroyed"

-----------------------------------------------------------------------------
(* son_thread and its tmp threads *)

TaskPrepared(p) ==
  /\ task_son[p] = "start"
  /\ task_to_father' = task_to_father + 1
  /\ task_son' = [task_son EXCEPT ![p] = "ready"]
  /\ UNCHANGED <<taskFatherVars, made, running, joined, task_to_son>>

TaskStarted(p) ==
  /\ task_son[p] = "ready" /\ task_to_son > 0
  /\ task_to_son' = task_to_son - 1
  /\ task_son' = [task_son EXCEPT ![p] = "work"]
  /\ UNCHANGED <<taskFatherVars, made, running, joined, task_to_father>>

TaskCreateTmp(p) ==
  /\ task_son[p] = "work"
  /\ made' = [made EXCEPT ![p] = @ + 1] /\ running' = [running EXCEPT ![p] = @ + 1]
  /\ task_son' = [task_son EXCEPT ![p] = IF made[p] + 1 = Creations THEN "join" ELSE "work"]
  /\ UNCHANGED <<taskFatherVars, joined, task_to_father, task_to_son>>

\* The son answers at once, and clears up afterwards.
TaskCreateTmpFails(p) ==
  /\ "tmp" \in MayFail /\ task_son[p] = "work"
  /\ task_to_father' = task_to_father + 1
  /\ task_son' = [task_son EXCEPT ![p] = "clear"]
  /\ UNCHANGED <<taskFatherVars, made, running, joined, task_to_son>>

TaskTmpEnds(p) ==
  /\ running[p] > 0
  /\ running' = [running EXCEPT ![p] = @ - 1]
  /\ UNCHANGED <<taskFatherVars, task_son, made, joined, task_to_father, task_to_son>>

\* Any of the threads that are over may be the next in tid.
TaskJoinTmp(p) ==
  /\ task_son[p] \in {"join", "clear"} /\ joined[p] < made[p] - running[p]
  /\ joined' = [joined EXCEPT ![p] = @ + 1]
  /\ UNCHANGED <<taskFatherVars, task_son, made, running, task_to_father, task_to_son>>

\* Mutant: the father is told before the threads are joined.
BugTaskFinish(p) ==
  /\ task_son[p] = "join"
  /\ task_to_father' = task_to_father + 1
  /\ task_son' = [task_son EXCEPT ![p] = "clear"]
  /\ UNCHANGED <<taskFatherVars, made, running, joined, task_to_son>>

TaskFinish(p) ==
  /\ task_son[p] = "join" /\ joined[p] = made[p]
  /\ task_to_father' = task_to_father + 1
  /\ task_son' = [task_son EXCEPT ![p] = "ended"]
  /\ UNCHANGED <<taskFatherVars, made, running, joined, task_to_son>>

TaskCleared(p) ==
  /\ task_son[p] = "clear" /\ joined[p] = made[p]
  /\ task_son' = [task_son EXCEPT ![p] = "ended"]
  /\ UNCHANGED <<taskFatherVars, made, running, joined, task_to_father, task_to_son>>

TaskSon(p) ==
  \/ TaskPrepared(p) \/ TaskStarted(p) \/ TaskCreateTmp(p) \/ TaskCreateTmpFails(p)
  \/ TaskJoinTmp(p) \/ TaskFinish(p) \/ TaskCleared(p)

TaskNext == TaskFather \/ \E p \in Number : TaskSon(p) \/ TaskTmpEnds(p)

\* Every thread runs when it can; a tmp thread returns at once.
TaskFairness ==
  WF_taskVars(TaskFather) /\ \A p \in Number : WF_taskVars(TaskSon(p)) /\ WF_taskVars(TaskTmpEnds(p))

TaskSpec == TaskInit /\ [][TaskNext]_taskVars /\ TaskFairness

-----------------------------------------------------------------------------
TaskTypeOK ==
  /\ task_father \in {"none", "create", "ready", "notify", "wait", "release", "join", "returned",
                      "refused"}
  /\ task_i \in Number /\ success_count \in 0..Concurrency
  /\ task_son \in [Number -> {"none", "start", "ready", "work", "join", "clear", "ended"}]
  /\ {made, running, joined} \subseteq [Number -> 0..Creations]
  /\ {task_to_father, task_to_son} \subseteq Nat
  /\ semaphores \in {"live", "destroyed"}
  /\ task_clock \in {"before", "running", "stopped", "none"}

\* The semaphores are destroyed when no son can use them any more, whichever
\* threads could not be created: a son is then over with all its threads.
SemaphoresOutliveSons ==
  semaphores = "destroyed" =>
    \A p \in Number : task_son[p] \in {"none", "ended"} /\ joined[p] = made[p]

\* No son creates a thread before the clock runs, and when it stops each has
\* joined all of its threads, but one that could not create them all.
TaskClockSpansWork ==
  /\ task_clock = "before" => \A p \in Number : made[p] = 0
  /\ task_clock = "stopped" =>
       \A p \in Number :
         \/ joined[p] = Creations
         \/ task_son[p] \in {"clear", "ended"} /\ made[p] < Creations

=============================================================================
