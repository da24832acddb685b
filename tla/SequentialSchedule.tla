-------------------------- MODULE SequentialSchedule --------------------------
(***************************************************************************)
(* test_schedule_run_custom (generator/test_schedule.c) on boards that     *)
(* bear no concurrency (TEST_SCHEDULE_SEQUENTIAL): workloads are chosen    *)
(* from the registry and measured, each gradient distributes a utilization *)
(* over them (uunifast.c) and derives their periods from it, and the jobs  *)
(* of one task after the other are run, each task on a thread that is      *)
(* joined before the next, so that one thread at a time does anything.     *)
(***************************************************************************)
EXTENDS SequentialOptions, FiniteSets, Functions

CONSTANT MayFail  \* may calloc fail?

VARIABLES
  mpc,          \* where the command is
  next,         \* i of the loop over the registry
  tasks,        \* sequence of [wcet, utilization, deadline]; the period is the deadline
  gradient_idx,
  budget,       \* is test_deadline_ts still ahead?
  suppress,     \* g_sched_suppress_output
  idx,          \* the task whose jobs run
  stats,        \* sequence of [jobs, misses]
  response, failed,  \* of the job that has just run: response_ns, exec_rc # 0
  outcome       \* g_result.gradients

jobVars == <<idx, stats, response, failed>>
vars == <<mpc, next, tasks, gradient_idx, budget, suppress, jobVars, outcome>>

NoOutcome == [status |-> "none", jobs |-> 0, misses |-> 0]

Init ==
  /\ mpc = "begin" /\ next = 1 /\ tasks = <<>>
  /\ gradient_idx = 0 /\ budget = TRUE /\ suppress = FALSE
  /\ idx = 1 /\ stats = <<>> /\ response = 0 /\ failed = FALSE
  /\ outcome = [g \in 1..MaxGradients |-> NoOutcome]

-----------------------------------------------------------------------------
(* Phase 1. *)

Least(a, b) == IF a < b THEN a ELSE b

\* The size of the arrays: excluded workloads count, builtin ones do not.
num_workloads ==
  Least(MaxTasks, Cardinality({i \in DOMAIN Registry : Registry[i] # "builtin"}))

\* The arrays are allocated, or the command returns.
Begin ==
  /\ mpc = "begin"
  /\ mpc' \in IF num_workloads = 0 THEN {"returned"}
              ELSE {"measure"} \cup (IF MayFail THEN {"returned"} ELSE {})
  /\ UNCHANGED <<next, tasks, gradient_idx, budget, suppress, jobVars, outcome>>

Scanning == next <= Len(Registry) /\ Len(tasks) < num_workloads

\* One turn of the loop: a workload is skipped, or measured.
MeasureNext ==
  /\ mpc = "measure" /\ Scanning
  /\ IF Registry[next] = "industrial"
       THEN \E w \in Durations :
              tasks' = Append(tasks, [wcet |-> w, utilization |-> 0, deadline |-> 0])
       ELSE UNCHANGED tasks
  /\ next' = next + 1
  /\ UNCHANGED <<mpc, gradient_idx, budget, suppress, jobVars, outcome>>

\* What qsort may make of s: its elements in descending order of their keys.
Sorted(s, key) ==
  {[i \in DOMAIN s |-> s[q[i]]] :
     q \in {q \in Bijection(DOMAIN s, DOMAIN s) :
             \A i, j \in DOMAIN s : i < j => key[q[i]] >= key[q[j]]}}

\* Nothing was found to run, or the tasks are sorted by WCET.
SortTasks ==
  /\ mpc = "measure" /\ ~Scanning
  /\ mpc' = IF tasks = <<>> THEN "returned" ELSE "gradient"
  /\ tasks' \in Sorted(tasks, [i \in DOMAIN tasks |-> tasks[i].wcet])
  /\ UNCHANGED <<next, gradient_idx, budget, suppress, jobVars, outcome>>

-----------------------------------------------------------------------------
(* uunifast. *)

\* Mutant: the result of pow is taken as it is.
BugFactor(p) == p

Factor(p) == IF p < 0 THEN 0 ELSE Least(p, PowOne)

\* sum_u before the turns of the loop, for the results of pow in p; the last task
\* takes what is left.
remaining(n, u_total, p) ==
  LET sum_u[i \in 0..n] ==
        IF i = 0 THEN u_total ELSE IF i = n THEN 0 ELSE (sum_u[i - 1] * Factor(p[i])) \div PowOne
  IN sum_u

\* output_u: each task gets what the rest does not.
uunifast(n, u_total, p) ==
  LET sum_u == remaining(n, u_total, p) IN [i \in 1..n |-> sum_u[i - 1] - sum_u[i]]

-----------------------------------------------------------------------------
(* Phase 2. *)

num_gradients == Least(MaxGradients, (UtilEnd - UtilStart) \div UtilStep + 1)

target_u == UtilStart + gradient_idx * UtilStep

Sanitized(u) == IF u <= 0 THEN 0 ELSE Least(u, Whole)

\* Mutant: the utilization that sizes the period is the target of all tasks.
BugPeriod(wcet, u) ==
  Least(MaxPeriod, IF u > Low THEN (wcet * u) \div Whole ELSE LongPeriod)

Period(wcet, u) ==
  Least(MaxPeriod, IF u > Low THEN (wcet * Whole) \div u ELSE LongPeriod)

AssignPeriods(generated_u) ==
  tasks' = [i \in DOMAIN tasks |->
    LET u == Sanitized(generated_u[i])
    IN [tasks[i] EXCEPT !.utilization = u, !.deadline = Period(tasks[i].wcet, u)]]

Publish(o) ==
  /\ outcome' = [outcome EXCEPT ![gradient_idx + 1] = o]
  /\ gradient_idx' = gradient_idx + 1

\* Mutant: the statistics of the last gradient stand.
BugResetStats ==
  stats' = IF stats = <<>> THEN [i \in DOMAIN tasks |-> [jobs |-> 0, misses |-> 0]] ELSE stats

ResetStats == stats' = [i \in DOMAIN tasks |-> [jobs |-> 0, misses |-> 0]]

\* A task set is generated and run; without its contexts it counts as run.
StartGradient ==
  /\ mpc = "gradient" /\ gradient_idx < num_gradients /\ budget
  /\ \E p \in [1..(Len(tasks) - 1) -> PowResults] :
       LET output_u == uunifast(Len(tasks), target_u, p)
       IN \E generated_u \in Sorted(output_u, output_u) : AssignPeriods(generated_u)
  /\ \/ /\ mpc' = "exec" /\ idx' = 1 /\ suppress' = TRUE
        /\ ResetStats
        /\ UNCHANGED <<gradient_idx, response, failed, outcome>>
     \/ /\ MayFail
        /\ Publish([status |-> "failed", jobs |-> 0, misses |-> 0])
        /\ UNCHANGED <<mpc, suppress, jobVars>>
  /\ UNCHANGED <<next, budget>>

\* The workload of the task runs once.
Exec ==
  /\ mpc = "exec" /\ mpc' = "account"
  /\ response' \in Durations /\ failed' \in BOOLEAN
  /\ UNCHANGED <<next, tasks, gradient_idx, budget, suppress, idx, stats, outcome>>

Missed == failed \/ response > tasks[idx].deadline

\* The last job of a task is followed by the first of the next task.
Account ==
  /\ mpc = "account"
  /\ stats' = [stats EXCEPT ![idx].jobs = @ + 1, ![idx].misses = IF Missed THEN @ + 1 ELSE @]
  /\ IF stats[idx].jobs + 1 < SeqCycles
       THEN mpc' = "exec" /\ UNCHANGED idx
       ELSE /\ mpc' = IF idx < Len(tasks) THEN "exec" ELSE "aggregate"
            /\ idx' = IF idx < Len(tasks) THEN idx + 1 ELSE 1
  /\ response' = 0 /\ failed' = FALSE
  /\ UNCHANGED <<next, tasks, gradient_idx, budget, suppress, outcome>>

Total(s) == SumFunction(s)

Aggregate ==
  /\ mpc = "aggregate" /\ mpc' = "gradient" /\ suppress' = FALSE
  /\ Publish([status |-> "complete",
              jobs   |-> Total([i \in DOMAIN stats |-> stats[i].jobs]),
              misses |-> Total([i \in DOMAIN stats |-> stats[i].misses])])
  /\ UNCHANGED <<next, tasks, budget, jobVars>>

\* Phase 3, of the gradients published.
Finish ==
  /\ mpc = "gradient" /\ (gradient_idx >= num_gradients \/ ~budget)
  /\ mpc' = "returned"
  /\ UNCHANGED <<next, tasks, gradient_idx, budget, suppress, jobVars, outcome>>

\* The budget is looked at between gradients only.
BudgetExpires ==
  /\ budget /\ mpc \notin {"begin", "returned"} /\ budget' = FALSE
  /\ UNCHANGED <<mpc, next, tasks, gradient_idx, suppress, jobVars, outcome>>

Next ==
  \/ Begin \/ MeasureNext \/ SortTasks
  \/ StartGradient \/ Exec \/ Account \/ Aggregate \/ Finish \/ BudgetExpires

Spec == Init /\ [][Next]_vars

-----------------------------------------------------------------------------
(* Properties. *)

\* The types of the variables.
TypeOK ==
  /\ mpc \in {"begin", "measure", "gradient", "exec", "account", "aggregate", "returned"}
  /\ next \in 1..(Len(Registry) + 1) /\ Len(tasks) <= num_workloads
  /\ gradient_idx \in 0..num_gradients /\ budget \in BOOLEAN /\ suppress \in BOOLEAN
  /\ idx \in Nat \ {0} /\ response \in {0} \cup Durations /\ failed \in BOOLEAN
  /\ \A i \in DOMAIN stats : stats[i].jobs \in Nat /\ stats[i].misses \in Nat

\* Whatever pow returns, the utilizations of a task set sum up to the target and
\* none is outside 0..target (test_schedule.c:1255-1256, uunifast.c:41-48), so that
\* the sanitization that follows changes nothing.
UtilizationsSumToTarget ==
  mpc \in {"exec", "account", "aggregate"} =>
    /\ \A i \in DOMAIN tasks : tasks[i].utilization \in 0..target_u
    /\ Total([i \in DOMAIN tasks |-> tasks[i].utilization]) = target_u

\* A bound on periods that is shorter than the task.
CutShort(t) == t.wcet > MaxPeriod \/ (t.utilization <= Low /\ t.wcet > LongPeriod)

\* "With period >= WCET this never misses" (test_schedule.c:889-890): a job counts
\* as missed only if it failed, took longer than any execution measured, or the
\* period was cut below what was measured.
MissesAreExplained ==
  [][\A i \in DOMAIN stats :
       mpc = "account" /\ i \in DOMAIN stats' /\ stats'[i].misses > stats[i].misses =>
         failed \/ response > tasks[i].wcet \/ CutShort(tasks[i])]_vars

\* Workloads that may be run, up to the capacity of the arrays.
Chosen ==
  Least(MaxTasks, Cardinality({i \in DOMAIN Registry : Registry[i] = "industrial"}))

\* The sweep as its caller sees it, with SeqCycles jobs for every workload that may
\* be run.
Sweep == INSTANCE ScheduleSweep WITH
  NumGradients <- MaxGradients, Jobs <- Chosen * SeqCycles,
  count <- gradient_idx, over <- mpc = "returned"

\* The sequential mode is a ScheduleSweep too: gradients are published in order, no
\* more than there is room for, each with all jobs of its own and no others.
ImplementsSweep == Sweep!Spec
=============================================================================
