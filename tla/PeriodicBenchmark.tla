-------------------------- MODULE PeriodicBenchmark --------------------------
(***************************************************************************)
(* One call of periodic_benchmark (generator/periodic_benchmark.c): the    *)
(* benchmark thread runs one job per post of period_sem; the callback of   *)
(* the period timer reports the job that has ended, resets the shared      *)
(* reporting variables and posts; the callback of the deadline timer       *)
(* stamps the deadline.  Nothing but the order of the statements protects  *)
(* the shared variables, so each access to them is a step.                 *)
(*                                                                         *)
(* Timestamps are abstract: the end of a job is the job's number, 0 before *)
(* it is written; a deadline stamp says which deadline of the job it is.   *)
(* Every timestamp is kept twice, in clock cycles and in seconds; the two  *)
(* copies differ only for the end of a job, which the benchmark thread     *)
(* writes while the callbacks run.                                         *)
(***************************************************************************)
EXTENDS Integers, FiniteSets

CONSTANTS
  Jobs,           \* tasks_to_launch
  Callbacks,      \* contexts that can run a period callback at a time
  DeadlineInUse,  \* does the deadline differ from the period?
  Rearms,         \* does settime restart a one-shot timer that has fired?
  OnDelete,       \* deleting a timer waits for its callback, leaves it running or aborts it
  Duration,       \* may the duration limit end the run early?
  Prompt,         \* are callbacks over before the next timer expires?
  Failures        \* may creating the semaphore and the timers, or a wait, fail?

ASSUME ConstantsAssumption ==
  /\ Jobs \in Nat \ {0}
  /\ IsFiniteSet(Callbacks) /\ Callbacks # {}
  /\ OnDelete \in {"waits", "leaves", "aborts"}
  /\ {DeadlineInUse, Rearms, Duration, Prompt, Failures} \subseteq BOOLEAN

VARIABLES
  mpc,        \* where the benchmark thread is
  launched,   \* tasks_launched
  result,     \* what the call or the process ended with
  semObj,     \* is period_sem non-NULL?
  sem,        \* its count
  dTimer,     \* deadline_timer: none, idle, armed, fired, freed, null
  pTimer,     \* period_timer
  started,    \* is job_period_start_timestamp set?
  periodEnd,  \* is job_period_end_timestamp set?
  endClocks,  \* job_end_timestamp_clocks
  endSeconds, \* job_end_timestamp
  dline,      \* job_deadline_timestamp, as a stamp
  last,       \* last_deadline_timestamp: none, job (the same) or other
  expired,    \* history: deadlines since the job's period started, up to 2
  hpc,        \* where each period callback is
  dpc,        \* the running deadline callback: the deadline it stands for
  report      \* the last line printed

mainVars  == <<mpc, launched, result>>
timerVars == <<dTimer, pTimer>>
semVars   == <<semObj, sem>>
markVars  == <<started, periodEnd, endClocks, endSeconds, dline, last, expired>>
vars == <<mainVars, semVars, timerVars, markVars, hpc, dpc, report>>

\* The stamp of a deadline: the first since the job's period started, a later
\* one, or one of a period that is over.
Stamps == {"none", "first", "later", "stale"}

NoReport == [kind |-> "none", clocks |-> 0, seconds |-> 0, deadline |-> "none", expired |-> 0]

Init ==
  /\ mpc = "createSem" /\ launched = 0 /\ result = "none"
  /\ semObj = FALSE /\ sem = 0
  /\ dTimer = "none" /\ pTimer = "none"
  /\ started = FALSE /\ periodEnd = FALSE
  /\ endClocks = 0 /\ endSeconds = 0 /\ dline = "none" /\ last = "none" /\ expired = 0
  /\ hpc = [c \in Callbacks |-> "idle"] /\ dpc = "idle"
  /\ report = NoReport

\* exit(EXIT_FAILURE) from a callback ends the process, wherever its threads
\* are; what a use of freed memory does is not followed.
Alive == result \notin {"exitFailure", "usedFreed"}

-----------------------------------------------------------------------------
(* The benchmark thread. *)

\* A failed step of the setup returns at once: what was created before stays.
Create(from, to) ==
  /\ mpc = from
  /\ \/ mpc' = to /\ UNCHANGED result
     \/ Failures /\ mpc' = "returned" /\ result' = "error"

CreateSem ==
  /\ Create("createSem", "setup")
  /\ semObj' = (mpc' = "setup")
  /\ UNCHANGED <<launched, sem, timerVars, markVars, hpc, dpc, report>>

\* Exit handler, affinity, output file, the benchmark's own initialisation.
Setup ==
  /\ Create("setup", "createDeadline")
  /\ UNCHANGED <<launched, semVars, timerVars, markVars, hpc, dpc, report>>

CreateDeadlineTimer ==
  /\ IF DeadlineInUse
       THEN /\ Create("createDeadline", "createPeriod")
            /\ dTimer' = IF mpc' = "createPeriod" THEN "idle" ELSE "null"
       ELSE /\ mpc = "createDeadline" /\ mpc' = "createPeriod"
            /\ UNCHANGED <<result, dTimer>>
  /\ UNCHANGED <<launched, semVars, pTimer, markVars, hpc, dpc, report>>

CreatePeriodTimer ==
  /\ Create("createPeriod", "armPeriod")
  /\ pTimer' = IF mpc' = "armPeriod" THEN "idle" ELSE "null"
  /\ UNCHANGED <<launched, semVars, dTimer, markVars, hpc, dpc, report>>

ArmPeriodTimer ==
  /\ Create("armPeriod", "loop")
  /\ pTimer' = IF mpc' = "loop" THEN "armed" ELSE pTimer
  /\ UNCHANGED <<launched, semVars, dTimer, markVars, hpc, dpc, report>>

\* Mutant: one job too many.
BugLoopHead ==
  /\ mpc = "loop"
  /\ mpc' \in IF launched <= Jobs THEN {"wait"} ELSE {"finalWait"}
  /\ UNCHANGED <<launched, result, semVars, timerVars, markVars, hpc, dpc, report>>

\* The duration limit is looked at before each job.
LoopHead ==
  /\ mpc = "loop"
  /\ \/ launched < Jobs /\ mpc' = "wait"
     \/ launched = Jobs /\ mpc' = "finalWait"
     \/ launched < Jobs /\ Duration /\ mpc' = "finalWait"
  /\ UNCHANGED <<launched, result, semVars, timerVars, markVars, hpc, dpc, report>>

TakeSem ==
  /\ mpc = "wait" /\ sem > 0
  /\ sem' = sem - 1 /\ mpc' = "exec"
  /\ UNCHANGED <<launched, result, semObj, timerVars, markVars, hpc, dpc, report>>

\* The wait fails: the call returns, with its timers and its semaphore in use.
TakeSemFails ==
  /\ Failures /\ mpc = "wait"
  /\ mpc' = "left" /\ result' = "error"
  /\ UNCHANGED <<launched, semVars, timerVars, markVars, hpc, dpc, report>>

\* benchmark_execution returns after any time.
JobEnds ==
  /\ mpc = "exec" /\ mpc' = "markClocks"
  /\ UNCHANGED <<launched, result, semVars, timerVars, markVars, hpc, dpc, report>>

MarkEndClocks ==
  /\ mpc = "markClocks" /\ mpc' = "markSeconds"
  /\ endClocks' = launched + 1
  /\ UNCHANGED <<launched, result, semVars, timerVars, started, periodEnd,
                 endSeconds, dline, last, expired, hpc, dpc, report>>

MarkEndSeconds ==
  /\ mpc = "markSeconds" /\ mpc' = "loop"
  /\ endSeconds' = launched + 1
  /\ launched' = launched + 1
  /\ UNCHANGED <<result, semVars, timerVars, started, periodEnd, endClocks,
                 dline, last, expired, hpc, dpc, report>>

\* Whether the last wait has failed is not looked at.
FinalWait ==
  /\ mpc = "finalWait" /\ mpc' = "freeDeadline"
  /\ \/ sem > 0 /\ sem' = sem - 1
     \/ Failures /\ sem' = sem
  /\ UNCHANGED <<launched, result, semObj, timerVars, markVars, hpc, dpc, report>>

\* stop_benchmark: delete the deadline timer...
FreeDeadlineTimer ==
  /\ mpc = "freeDeadline"
  /\ IF dTimer \in {"none", "null"}
       THEN mpc' = "freePeriod" /\ UNCHANGED <<dTimer, dpc>>
       ELSE /\ OnDelete = "waits" => dpc = "idle"
            /\ mpc' = "nullDeadline" /\ dTimer' = "freed"
            /\ dpc' = IF OnDelete = "aborts" THEN "idle" ELSE dpc
  /\ UNCHANGED <<launched, result, semVars, pTimer, markVars, hpc, report>>

\* ... clear the pointer ...
NullDeadlineTimer ==
  /\ mpc = "nullDeadline" /\ mpc' = "freePeriod"
  /\ dTimer' = "null"
  /\ UNCHANGED <<launched, result, semVars, pTimer, markVars, hpc, dpc, report>>

\* Mutant: the running callback is not waited for.
BugFreePeriodTimer ==
  /\ mpc = "freePeriod"
  /\ pTimer' = "null" /\ mpc' = "destroySem"
  /\ UNCHANGED <<launched, result, semVars, dTimer, markVars, hpc, dpc, report>>

\* ... the same for the period timer (no callback uses this pointer) ...
FreePeriodTimer ==
  /\ mpc = "freePeriod"
  /\ OnDelete = "waits" => \A c \in Callbacks : hpc[c] = "idle"
  /\ hpc' = IF OnDelete = "aborts" THEN [c \in Callbacks |-> "idle"] ELSE hpc
  /\ pTimer' = "null" /\ mpc' = "destroySem"
  /\ UNCHANGED <<launched, result, semVars, dTimer, markVars, dpc, report>>

\* ... then the semaphore; the teardown of the benchmark follows.
DestroySem ==
  /\ mpc = "destroySem"
  /\ semObj' = FALSE /\ sem' = 0
  /\ mpc' = "returned" /\ result' = "success"
  /\ UNCHANGED <<launched, timerVars, markVars, hpc, dpc, report>>

-----------------------------------------------------------------------------
(* The period callback, handle_period. *)

\* A deadline expires: its stamp, and the history of the job's period.
Stamp == IF expired = 0 THEN "first" ELSE "later"
OneMoreExpired == IF expired = 2 THEN 2 ELSE expired + 1

\* The period timer expires.  A deadline is never longer than the period, so
\* prompt callbacks see the deadline of a period before its end.
PeriodExpires(c) ==
  /\ Alive /\ pTimer = "armed" /\ hpc[c] = "idle"
  /\ Prompt => dTimer # "armed" /\ dpc = "idle" /\ \A o \in Callbacks : hpc[o] = "idle"
  /\ hpc' = [hpc EXCEPT ![c] = "entry"]
  /\ UNCHANGED <<mainVars, semVars, timerVars, markVars, dpc, report>>

\* Mutant: without a deadline timer the job's deadline is always the last one.
BugPeriodEntry(c) ==
  /\ Alive /\ hpc[c] = "entry"
  /\ periodEnd' = TRUE
  /\ IF DeadlineInUse
       THEN UNCHANGED <<dline, last, expired, dTimer>>
       ELSE /\ dline' = Stamp /\ last' = "job"
            /\ expired' = OneMoreExpired
            /\ UNCHANGED dTimer
  /\ hpc' = [hpc EXCEPT ![c] = "test"]
  /\ UNCHANGED <<mainVars, semVars, pTimer, started, endClocks, endSeconds, dpc, report>>

\* Latch the period's end; rearm the deadline timer, or stamp the deadline.
\* rtbench_timer_settime fails on a cleared pointer, and the callback exits
\* the process; before the pointer is cleared, it uses the freed timer.
PeriodEntry(c) ==
  /\ Alive /\ hpc[c] = "entry"
  /\ periodEnd' = TRUE
  /\ IF DeadlineInUse
       THEN /\ dTimer' = IF dTimer = "idle" \/ (dTimer = "fired" /\ Rearms)
                           THEN "armed" ELSE dTimer
            /\ result' = IF dTimer = "null" THEN "exitFailure"
                         ELSE IF dTimer = "freed" THEN "usedFreed" ELSE result
            /\ UNCHANGED <<dline, last, expired>>
       ELSE /\ dline' = IF dline = "none" THEN Stamp ELSE dline
            /\ last' = IF dline = "none" THEN "job" ELSE "other"
            /\ expired' = OneMoreExpired
            /\ UNCHANGED <<dTimer, result>>
  /\ hpc' = [hpc EXCEPT ![c] = "test"]
  /\ UNCHANGED <<mpc, launched, semVars, pTimer, started, endClocks, endSeconds,
                 dpc, report>>

Ended == endClocks > 0 \/ endSeconds > 0

\* The decision to report: a job, a skipped deadline or nothing.
TestReport(c) ==
  /\ Alive /\ hpc[c] = "test"
  /\ hpc' = [hpc EXCEPT ![c] = IF started /\ Ended THEN "report" ELSE "decide"]
  /\ report' = IF started /\ ~Ended /\ last = "other"
                 THEN [NoReport EXCEPT !.kind = "skipped", !.expired = expired] ELSE report
  /\ UNCHANGED <<mainVars, semVars, timerVars, markVars, dpc>>

ReportJob(c) ==
  /\ Alive /\ hpc[c] = "report"
  /\ report' = [kind |-> "job", clocks |-> endClocks, seconds |-> endSeconds,
                deadline |-> dline, expired |-> expired]
  /\ hpc' = [hpc EXCEPT ![c] = "decide"]
  /\ UNCHANGED <<mainVars, semVars, timerVars, markVars, dpc>>

\* Mutant: the first period is not started.
BugDecideReset(c) ==
  /\ Alive /\ hpc[c] = "decide"
  /\ hpc' = [hpc EXCEPT ![c] = IF Ended THEN "reset" ELSE "idle"]
  /\ UNCHANGED <<mainVars, semVars, timerVars, markVars, dpc, report>>

DecideReset(c) ==
  /\ Alive /\ hpc[c] = "decide"
  /\ hpc' = [hpc EXCEPT ![c] = IF Ended \/ ~started THEN "reset" ELSE "idle"]
  /\ UNCHANGED <<mainVars, semVars, timerVars, markVars, dpc, report>>

\* Mutant: the job's deadline is not reset.
BugResetClocks(c) ==
  /\ Alive /\ hpc[c] = "reset"
  /\ started' = TRUE /\ periodEnd' = FALSE /\ endClocks' = 0 /\ expired' = 0
  /\ dpc' = IF dpc = "idle" THEN dpc ELSE "stale"
  /\ hpc' = [hpc EXCEPT ![c] = "resetSeconds"]
  /\ UNCHANGED <<mainVars, semVars, timerVars, endSeconds, dline, last, report>>

\* A new period starts: a deadline callback still running belongs to the old.
ResetClocks(c) ==
  /\ Alive /\ hpc[c] = "reset"
  /\ started' = TRUE /\ periodEnd' = FALSE /\ endClocks' = 0
  /\ dline' = "none" /\ expired' = 0
  /\ last' = IF last = "none" THEN "none" ELSE "other"
  /\ dpc' = IF dpc = "idle" THEN dpc ELSE "stale"
  /\ hpc' = [hpc EXCEPT ![c] = "resetSeconds"]
  /\ UNCHANGED <<mainVars, semVars, timerVars, endSeconds, report>>

\* Mutant: only a job that was reported is followed by the next.
BugResetSeconds(c) ==
  /\ Alive /\ hpc[c] = "resetSeconds"
  /\ endSeconds' = 0
  /\ hpc' = [hpc EXCEPT ![c] = IF report.kind = "job" THEN "post" ELSE "idle"]
  /\ UNCHANGED <<mainVars, semVars, timerVars, started, periodEnd, endClocks,
                 dline, last, expired, dpc, report>>

ResetSeconds(c) ==
  /\ Alive /\ hpc[c] = "resetSeconds"
  /\ endSeconds' = 0
  /\ hpc' = [hpc EXCEPT ![c] = "post"]
  /\ UNCHANGED <<mainVars, semVars, timerVars, started, periodEnd, endClocks,
                 dline, last, expired, dpc, report>>

\* Posting a destroyed semaphore fails, and the callback exits the process.
PostSem(c) ==
  /\ Alive /\ hpc[c] = "post"
  /\ sem' = IF semObj THEN sem + 1 ELSE sem
  /\ result' = IF semObj THEN result ELSE "exitFailure"
  /\ hpc' = [hpc EXCEPT ![c] = "idle"]
  /\ UNCHANGED <<mpc, launched, semObj, timerVars, markVars, dpc, report>>

-----------------------------------------------------------------------------
(* The deadline timer. *)

DeadlineExpires ==
  /\ Alive /\ dTimer = "armed" /\ dpc = "idle"
  /\ Prompt => \A c \in Callbacks : hpc[c] = "idle"
  /\ dTimer' = "fired" /\ dpc' = Stamp /\ expired' = OneMoreExpired
  /\ UNCHANGED <<mainVars, semVars, pTimer, started, periodEnd, endClocks,
                 endSeconds, dline, last, hpc, report>>

\* Mutant: the stamp always replaces the one there is.
BugStampDeadline ==
  /\ Alive /\ dpc # "idle"
  /\ dline' = dpc
  /\ last' = IF dline = "none" THEN "job" ELSE "other"
  /\ dpc' = "idle"
  /\ UNCHANGED <<mainVars, semVars, timerVars, started, periodEnd, endClocks,
                 endSeconds, expired, hpc, report>>

\* handle_deadline: the first deadline since the period started is the job's.
StampDeadline ==
  /\ Alive /\ dpc # "idle"
  /\ dline' = IF dline = "none" THEN dpc ELSE dline
  /\ last' = IF dline = "none" THEN "job" ELSE "other"
  /\ dpc' = "idle"
  /\ UNCHANGED <<mainVars, semVars, timerVars, started, periodEnd, endClocks,
                 endSeconds, expired, hpc, report>>

-----------------------------------------------------------------------------
BenchmarkStep ==
  /\ Alive
  /\ \/ CreateSem \/ Setup \/ CreateDeadlineTimer \/ CreatePeriodTimer \/ ArmPeriodTimer
     \/ LoopHead \/ TakeSem \/ TakeSemFails \/ JobEnds \/ MarkEndClocks \/ MarkEndSeconds
     \/ FinalWait \/ FreeDeadlineTimer \/ NullDeadlineTimer \/ FreePeriodTimer
     \/ DestroySem

PeriodCallback(c) ==
  \/ PeriodEntry(c) \/ TestReport(c) \/ ReportJob(c) \/ DecideReset(c)
  \/ ResetClocks(c) \/ ResetSeconds(c) \/ PostSem(c)

DeadlineCallback == StampDeadline

Next ==
  \/ BenchmarkStep
  \/ \E c \in Callbacks : PeriodExpires(c) \/ PeriodCallback(c)
  \/ DeadlineExpires \/ DeadlineCallback

Spec == Init /\ [][Next]_vars

\* What the benchmark thread owes: a wait may fail, but need not.
BenchmarkGoesOn == BenchmarkStep /\ (mpc \in {"wait", "finalWait"} => sem' < sem)

\* Jobs end, the timers expire again and again, callbacks are scheduled.
FairSpec ==
  /\ Spec
  /\ WF_vars(BenchmarkGoesOn)
  /\ WF_vars(DeadlineExpires) /\ WF_vars(DeadlineCallback)
  /\ \A c \in Callbacks : WF_vars(PeriodExpires(c)) /\ WF_vars(PeriodCallback(c))

-----------------------------------------------------------------------------
(* Properties. *)

MainPcs == {"createSem", "setup", "createDeadline", "createPeriod", "armPeriod", "loop", "wait",
            "exec", "markClocks", "markSeconds", "finalWait", "freeDeadline",
            "nullDeadline", "freePeriod", "destroySem", "returned", "left"}

CallbackPcs == {"idle", "entry", "test", "report", "decide", "reset", "resetSeconds", "post"}

\* The types of the variables.
TypeOK ==
  /\ mpc \in MainPcs /\ launched \in 0..Jobs
  /\ result \in {"none", "success", "error", "exitFailure", "usedFreed"}
  /\ semObj \in BOOLEAN /\ sem \in Nat
  /\ dTimer \in {"none", "idle", "armed", "fired", "freed", "null"}
  /\ pTimer \in {"none", "idle", "armed", "null"}
  /\ started \in BOOLEAN /\ periodEnd \in BOOLEAN
  /\ endClocks \in 0..Jobs /\ endSeconds \in 0..Jobs
  /\ dline \in Stamps /\ last \in {"none", "job", "other"} /\ expired \in 0..2
  /\ hpc \in [Callbacks -> CallbackPcs]
  /\ dpc \in (Stamps \ {"none"}) \cup {"idle"}
  /\ report \in [kind : {"none", "job", "skipped"}, clocks : 0..Jobs, seconds : 0..Jobs,
                  deadline : Stamps, expired : 0..2]

\* The semaphore of the benchmark thread (periodic_benchmark.c:679-682, 713-715)
\* is never left without a reason to be posted: while the thread waits for it,
\* it is available, or a callback is about to post it, or the next period
\* callback will, as the end of a job stands or no period has started.
NoLostWakeup ==
  (mpc \in {"wait", "finalWait"} /\ Alive) =>
    \/ sem > 0
    \/ \E c \in Callbacks : hpc[c] \in {"reset", "resetSeconds", "post"}
    \/ Ended \/ ~started

\* stop_benchmark and what follows: the output is closed (:145-152).
Teardown == {"freeDeadline", "nullDeadline", "freePeriod", "destroySem", "returned"}

\* The deadline printed with a job is the first since the job's period started
\* (:94), not one of an earlier job, not a later one, and not missing.
FirstDeadlineReported ==
  report.kind = "job" /\ mpc \notin Teardown => report.deadline = "first"

\* A skipped deadline is printed only when a deadline after the first of the
\* running job was missed (:276-278).
SkipIsLaterDeadline ==
  report.kind = "skipped" /\ mpc \notin Teardown => report.expired = 2

\* A callback that finds the benchmark torn down ends the process with
\* exit(EXIT_FAILURE), or uses a timer that is freed.  That needs a deadline timer
\* of its own, deleted and its pointer cleared while the period timer still fires
\* (:177-183, :302).  The semaphore is there as long as any callback is, unless
\* callbacks outlive their timer (OnDelete = "leaves").
NoFailureExit == ~Alive => dTimer \in {"freed", "null"}

\* Every call ends: all jobs get their period and the last wait is answered.
Terminates == <>(mpc \in {"returned", "left"} \/ ~Alive)

\* A job is reported when it "has terminated its execution" (:267-268), and not
\* while the benchmark thread executes it or the next.
ReportsEndedJobs == \A c \in Callbacks : hpc[c] = "report" => mpc # "exec"
=============================================================================
