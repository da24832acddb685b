----------------------- MODULE PeriodicBenchmarkProofs -----------------------
(***************************************************************************)
(* Proofs about PeriodicBenchmark, for any number of jobs and of callback  *)
(* contexts that overlap, and for either behaviour of the timers.          *)
(*                                                                         *)
(* NoLostWakeup rests on two facts: the semaphore exists from the loop to  *)
(* the end of the last wait (SemAlive), and until the period timer is      *)
(* armed there is no callback and no period (Quiet).  The wakeup itself is *)
(* due from the moment the end of a job is written, not only from the      *)
(* wait: WakeupDue is NoLostWakeup one step earlier.                       *)
(*                                                                         *)
(* What is printed of the deadlines needs timers that are not late: the    *)
(* two theorems at the end assume Prompt.                                  *)
(***************************************************************************)
EXTENDS PeriodicBenchmark, FiniteSetTheorems, TLAPS

BeforeLoop == {"createSem", "setup", "createDeadline", "createPeriod", "armPeriod"}
Waiting == {"loop", "wait", "finalWait"}

\* The variables the invariants index or compare.
PartTypes ==
  /\ mpc \in MainPcs
  /\ hpc \in [Callbacks -> CallbackPcs]
  /\ sem \in Nat /\ launched \in Nat /\ endClocks \in Nat /\ endSeconds \in Nat

SemAlive == mpc \in Waiting \cup {"exec", "markClocks", "markSeconds"} => semObj = TRUE

Quiet ==
  /\ pTimer # "armed" /\ mpc \in BeforeLoop =>
       started = FALSE /\ \A c \in Callbacks : hpc[c] = "idle"
  /\ mpc \in BeforeLoop => pTimer # "armed"
  /\ mpc \in BeforeLoop \ {"createSem"} => semObj = TRUE

WakeupDue ==
  mpc \in Waiting =>
    \/ sem > 0
    \/ \E c \in Callbacks : hpc[c] \in {"reset", "resetSeconds", "post"}
    \/ Ended \/ ~started

WakeupInv == PartTypes /\ SemAlive /\ Quiet /\ WakeupDue

LEMMA WakeupInit == Init => WakeupInv
  BY DEF Init, WakeupInv, PartTypes, SemAlive, Quiet, WakeupDue, BeforeLoop,
         Waiting, MainPcs, CallbackPcs, Ended

\* A step of the benchmark thread before the loop keeps the timer and the
\* callbacks quiet; entering the loop, no period has started.
LEMMA WakeupBenchmark == WakeupInv /\ BenchmarkStep => WakeupInv'
<1> SUFFICES ASSUME WakeupInv, BenchmarkStep PROVE WakeupInv'
  OBVIOUS
<1> USE DEF WakeupInv, PartTypes, SemAlive, Quiet, WakeupDue, BeforeLoop,
            Waiting, MainPcs, Ended, mainVars, timerVars, semVars, markVars
<1>1. CASE CreateSem
  BY <1>1 DEF CreateSem, Create
<1>2. CASE Setup
  BY <1>2 DEF Setup, Create
<1>3. CASE CreateDeadlineTimer
  BY <1>3 DEF CreateDeadlineTimer, Create
<1>4. CASE CreatePeriodTimer \/ ArmPeriodTimer
  BY <1>4 DEF CreatePeriodTimer, ArmPeriodTimer, Create
<1>5. CASE LoopHead
  BY <1>5 DEF LoopHead
<1>6. CASE TakeSem
  BY <1>6 DEF TakeSem
<1>15. CASE TakeSemFails
  BY <1>15 DEF TakeSemFails
<1>7. CASE JobEnds
  BY <1>7 DEF JobEnds
<1>8. CASE MarkEndClocks
  BY <1>8 DEF MarkEndClocks
<1>9. CASE MarkEndSeconds
  BY <1>9 DEF MarkEndSeconds
<1>10. CASE FinalWait
  BY <1>10 DEF FinalWait
<1>11. CASE FreeDeadlineTimer
  BY <1>11 DEF FreeDeadlineTimer
<1>12. CASE NullDeadlineTimer
  BY <1>12 DEF NullDeadlineTimer
<1>13. CASE FreePeriodTimer
  BY <1>13 DEF FreePeriodTimer, CallbackPcs
<1>14. CASE DestroySem
  BY <1>14 DEF DestroySem
<1> QED
  BY <1>1, <1>2, <1>3, <1>4, <1>5, <1>6, <1>7, <1>8, <1>9, <1>10, <1>11,
     <1>12, <1>13, <1>14, <1>15 DEF BenchmarkStep

\* A callback that erases the end of a job goes on to post, one step of hpc[c]
\* after the other, and the semaphore is there to be posted.
LEMMA WakeupCallback ==
  ASSUME WakeupInv, NEW c \in Callbacks, PeriodExpires(c) \/ PeriodCallback(c)
  PROVE  WakeupInv'
<1> USE DEF WakeupInv, PartTypes, SemAlive, Quiet, WakeupDue, BeforeLoop,
            Waiting, CallbackPcs, Ended, mainVars, timerVars, semVars, markVars
<1>1. CASE PeriodExpires(c)
  BY <1>1 DEF PeriodExpires
<1>2. CASE PeriodEntry(c)
  BY <1>2 DEF PeriodEntry
<1>3. CASE TestReport(c)
  BY <1>3 DEF TestReport
<1>4. CASE ReportJob(c)
  BY <1>4 DEF ReportJob
<1>5. CASE DecideReset(c)
  BY <1>5 DEF DecideReset
<1>6. CASE ResetClocks(c)
  BY <1>6 DEF ResetClocks
<1>7. CASE ResetSeconds(c)
  BY <1>7 DEF ResetSeconds
<1>8. CASE PostSem(c)
  BY <1>8 DEF PostSem
<1> QED
  BY <1>1, <1>2, <1>3, <1>4, <1>5, <1>6, <1>7, <1>8 DEF PeriodCallback

LEMMA WakeupDeadline ==
  WakeupInv /\ (DeadlineExpires \/ DeadlineCallback \/ UNCHANGED vars) => WakeupInv'
  BY DEF DeadlineExpires, DeadlineCallback, StampDeadline, vars, WakeupInv,
         PartTypes, SemAlive, Quiet, WakeupDue, Ended, mainVars, timerVars,
         semVars, markVars

\* The benchmark thread never waits for a wakeup that no callback owes it
\* (periodic_benchmark.c:679-682 and 713-715 against 385-402), whatever the
\* number of jobs and however many callbacks overlap.
THEOREM WakeupNeverLost == Spec => []NoLostWakeup
<1>1. WakeupInv /\ [Next]_vars => WakeupInv'
  BY WakeupBenchmark, WakeupCallback, WakeupDeadline DEF Next
<1>2. WakeupInv => NoLostWakeup
  BY DEF WakeupInv, WakeupDue, NoLostWakeup, Waiting, Ended
<1> QED
  BY WakeupInit, <1>1, <1>2, PTL DEF Spec

-----------------------------------------------------------------------------
(* The teardown on platforms that wait for the callback when they delete the *)
(* period timer, or destroy it: from there on no callback runs, and a         *)
(* callback that runs finds the semaphore.  What is left is the deadline      *)
(* timer, whose pointer is cleared while the period timer is still armed.     *)

TeardownInv ==
  /\ mpc \in MainPcs /\ hpc \in [Callbacks -> CallbackPcs]
  /\ ~Alive => dTimer \in {"freed", "null"}
  /\ dTimer = "freed" => mpc = "nullDeadline"
  /\ dTimer = "null" => mpc \in {"returned", "freePeriod", "destroySem"}
  /\ (\E c \in Callbacks : hpc[c] # "idle") => semObj = TRUE /\ mpc \notin {"destroySem", "returned"}
  /\ pTimer = "armed" => semObj = TRUE /\ mpc \notin {"destroySem", "returned"}
  /\ mpc \in BeforeLoop => pTimer # "armed" /\ \A c \in Callbacks : hpc[c] = "idle"
  /\ mpc # "createSem" /\ mpc # "returned" => semObj = TRUE

LEMMA TeardownBenchmark ==
  ASSUME OnDelete # "leaves", TeardownInv, BenchmarkStep
  PROVE  TeardownInv'
<1> USE ConstantsAssumption DEF TeardownInv, Alive, BeforeLoop, MainPcs, mainVars, timerVars, semVars, markVars
<1>1. CASE CreateSem
  BY <1>1 DEF CreateSem, Create
<1>2. CASE Setup
  BY <1>2 DEF Setup, Create
<1>3. CASE CreateDeadlineTimer
  BY <1>3 DEF CreateDeadlineTimer, Create
<1>4. CASE CreatePeriodTimer \/ ArmPeriodTimer
  BY <1>4 DEF CreatePeriodTimer, ArmPeriodTimer, Create
<1>5. CASE LoopHead
  BY <1>5 DEF LoopHead
<1>6. CASE TakeSem \/ TakeSemFails \/ JobEnds \/ MarkEndClocks \/ MarkEndSeconds \/ FinalWait
  BY <1>6 DEF TakeSem, TakeSemFails, JobEnds, MarkEndClocks, MarkEndSeconds, FinalWait
<1>7. CASE FreeDeadlineTimer \/ NullDeadlineTimer
  BY <1>7 DEF FreeDeadlineTimer, NullDeadlineTimer
<1>8. CASE FreePeriodTimer
  BY <1>8, OnDelete \in {"waits", "aborts"} DEF FreePeriodTimer, CallbackPcs
<1>9. CASE DestroySem
  BY <1>9 DEF DestroySem
<1> QED
  BY <1>1, <1>2, <1>3, <1>4, <1>5, <1>6, <1>7, <1>8, <1>9 DEF BenchmarkStep

LEMMA TeardownCallback ==
  ASSUME TeardownInv, NEW c \in Callbacks,
         PeriodExpires(c) \/ PeriodCallback(c)
  PROVE  TeardownInv'
<1> USE DEF TeardownInv, Alive, BeforeLoop, CallbackPcs, mainVars, timerVars, semVars, markVars
<1>1. CASE PeriodExpires(c)
  BY <1>1 DEF PeriodExpires
<1>2. CASE PeriodEntry(c)
  BY <1>2 DEF PeriodEntry
<1>3. CASE TestReport(c) \/ ReportJob(c)
  BY <1>3 DEF TestReport, ReportJob
<1>4. CASE DecideReset(c)
  BY <1>4 DEF DecideReset
<1>5. CASE ResetClocks(c) \/ ResetSeconds(c)
  BY <1>5 DEF ResetClocks, ResetSeconds
<1>6. CASE PostSem(c)
  BY <1>6 DEF PostSem
<1> QED
  BY <1>1, <1>2, <1>3, <1>4, <1>5, <1>6 DEF PeriodCallback

LEMMA TeardownInit == Init => TeardownInv
  BY DEF Init, TeardownInv, Alive, BeforeLoop, MainPcs, CallbackPcs

LEMMA TeardownStep ==
  ASSUME OnDelete # "leaves", TeardownInv, [Next]_vars
  PROVE  TeardownInv'
<1>1. CASE DeadlineExpires \/ DeadlineCallback
  BY <1>1 DEF DeadlineExpires, DeadlineCallback, StampDeadline, TeardownInv, Alive,
              mainVars, timerVars, semVars
<1>2. CASE UNCHANGED vars
  BY <1>2 DEF vars, TeardownInv, Alive, mainVars, timerVars, semVars
<1> QED
  BY <1>1, <1>2, TeardownBenchmark, TeardownCallback DEF Next

LEMMA TeardownSafe == TeardownInv => NoFailureExit
  BY DEF TeardownInv, NoFailureExit

\* Unless callbacks outlive their timer, no callback of a call ends the process
\* with exit(EXIT_FAILURE) over the semaphore (periodic_benchmark.c:402-406,
\* 193-199): only over the deadline timer that was deleted (177-183, 302-307), if
\* the benchmark has one.
THEOREM CleanTeardown ==
  OnDelete # "leaves" => (Spec => []NoFailureExit)
<1> SUFFICES ASSUME OnDelete # "leaves"
             PROVE  Spec => []NoFailureExit
  OBVIOUS
<1>1. TeardownInv /\ [Next]_vars => TeardownInv'
  BY TeardownStep
<1> QED
  BY TeardownInit, <1>1, TeardownSafe, PTL DEF Spec

-----------------------------------------------------------------------------
(* The deadlines, where callbacks are over before the next timer expires.    *)
(* What is printed is right because of the order of the statements: the      *)
(* period callback starts the deadline timer before it resets the deadline,  *)
(* so that a deadline expires in every period, and the timer cannot fire     *)
(* before the reset.                                                         *)

SetupPcs == {"createSem", "setup", "createDeadline"}
Quiescent == \A c \in Callbacks : hpc[c] = "idle"

\* No period callback starts while another runs: what Prompt gives, and what most
\* platforms do where the deadline is the period.
Alone == \A c, o \in Callbacks : hpc[c] # "idle" /\ hpc[o] # "idle" => c = o

DeadlineTypes ==
  /\ hpc \in [Callbacks -> CallbackPcs]
  /\ mpc \in MainPcs /\ expired \in 0..2
  /\ dTimer \in {"none", "idle", "armed", "fired", "freed", "null"}

\* One callback at a time.
AloneInv ==
  /\ Alone
  /\ dpc # "idle" => DeadlineInUse /\ Quiescent
  /\ mpc \in SetupPcs => pTimer # "armed" /\ ~started /\ Quiescent

\* What the callbacks have stamped is what has expired, up to the deadline
\* whose callback runs.
MarkSound ==
  /\ expired = 0 => dline = "none" /\ dpc = "idle"
  /\ expired = 1 => IF dpc = "idle" THEN dline = "first" /\ last = "job"
                                    ELSE dline = "none" /\ dpc = "first"
  /\ expired = 2 => dline = "first" /\ (dpc = "idle" => last = "other")

\* Each period has its deadline before it ends.
DeadlineDue ==
  /\ DeadlineInUse \/ dTimer = "none"
  /\ DeadlineInUse /\ mpc \notin SetupPcs => dTimer \in {"idle", "armed", "fired"}
  /\ DeadlineInUse =>
       /\ \A c \in Callbacks :
            /\ hpc[c] = "entry" => dTimer # "armed" /\ (started => expired > 0)
            /\ hpc[c] \notin {"idle", "entry"} => dTimer = "armed"
       /\ Quiescent /\ started => dTimer = "armed" \/ expired > 0
  /\ \A c \in Callbacks :
       /\ hpc[c] = "report" => started
       /\ hpc[c] \in {"test", "report"} /\ started => expired > 0

ReportSound ==
  /\ report.kind = "job" => report.deadline = "first"
  /\ report.kind = "skipped" => report.expired = 2

DeadlineInv ==
  mpc \notin Teardown => DeadlineTypes /\ AloneInv /\ MarkSound /\ DeadlineDue /\ ReportSound

LEMMA DeadlineInit == Init => DeadlineInv
<1> SUFFICES ASSUME Init PROVE DeadlineInv
  OBVIOUS
<1>1. DeadlineTypes
  <2>1. hpc \in [Callbacks -> CallbackPcs] /\ mpc \in MainPcs
    BY DEF Init, CallbackPcs, MainPcs
  <2>. QED BY <2>1 DEF Init, DeadlineTypes
<1>2. AloneInv /\ DeadlineDue
  BY DEF Init, AloneInv, Alone, DeadlineDue, Quiescent, SetupPcs
<1>3. MarkSound /\ ReportSound
  BY DEF Init, MarkSound, ReportSound, NoReport
<1>. QED BY <1>1, <1>2, <1>3 DEF DeadlineInv

\* Before the teardown, the benchmark thread does nothing to the deadlines but
\* create their timer; it does not come back from the teardown.
LEMMA DeadlineBenchmark == DeadlineInv /\ BenchmarkStep => DeadlineInv'
<1> SUFFICES ASSUME DeadlineInv, BenchmarkStep, mpc' \notin Teardown
             PROVE  (DeadlineTypes /\ AloneInv /\ MarkSound /\ DeadlineDue /\ ReportSound)'
  BY DEF DeadlineInv
<1> USE DEF mainVars, timerVars, semVars, markVars
<1>1. mpc \notin Teardown
  BY DEF Teardown, BenchmarkStep, CreateSem, Setup, CreateDeadlineTimer, CreatePeriodTimer,
     ArmPeriodTimer, Create, LoopHead, TakeSem, TakeSemFails, JobEnds, MarkEndClocks, MarkEndSeconds,
     FinalWait, FreeDeadlineTimer, NullDeadlineTimer, FreePeriodTimer, DestroySem
<1>2. /\ DeadlineTypes /\ AloneInv /\ MarkSound /\ DeadlineDue /\ ReportSound
      /\ UNCHANGED <<hpc, dpc, started, expired, dline, last, report>>
  BY <1>1 DEF DeadlineInv, Teardown, BenchmarkStep, CreateSem, Setup, CreateDeadlineTimer,
     CreatePeriodTimer, ArmPeriodTimer, Create, LoopHead, TakeSem, TakeSemFails, JobEnds, MarkEndClocks,
     MarkEndSeconds, FinalWait, FreeDeadlineTimer, NullDeadlineTimer, FreePeriodTimer, DestroySem
<1>3. Quiescent' = Quiescent
  BY <1>2 DEF Quiescent
<1>4. \/ /\ mpc' \in MainPcs \ SetupPcs /\ mpc \notin SetupPcs /\ dTimer' = dTimer
      \/ /\ mpc \in SetupPcs /\ mpc' \in MainPcs /\ pTimer' = pTimer
         /\ \/ mpc' \in SetupPcs /\ dTimer' = dTimer
            \/ mpc' = "createPeriod" /\ dTimer' = IF DeadlineInUse THEN "idle" ELSE dTimer
  <2>1. CASE CreateSem \/ Setup \/ CreateDeadlineTimer
    BY <1>1, <2>1 DEF CreateSem, Setup, CreateDeadlineTimer, Create, Teardown, SetupPcs, MainPcs
  <2>2. CASE \/ CreatePeriodTimer \/ ArmPeriodTimer
             \/ LoopHead \/ TakeSem \/ TakeSemFails \/ JobEnds
    BY <1>1, <2>2 DEF CreatePeriodTimer, ArmPeriodTimer, LoopHead, TakeSem, TakeSemFails,
       JobEnds, Create,
       Teardown, SetupPcs, MainPcs
  <2>3. CASE MarkEndClocks \/ MarkEndSeconds \/ FinalWait
    BY <2>3 DEF MarkEndClocks, MarkEndSeconds, FinalWait, Teardown, SetupPcs, MainPcs
  <2>4. CASE FreeDeadlineTimer \/ NullDeadlineTimer \/ FreePeriodTimer \/ DestroySem
    BY <1>1, <2>4 DEF FreeDeadlineTimer, NullDeadlineTimer, FreePeriodTimer, DestroySem, Teardown
  <2>. QED BY <2>1, <2>2, <2>3, <2>4 DEF BenchmarkStep
<1>5. DeadlineTypes' /\ MarkSound' /\ ReportSound'
  BY <1>2, <1>4 DEF DeadlineTypes, MarkSound, ReportSound
<1>6. AloneInv'
  BY <1>2, <1>3, <1>4 DEF AloneInv, Alone
<1>7. DeadlineDue'
  <2>1. CASE mpc \notin SetupPcs
    BY <1>2, <1>3, <1>4, <2>1 DEF DeadlineDue
  <2>2. CASE mpc \in SetupPcs
    <3>1. Quiescent
      BY <1>2, <2>2 DEF AloneInv
    <3>2. ~started' /\ \A c \in Callbacks : hpc'[c] = "idle"
      BY <1>2, <2>2, <3>1 DEF AloneInv, Quiescent
    <3>3. /\ DeadlineInUse /\ mpc' \notin SetupPcs => dTimer' \in {"idle", "armed", "fired"}
          /\ DeadlineInUse \/ dTimer' = "none"
      BY <1>2, <1>4, <2>2 DEF DeadlineDue
    <3>. QED BY <3>2, <3>3 DEF DeadlineDue
  <2>. QED BY <2>1, <2>2
<1>. QED BY <1>5, <1>6, <1>7

\* One callback runs at a time, so that what it tests is what it has stamped,
\* or the deadline callback before it.
LEMMA DeadlinePeriod ==
  ASSUME Prompt \/ (~DeadlineInUse /\ Alone'), DeadlineInUse => Rearms, DeadlineInv,
         NEW c \in Callbacks, PeriodExpires(c) \/ PeriodCallback(c)
  PROVE  DeadlineInv'
<1> SUFFICES ASSUME mpc' \notin Teardown
             PROVE  (DeadlineTypes /\ AloneInv /\ MarkSound /\ DeadlineDue /\ ReportSound)'
  BY DEF DeadlineInv
<1> USE DEF mainVars, timerVars, semVars, markVars
<1>1. UNCHANGED <<mpc, pTimer>>
  BY DEF PeriodExpires, PeriodCallback, PeriodEntry, TestReport, ReportJob, DecideReset,
     ResetClocks, ResetSeconds, PostSem
<1>2. DeadlineTypes /\ AloneInv /\ MarkSound /\ DeadlineDue /\ ReportSound
  BY <1>1 DEF DeadlineInv
<1>3. /\ dpc = "idle" /\ dpc' = "idle" /\ mpc \notin SetupPcs
      /\ \A o \in Callbacks : o # c => hpc[o] = "idle" /\ hpc'[o] = "idle"
  <2>1. CASE PeriodExpires(c)
    <3>1. /\ hpc[c] = "idle" /\ hpc' = [hpc EXCEPT ![c] = "entry"] /\ dpc' = dpc
          /\ pTimer = "armed" /\ (Prompt => dpc = "idle" /\ Quiescent)
      BY <2>1 DEF PeriodExpires, Quiescent
    <3>2. mpc \notin SetupPcs
      BY <1>2, <3>1 DEF AloneInv
    <3>3. hpc'[c] = "entry" /\ \A o \in Callbacks : o # c => hpc'[o] = hpc[o]
      BY <1>2, <3>1 DEF DeadlineTypes
    <3>4. CASE Prompt
      BY <3>1, <3>2, <3>3, <3>4 DEF Quiescent
    <3>5. CASE ~DeadlineInUse /\ Alone'
      <4>1. dpc = "idle"
        BY <1>2, <3>5 DEF AloneInv
      <4>2. \A o \in Callbacks : o # c => hpc'[o] = "idle"
        BY <3>3, <3>5 DEF Alone
      <4> QED
        BY <3>1, <3>2, <3>3, <4>1, <4>2
    <3> QED
      BY <3>4, <3>5
  <2>2. CASE PeriodCallback(c)
    <3>1. hpc[c] # "idle"
      BY <2>2 DEF PeriodCallback, PeriodEntry, TestReport, ReportJob, DecideReset,
         ResetClocks, ResetSeconds, PostSem
    <3>2. dpc = "idle" /\ mpc \notin SetupPcs /\ \A o \in Callbacks : o # c => hpc[o] = "idle"
      BY <1>2, <3>1 DEF AloneInv, Alone, Quiescent
    <3>3. dpc' = dpc /\ \A o \in Callbacks : o # c => hpc'[o] = hpc[o]
      BY <1>2, <2>2, <3>2 DEF DeadlineTypes, PeriodCallback, PeriodEntry, TestReport, ReportJob,
         DecideReset, ResetClocks, ResetSeconds, PostSem
    <3>. QED BY <3>2, <3>3
  <2>. QED BY <2>1, <2>2
<1>4. hpc[c] \in CallbackPcs /\ hpc'[c] \in CallbackPcs /\ hpc' \in [Callbacks -> CallbackPcs]
  BY <1>2 DEF DeadlineTypes, CallbackPcs, PeriodExpires, PeriodCallback, PeriodEntry, TestReport,
     ReportJob, DecideReset, ResetClocks, ResetSeconds, PostSem
<1>5. AloneInv'
  BY <1>1, <1>2, <1>3 DEF AloneInv, Alone
<1>6. /\ Quiescent <=> hpc[c] = "idle"
      /\ Quiescent' <=> hpc'[c] = "idle"
  BY <1>3 DEF Quiescent
<1>7. CASE PeriodExpires(c)
  <2>1. /\ hpc[c] = "idle" /\ hpc'[c] = "entry" /\ dTimer # "armed"
        /\ UNCHANGED <<dTimer, started, expired, dline, last, report>>
    <3>1. hpc[c] = "idle" /\ hpc'[c] = "entry" /\ (Prompt => dTimer # "armed")
      BY <1>2, <1>7 DEF PeriodExpires, DeadlineTypes
    <3>2. ~DeadlineInUse => dTimer # "armed"
      BY <1>2 DEF DeadlineDue
    <3> QED
      BY <1>7, <3>1, <3>2 DEF PeriodExpires
  <2>2. DeadlineDue'
    BY <1>1, <1>2, <1>3, <1>6, <2>1 DEF DeadlineDue
  <2>. QED BY <1>1, <1>2, <1>3, <1>4, <1>5, <2>1, <2>2 DEF DeadlineTypes, MarkSound, ReportSound
<1>8. CASE PeriodEntry(c)
  <2>1. /\ hpc[c] = "entry" /\ hpc'[c] = "test" /\ UNCHANGED <<started, report>>
    BY <1>2, <1>8 DEF PeriodEntry, DeadlineTypes
  <2>2. CASE DeadlineInUse
    <3>1. dTimer' = "armed" /\ UNCHANGED <<dline, last, expired>>
      BY <1>2, <1>3, <1>8, <2>1, <2>2 DEF PeriodEntry, DeadlineDue
    <3>2. DeadlineDue'
      BY <1>2, <1>3, <1>6, <2>1, <2>2, <3>1 DEF DeadlineDue
    <3>. QED BY <1>1, <1>2, <1>3, <1>4, <1>5, <2>1, <3>1, <3>2 DEF DeadlineTypes, MarkSound, ReportSound
  <2>3. CASE ~DeadlineInUse
    <3>1. /\ expired' = OneMoreExpired /\ dTimer' = dTimer
          /\ dline' = IF dline = "none" THEN Stamp ELSE dline
          /\ last' = IF dline = "none" THEN "job" ELSE "other"
      BY <1>8, <2>3 DEF PeriodEntry
    <3>2. expired \in 0..2
      BY <1>2 DEF DeadlineTypes
    <3>3. MarkSound' /\ expired' \in 0..2 /\ expired' > 0
      BY <1>2, <1>3, <3>1, <3>2 DEF MarkSound, Stamp, OneMoreExpired
    <3>4. DeadlineDue'
      BY <1>2, <1>3, <2>1, <2>3, <3>1, <3>3 DEF DeadlineDue
    <3>. QED BY <1>1, <1>2, <1>4, <1>5, <2>1, <3>1, <3>3, <3>4 DEF DeadlineTypes, ReportSound
  <2>. QED BY <2>2, <2>3
<1>9. CASE TestReport(c) \/ ReportJob(c)
  <2>1. /\ hpc[c] \in {"test", "report"} /\ hpc'[c] \in {"report", "decide"}
        /\ hpc'[c] = "report" => started /\ hpc[c] = "test"
        /\ UNCHANGED <<dTimer, started, expired, dline, last>>
    BY <1>2, <1>9 DEF TestReport, ReportJob, DeadlineTypes
  <2>2. DeadlineDue'
    BY <1>1, <1>2, <1>3, <1>6, <2>1 DEF DeadlineDue
  <2>3. MarkSound'
    BY <1>2, <1>3, <2>1 DEF MarkSound
  <2>4. started => dline = "first" /\ expired \in {1, 2} /\ (last = "other" <=> expired = 2)
    BY <1>2, <1>3, <2>1 DEF MarkSound, DeadlineDue, DeadlineTypes
  <2>5. ReportSound'
    <3>1. CASE TestReport(c)
      BY <1>2, <2>4, <3>1 DEF TestReport, ReportSound, NoReport
    <3>2. CASE ReportJob(c)
      <4>1. started
        BY <1>2, <3>2 DEF ReportJob, DeadlineDue
      <4>. QED BY <2>4, <3>2, <4>1 DEF ReportJob, ReportSound
    <3>. QED BY <1>9, <3>1, <3>2
  <2>. QED BY <1>1, <1>2, <1>4, <1>5, <2>1, <2>2, <2>3, <2>5 DEF DeadlineTypes
<1>10. CASE DecideReset(c)
  <2>1. /\ hpc[c] = "decide" /\ hpc'[c] \in {"reset", "idle"}
        /\ UNCHANGED <<dTimer, started, expired, dline, last, report>>
    BY <1>2, <1>10 DEF DecideReset, DeadlineTypes
  <2>2. DeadlineDue'
    BY <1>1, <1>2, <1>3, <1>6, <2>1 DEF DeadlineDue
  <2>. QED BY <1>1, <1>2, <1>3, <1>4, <1>5, <2>1, <2>2 DEF DeadlineTypes, MarkSound, ReportSound
<1>11. CASE ResetClocks(c)
  <2>1. /\ hpc[c] = "reset" /\ hpc'[c] = "resetSeconds" /\ started' = TRUE
        /\ dline' = "none" /\ expired' = 0 /\ UNCHANGED <<dTimer, report>>
    BY <1>2, <1>11 DEF ResetClocks, DeadlineTypes
  <2>2. DeadlineDue'
    BY <1>1, <1>2, <1>3, <1>6, <2>1 DEF DeadlineDue
  <2>. QED BY <1>1, <1>2, <1>3, <1>4, <1>5, <2>1, <2>2 DEF DeadlineTypes, MarkSound, ReportSound
<1>12. CASE ResetSeconds(c) \/ PostSem(c)
  <2>1. /\ hpc[c] \in {"resetSeconds", "post"} /\ hpc'[c] \in {"post", "idle"}
        /\ UNCHANGED <<dTimer, started, expired, dline, last, report>>
    BY <1>2, <1>12 DEF ResetSeconds, PostSem, DeadlineTypes
  <2>2. DeadlineDue'
    BY <1>1, <1>2, <1>3, <1>6, <2>1 DEF DeadlineDue
  <2>. QED BY <1>1, <1>2, <1>3, <1>4, <1>5, <2>1, <2>2 DEF DeadlineTypes, MarkSound, ReportSound
<1>. QED BY <1>7, <1>8, <1>9, <1>10, <1>11, <1>12 DEF PeriodCallback

LEMMA DeadlineTimerStep ==
  ASSUME Prompt \/ ~DeadlineInUse, DeadlineInv, DeadlineExpires \/ DeadlineCallback \/ UNCHANGED vars
  PROVE  DeadlineInv'
<1> SUFFICES ASSUME mpc' \notin Teardown
             PROVE  (DeadlineTypes /\ AloneInv /\ MarkSound /\ DeadlineDue /\ ReportSound)'
  BY DEF DeadlineInv
<1> USE DEF mainVars, timerVars, semVars, markVars
<1>1. UNCHANGED <<mpc, pTimer, hpc, started, report>> /\ Quiescent' = Quiescent
  BY DEF DeadlineExpires, DeadlineCallback, StampDeadline, vars, Quiescent
<1>2. DeadlineTypes /\ AloneInv /\ MarkSound /\ DeadlineDue /\ ReportSound
  BY <1>1 DEF DeadlineInv
<1>3. ReportSound' /\ expired \in 0..2
  BY <1>1, <1>2 DEF ReportSound, DeadlineTypes
<1>4. CASE DeadlineExpires
  <2>1. /\ dpc = "idle" /\ dpc' = Stamp /\ dTimer = "armed" /\ dTimer' = "fired" /\ Quiescent
        /\ expired' = OneMoreExpired /\ UNCHANGED <<dline, last>>
    BY <1>2, <1>4 DEF DeadlineExpires, Quiescent, DeadlineDue
  <2>2. MarkSound' /\ expired' \in {1, 2} /\ dpc' # "idle"
    BY <1>2, <1>3, <2>1 DEF MarkSound, Stamp, OneMoreExpired
  <2>3. DeadlineTypes'
    BY <1>1, <1>2, <2>1, <2>2 DEF DeadlineTypes
  <2>4. AloneInv'
    BY <1>1, <1>2, <2>1 DEF AloneInv, Alone, DeadlineDue
  <2>5. DeadlineDue'
    BY <1>1, <1>2, <2>1, <2>2 DEF DeadlineDue, Quiescent
  <2>. QED BY <1>3, <2>2, <2>3, <2>4, <2>5
<1>5. CASE DeadlineCallback
  <2>1. /\ dpc # "idle" /\ dpc' = "idle" /\ UNCHANGED <<dTimer, expired>>
        /\ dline' = IF dline = "none" THEN dpc ELSE dline
        /\ last' = IF dline = "none" THEN "job" ELSE "other"
    BY <1>5 DEF DeadlineCallback, StampDeadline
  <2>2. MarkSound'
    BY <1>2, <1>3, <2>1 DEF MarkSound
  <2>. QED BY <1>1, <1>2, <1>3, <2>1, <2>2 DEF DeadlineTypes, AloneInv, Alone, DeadlineDue
<1>6. CASE UNCHANGED vars
  BY <1>1, <1>2, <1>3, <1>6 DEF vars, DeadlineTypes, AloneInv, Alone, MarkSound, DeadlineDue
<1>. QED BY <1>4, <1>5, <1>6

LEMMA DeadlineStep ==
  ASSUME Prompt \/ (~DeadlineInUse /\ [Alone']_vars), DeadlineInUse => Rearms,
         DeadlineInv, [Next]_vars
  PROVE  DeadlineInv'
<1>1. CASE UNCHANGED vars
  BY <1>1, DeadlineTimerStep
<1>2. CASE Next /\ (Prompt \/ (~DeadlineInUse /\ Alone'))
  BY <1>2, DeadlineBenchmark, DeadlinePeriod, DeadlineTimerStep DEF Next
<1>. QED BY <1>1, <1>2

LEMMA DeadlineSafe == DeadlineInv => FirstDeadlineReported /\ SkipIsLaterDeadline
  BY DEF DeadlineInv, ReportSound, FirstDeadlineReported, SkipIsLaterDeadline

\* Where callbacks are over before the next timer expires, and a deadline timer
\* fires once for every start: the deadline printed with a job is the first since
\* its period started (periodic_benchmark.c:94, 253, 297-312), for any number of
\* jobs and whether or not the deadline differs from the period.
THEOREM JobsHaveTheirDeadline ==
  ASSUME Prompt, DeadlineInUse => Rearms
  PROVE  Spec => []FirstDeadlineReported
<1>1. DeadlineInv /\ [Next]_vars => DeadlineInv'
  BY DeadlineStep
<1>. QED BY DeadlineInit, <1>1, DeadlineSafe, PTL DEF Spec

\* Under the same conditions a deadline is printed as skipped only when a later
\* deadline of the job was missed too (:276-278, 367-379).
THEOREM SkippedIsLater ==
  ASSUME Prompt, DeadlineInUse => Rearms
  PROVE  Spec => []SkipIsLaterDeadline
<1>1. DeadlineInv /\ [Next]_vars => DeadlineInv'
  BY DeadlineStep
<1>. QED BY DeadlineInit, <1>1, DeadlineSafe, PTL DEF Spec

=============================================================================
