------------------------ MODULE PeriodicVariantsProofs ------------------------
(***************************************************************************)
(* What PeriodicBenchmarkProofs shows of one instance of the benchmark,    *)
(* for the instances of MCPeriodicVariants in which one callback runs at a *)
(* time: an instance follows one specification from beginning to end, so   *)
(* that the invariants carry over, each under its own variant.             *)
(***************************************************************************)
EXTENDS MCPeriodicVariants, PeriodicBenchmarkProofs

Abort == INSTANCE PeriodicBenchmarkProofs WITH OnDelete <- "aborts"

Due == INSTANCE PeriodicBenchmarkProofs WITH
  DeadlineInUse <- TRUE, Prompt <- TRUE, Duration <- FALSE, Failures <- FALSE

Over == INSTANCE PeriodicBenchmarkProofs WITH
  Jobs <- 2, OnDelete <- "leaves", Duration <- FALSE

\* The instances of this module are those of MCPeriodicVariants.
LEMMA SameAborting == Aborting!Next => Abort!Next
<1> USE DEF Aborting!mainVars, Aborting!timerVars, Aborting!semVars,
            Aborting!markVars, Aborting!Alive, Aborting!Stamp,
            Aborting!OneMoreExpired, Aborting!Ended, Aborting!NoReport,
            Abort!mainVars, Abort!timerVars, Abort!semVars, Abort!markVars,
            Abort!Alive, Abort!Stamp, Abort!OneMoreExpired, Abort!Ended,
            Abort!NoReport
<1>1. Aborting!BenchmarkStep => Abort!BenchmarkStep
  BY DEF Aborting!BenchmarkStep, Aborting!CreateSem, Aborting!Setup,
      Aborting!CreateDeadlineTimer, Aborting!CreatePeriodTimer,
      Aborting!ArmPeriodTimer, Aborting!Create, Aborting!LoopHead, Aborting!TakeSem, Aborting!TakeSemFails,
      Aborting!JobEnds, Aborting!MarkEndClocks, Aborting!MarkEndSeconds,
      Aborting!FinalWait, Aborting!FreeDeadlineTimer, Aborting!NullDeadlineTimer,
      Aborting!FreePeriodTimer, Aborting!DestroySem, Abort!BenchmarkStep,
      Abort!CreateSem, Abort!Setup, Abort!CreateDeadlineTimer,
      Abort!CreatePeriodTimer, Abort!ArmPeriodTimer, Abort!Create, Abort!LoopHead,
      Abort!TakeSem, Abort!TakeSemFails, Abort!JobEnds, Abort!MarkEndClocks, Abort!MarkEndSeconds,
      Abort!FinalWait, Abort!FreeDeadlineTimer, Abort!NullDeadlineTimer,
      Abort!FreePeriodTimer, Abort!DestroySem
<1>2. \A c \in Callbacks : Aborting!PeriodExpires(c) => Abort!PeriodExpires(c)
  BY DEF Aborting!PeriodExpires, Abort!PeriodExpires
<1>3. \A c \in Callbacks : Aborting!PeriodCallback(c) => Abort!PeriodCallback(c)
  BY DEF Aborting!PeriodCallback, Aborting!PeriodEntry, Aborting!TestReport,
      Aborting!ReportJob, Aborting!DecideReset, Aborting!ResetClocks,
      Aborting!ResetSeconds, Aborting!PostSem, Abort!PeriodCallback,
      Abort!PeriodEntry, Abort!TestReport, Abort!ReportJob, Abort!DecideReset,
      Abort!ResetClocks, Abort!ResetSeconds, Abort!PostSem
<1>4. Aborting!DeadlineExpires \/ Aborting!DeadlineCallback => Abort!DeadlineExpires \/ Abort!DeadlineCallback
  BY DEF Aborting!DeadlineExpires, Aborting!DeadlineCallback, Aborting!StampDeadline,
      Abort!DeadlineExpires, Abort!DeadlineCallback, Abort!StampDeadline
<1> QED
  BY <1>1, <1>2, <1>3, <1>4 DEF Aborting!Next, Abort!Next

\* The same for the instance with a deadline timer.
LEMMA SameDeadline == Deadline!Next => Due!Next
<1> USE DEF Deadline!mainVars, Deadline!timerVars, Deadline!semVars,
            Deadline!markVars, Deadline!Alive, Deadline!Stamp,
            Deadline!OneMoreExpired, Deadline!Ended, Deadline!NoReport,
            Due!mainVars, Due!timerVars, Due!semVars, Due!markVars, Due!Alive,
            Due!Stamp, Due!OneMoreExpired, Due!Ended, Due!NoReport
<1>1. Deadline!BenchmarkStep => Due!BenchmarkStep
  BY DEF Deadline!BenchmarkStep, Deadline!CreateSem, Deadline!Setup,
      Deadline!CreateDeadlineTimer, Deadline!CreatePeriodTimer,
      Deadline!ArmPeriodTimer, Deadline!Create, Deadline!LoopHead, Deadline!TakeSem, Deadline!TakeSemFails,
      Deadline!JobEnds, Deadline!MarkEndClocks, Deadline!MarkEndSeconds,
      Deadline!FinalWait, Deadline!FreeDeadlineTimer, Deadline!NullDeadlineTimer,
      Deadline!FreePeriodTimer, Deadline!DestroySem, Due!BenchmarkStep,
      Due!CreateSem, Due!Setup, Due!CreateDeadlineTimer, Due!CreatePeriodTimer,
      Due!ArmPeriodTimer, Due!Create, Due!LoopHead, Due!TakeSem, Due!TakeSemFails, Due!JobEnds,
      Due!MarkEndClocks, Due!MarkEndSeconds, Due!FinalWait, Due!FreeDeadlineTimer,
      Due!NullDeadlineTimer, Due!FreePeriodTimer, Due!DestroySem
<1>2. \A c \in Callbacks : Deadline!PeriodExpires(c) => Due!PeriodExpires(c)
  BY DEF Deadline!PeriodExpires, Due!PeriodExpires
<1>3. \A c \in Callbacks : Deadline!PeriodCallback(c) => Due!PeriodCallback(c)
  BY DEF Deadline!PeriodCallback, Deadline!PeriodEntry, Deadline!TestReport,
      Deadline!ReportJob, Deadline!DecideReset, Deadline!ResetClocks,
      Deadline!ResetSeconds, Deadline!PostSem, Due!PeriodCallback, Due!PeriodEntry,
      Due!TestReport, Due!ReportJob, Due!DecideReset, Due!ResetClocks,
      Due!ResetSeconds, Due!PostSem
<1>4. Deadline!DeadlineExpires \/ Deadline!DeadlineCallback => Due!DeadlineExpires \/ Due!DeadlineCallback
  BY DEF Deadline!DeadlineExpires, Deadline!DeadlineCallback, Deadline!StampDeadline,
      Due!DeadlineExpires, Due!DeadlineCallback, Due!StampDeadline
<1> QED
  BY <1>1, <1>2, <1>3, <1>4 DEF Deadline!Next, Due!Next

\* The same for the instance whose callbacks overlap.
LEMMA SameOverlap == Overlap!Next => Over!Next
<1> USE DEF Overlap!mainVars, Overlap!timerVars, Overlap!semVars,
            Overlap!markVars, Overlap!Alive, Overlap!Stamp,
            Overlap!OneMoreExpired, Overlap!Ended, Overlap!NoReport,
            Over!mainVars, Over!timerVars, Over!semVars, Over!markVars, Over!Alive,
            Over!Stamp, Over!OneMoreExpired, Over!Ended, Over!NoReport
<1>1. Overlap!BenchmarkStep => Over!BenchmarkStep
  BY DEF Overlap!BenchmarkStep, Overlap!CreateSem, Overlap!Setup,
      Overlap!CreateDeadlineTimer, Overlap!CreatePeriodTimer,
      Overlap!ArmPeriodTimer, Overlap!Create, Overlap!LoopHead, Overlap!TakeSem, Overlap!TakeSemFails,
      Overlap!JobEnds, Overlap!MarkEndClocks, Overlap!MarkEndSeconds,
      Overlap!FinalWait, Overlap!FreeDeadlineTimer, Overlap!NullDeadlineTimer,
      Overlap!FreePeriodTimer, Overlap!DestroySem, Over!BenchmarkStep,
      Over!CreateSem, Over!Setup, Over!CreateDeadlineTimer, Over!CreatePeriodTimer,
      Over!ArmPeriodTimer, Over!Create, Over!LoopHead, Over!TakeSem, Over!TakeSemFails, Over!JobEnds,
      Over!MarkEndClocks, Over!MarkEndSeconds, Over!FinalWait, Over!FreeDeadlineTimer,
      Over!NullDeadlineTimer, Over!FreePeriodTimer, Over!DestroySem
<1>2. \A c \in Callbacks : Overlap!PeriodExpires(c) => Over!PeriodExpires(c)
  BY DEF Overlap!PeriodExpires, Over!PeriodExpires
<1>3. \A c \in Callbacks : Overlap!PeriodCallback(c) => Over!PeriodCallback(c)
  BY DEF Overlap!PeriodCallback, Overlap!PeriodEntry, Overlap!TestReport,
      Overlap!ReportJob, Overlap!DecideReset, Overlap!ResetClocks,
      Overlap!ResetSeconds, Overlap!PostSem, Over!PeriodCallback, Over!PeriodEntry,
      Over!TestReport, Over!ReportJob, Over!DecideReset, Over!ResetClocks,
      Over!ResetSeconds, Over!PostSem
<1>4. Overlap!DeadlineExpires \/ Overlap!DeadlineCallback => Over!DeadlineExpires \/ Over!DeadlineCallback
  BY DEF Overlap!DeadlineExpires, Overlap!DeadlineCallback, Overlap!StampDeadline,
      Over!DeadlineExpires, Over!DeadlineCallback, Over!StampDeadline
<1> QED
  BY <1>1, <1>2, <1>3, <1>4 DEF Overlap!Next, Over!Next

\* The assumptions on the constants hold of the instances.
LEMMA InstanceAssumptions ==
  /\ Jobs \in Nat \ {0} /\ Callbacks # {}
  /\ Abort!IsFiniteSet(Callbacks) /\ Due!IsFiniteSet(Callbacks) /\ Over!IsFiniteSet(Callbacks)
  /\ {OnDelete, "aborts", "leaves"} \subseteq {"waits", "leaves", "aborts"}
  /\ {DeadlineInUse, Rearms, Duration, Prompt, Failures} \subseteq BOOLEAN
  /\ {TRUE, Rearms, FALSE, TRUE, FALSE} \subseteq BOOLEAN
  /\ 2 \in Nat \ {0} /\ {DeadlineInUse, Rearms, FALSE, Prompt, Failures} \subseteq BOOLEAN
  BY ConstantsAssumption DEF IsFiniteSet, Abort!IsFiniteSet, Due!IsFiniteSet, Over!IsFiniteSet

\* MCNext lets a callback start only while no other runs.
LEMMA OneCallback == ASSUME Cardinality(Running') <= 1 PROVE Alone'
<1>1. IsFiniteSet(Running')
  BY ConstantsAssumption, FS_Subset DEF Running
<1> SUFFICES ASSUME NEW c \in Callbacks, NEW o \in Callbacks,
                    hpc'[c] # "idle", hpc'[o] # "idle", c # o
             PROVE  FALSE
  BY DEF Alone
<1>2. {c, o} \subseteq Running' /\ Cardinality({c, o}) = 2
  <2>1. Cardinality({c}) = 1 /\ IsFiniteSet({c})
    BY FS_Singleton
  <2>2. Cardinality({c} \cup {o}) = 2
    BY <2>1, FS_AddElement
  <2>3. {c} \cup {o} = {c, o}
    OBVIOUS
  <2> QED
    BY <2>2, <2>3 DEF Running
<1>3. Cardinality({c, o}) <= Cardinality(Running') /\ Cardinality(Running') \in Nat
  BY <1>1, <1>2, FS_Subset, FS_CardinalityType
<1> QED
  BY <1>2, <1>3

-----------------------------------------------------------------------------
(* The invariants. *)

Variants == {"plain", "aborting", "deadline", "overlap"}

DeadlineInvs ==
  /\ variant \in Variants
  /\ variant = "plain" => DeadlineInv
  /\ variant = "aborting" => Abort!DeadlineInv
  /\ variant = "deadline" => Due!DeadlineInv

TeardownInvs ==
  /\ variant \in Variants
  /\ variant = "plain" => TeardownInv
  /\ variant = "aborting" => Abort!TeardownInv
  /\ variant = "deadline" => Due!TeardownInv

\* All instances start alike.
LEMMA VariantsInit == MCInit => DeadlineInvs /\ TeardownInvs
<1> SUFFICES ASSUME MCInit PROVE DeadlineInvs /\ TeardownInvs
  OBVIOUS
<1>1. Init /\ variant \in Variants
  BY DEF MCInit, Variants
<1>2. Abort!Init /\ Due!Init
  BY <1>1 DEF Init, Abort!Init, Due!Init, NoReport, Abort!NoReport, Due!NoReport
<1>3. Abort!DeadlineInv /\ Abort!TeardownInv
  BY <1>2, Abort!DeadlineInit, Abort!TeardownInit, InstanceAssumptions
<1>4. Due!DeadlineInv /\ Due!TeardownInv
  BY <1>2, Due!DeadlineInit, Due!TeardownInit, InstanceAssumptions
<1> QED
  BY <1>1, <1>3, <1>4, DeadlineInit, TeardownInit DEF DeadlineInvs, TeardownInvs

\* A step of MCSpec is one of the instance the behaviour is of.
LEMMA VariantStep ==
  ASSUME [MCNext]_<<vars, variant>>
  PROVE  /\ variant' = variant
         /\ variant = "plain" => [Next]_vars
         /\ variant = "aborting" => [Abort!Next]_(Abort!vars)
         /\ variant = "deadline" => [Due!Next]_(Due!vars)
         /\ variant = "overlap" => [Over!Next]_(Over!vars)
         /\ variant # "overlap" =>
              [Alone']_vars /\ [Abort!Alone']_(Abort!vars) /\ [Due!Alone']_(Due!vars)
<1>1. UNCHANGED vars => UNCHANGED Abort!vars /\ UNCHANGED Due!vars /\ UNCHANGED Over!vars
  BY DEF vars, mainVars, semVars, timerVars, markVars,
         Abort!vars, Abort!mainVars, Abort!semVars, Abort!timerVars, Abort!markVars,
         Due!vars, Due!mainVars, Due!semVars, Due!timerVars, Due!markVars,
         Over!vars, Over!mainVars, Over!semVars, Over!timerVars, Over!markVars
<1>2. variant' = variant
  BY DEF MCNext
<1>3. variant # "overlap" => UNCHANGED vars \/ Alone'
  <2>1. variant # "overlap" => UNCHANGED vars \/ Cardinality(Running') <= 1
    BY DEF MCNext
  <2>2. Cardinality(Running') <= 1 => Alone'
    BY OneCallback
  <2> QED
    BY <2>1, <2>2
<1>4. Alone' => Abort!Alone' /\ Due!Alone'
  BY DEF Alone, Abort!Alone, Due!Alone
<1>5. /\ variant = "plain" => [Next]_vars
      /\ variant = "aborting" => [Abort!Next]_(Abort!vars)
      /\ variant = "deadline" => [Due!Next]_(Due!vars)
      /\ variant = "overlap" => [Over!Next]_(Over!vars)
  BY <1>1, SameAborting, SameDeadline, SameOverlap DEF MCNext
<1> QED
  BY <1>1, <1>2, <1>3, <1>4, <1>5

LEMMA DeadlineVariants ==
  ASSUME Rearms, DeadlineInUse => Prompt, DeadlineInvs, [MCNext]_<<vars, variant>>
  PROVE  DeadlineInvs'
<1>1. variant' = variant /\ variant \in Variants
  BY VariantStep DEF DeadlineInvs
<1>2. CASE variant = "plain"
  BY <1>1, <1>2, VariantStep, DeadlineStep DEF DeadlineInvs
<1>3. CASE variant = "aborting"
  <2>1. Abort!DeadlineInv'
    BY <1>3, VariantStep, Abort!DeadlineStep, InstanceAssumptions DEF DeadlineInvs
  <2> QED
    BY <1>1, <1>3, <2>1 DEF DeadlineInvs
<1>4. CASE variant = "deadline"
  <2>1. Due!DeadlineInv'
    BY <1>4, VariantStep, Due!DeadlineStep, InstanceAssumptions DEF DeadlineInvs
  <2> QED
    BY <1>1, <1>4, <2>1 DEF DeadlineInvs
<1> QED
  BY <1>1, <1>2, <1>3, <1>4 DEF DeadlineInvs, Variants

LEMMA TeardownVariants ==
  ASSUME OnDelete # "leaves", TeardownInvs, [MCNext]_<<vars, variant>>
  PROVE  TeardownInvs'
<1>1. variant' = variant /\ variant \in Variants
  BY VariantStep DEF TeardownInvs
<1>2. CASE variant = "plain"
  BY <1>1, <1>2, VariantStep, TeardownStep DEF TeardownInvs
<1>3. CASE variant = "aborting"
  <2>1. Abort!TeardownInv'
    BY <1>3, VariantStep, Abort!TeardownStep, InstanceAssumptions DEF TeardownInvs
  <2> QED
    BY <1>1, <1>3, <2>1 DEF TeardownInvs
<1>4. CASE variant = "deadline"
  <2>1. Due!TeardownInv'
    BY <1>4, VariantStep, Due!TeardownStep, InstanceAssumptions DEF TeardownInvs
  <2> QED
    BY <1>1, <1>4, <2>1 DEF TeardownInvs
<1> QED
  BY <1>1, <1>2, <1>3, <1>4 DEF TeardownInvs, Variants

LEMMA DeadlineVariantsSafe == DeadlineInvs => DeadlineIsFirst /\ SkipIsLater
<1>1. Abort!DeadlineInv => FirstDeadlineReported /\ SkipIsLaterDeadline
  BY Abort!DeadlineSafe, InstanceAssumptions
  DEF FirstDeadlineReported, SkipIsLaterDeadline, Teardown,
      Abort!FirstDeadlineReported, Abort!SkipIsLaterDeadline, Abort!Teardown
<1>2. Due!DeadlineInv => FirstDeadlineReported /\ SkipIsLaterDeadline
  BY Due!DeadlineSafe, InstanceAssumptions
  DEF FirstDeadlineReported, SkipIsLaterDeadline, Teardown,
      Due!FirstDeadlineReported, Due!SkipIsLaterDeadline, Due!Teardown
<1> QED
  BY <1>1, <1>2, DeadlineSafe DEF DeadlineInvs, Variants, DeadlineIsFirst, SkipIsLater

LEMMA TeardownVariantsSafe == TeardownInvs => CallbackFailureIsRearm
<1>1. Abort!TeardownInv => NoFailureExit
  BY Abort!TeardownSafe, InstanceAssumptions
  DEF NoFailureExit, Alive, Abort!NoFailureExit, Abort!Alive
<1>2. Due!TeardownInv => NoFailureExit
  BY Due!TeardownSafe, InstanceAssumptions
  DEF NoFailureExit, Alive, Due!NoFailureExit, Due!Alive
<1> QED
  BY <1>1, <1>2, TeardownSafe DEF TeardownInvs, Variants, CallbackFailureIsRearm

\* Where one callback runs at a time, the deadline printed with a job is the first
\* since its period started (periodic_benchmark.c:94, 253, 297-312): prompt callbacks
\* are needed only where the deadline has a timer of its own.
THEOREM JobsHaveTheirDeadlines ==
  ASSUME Rearms, DeadlineInUse => Prompt
  PROVE  MCSpec => []DeadlineIsFirst
<1>1. DeadlineInvs /\ [MCNext]_<<vars, variant>> => DeadlineInvs'
  BY DeadlineVariants
<1> QED
  BY VariantsInit, <1>1, DeadlineVariantsSafe, PTL DEF MCSpec

\* Under the same conditions a deadline is printed as skipped only when a later
\* deadline of the job was missed (:276-278, 367-379).
THEOREM SkippedAreLater ==
  ASSUME Rearms, DeadlineInUse => Prompt
  PROVE  MCSpec => []SkipIsLater
<1>1. DeadlineInvs /\ [MCNext]_<<vars, variant>> => DeadlineInvs'
  BY DeadlineVariants
<1> QED
  BY VariantsInit, <1>1, DeadlineVariantsSafe, PTL DEF MCSpec

\* Whether deleting the period timer waits for its callback or destroys it, a
\* callback ends the process, or uses freed memory, only over a deadline timer
\* that was deleted (periodic_benchmark.c:177-199, 302-307, 402-406).
THEOREM FailuresAreRearms ==
  ASSUME OnDelete # "leaves"
  PROVE  MCSpec => []CallbackFailureIsRearm
<1>1. TeardownInvs /\ [MCNext]_<<vars, variant>> => TeardownInvs'
  BY TeardownVariants
<1> QED
  BY VariantsInit, <1>1, TeardownVariantsSafe, PTL DEF MCSpec

=============================================================================
