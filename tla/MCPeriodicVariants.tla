------------------------- MODULE MCPeriodicVariants --------------------------
(* Four instances of PeriodicBenchmark in one run, over the same variables:  *)
(*   plain     the constants of the .cfg, one callback at a time             *)
(*   aborting  deleting a timer destroys its thread, in a callback or not    *)
(*   deadline  a deadline timer that settime rearms, prompt callbacks        *)
(*   overlap   period callbacks overlap one another and outlive their timer  *)
EXTENDS PeriodicBenchmark

VARIABLE variant

Aborting == INSTANCE PeriodicBenchmark WITH OnDelete <- "aborts"

Deadline == INSTANCE PeriodicBenchmark WITH
  DeadlineInUse <- TRUE, Prompt <- TRUE, Duration <- FALSE, Failures <- FALSE

Overlap == INSTANCE PeriodicBenchmark WITH
  Jobs <- 2, OnDelete <- "leaves", Duration <- FALSE

MCInit == Init /\ variant \in {"plain", "aborting", "deadline", "overlap"}

Running == {c \in Callbacks : hpc[c] # "idle"}

MCNext ==
  /\ UNCHANGED variant
  /\ \/ variant = "plain" /\ Next
     \/ variant = "aborting" /\ Aborting!Next
     \/ variant = "deadline" /\ Deadline!Next
     \/ variant = "overlap" /\ Overlap!Next
  /\ variant # "overlap" => Cardinality(Running') <= 1

\* FairSpec of the overlapping callbacks: jobs end, the timer expires again and
\* again, callbacks are scheduled.
MCFairness ==
  /\ WF_<<vars, variant>>(variant = "overlap" /\ Overlap!BenchmarkGoesOn /\ UNCHANGED variant)
  /\ \A c \in Callbacks :
       /\ WF_<<vars, variant>>(variant = "overlap" /\ Overlap!PeriodExpires(c) /\ UNCHANGED variant)
       /\ WF_<<vars, variant>>(variant = "overlap" /\ Overlap!PeriodCallback(c) /\ UNCHANGED variant)

MCSpec == MCInit /\ [][MCNext]_<<vars, variant>> /\ MCFairness
-----------------------------------------------------------------------------
\* Of PeriodicBenchmark, where one callback runs at a time: the deadline printed with
\* a job is the first since its period started (:94), ...
DeadlineIsFirst == variant # "overlap" => FirstDeadlineReported

\* ... a skipped deadline is printed only for a later one that was missed (:276), ...
SkipIsLater == variant # "overlap" => SkipIsLaterDeadline

\* ... and a callback fails only over a deadline timer that is gone (:177-183, :302).
CallbackFailureIsRearm == variant # "overlap" => NoFailureExit

\* Terminates of PeriodicBenchmark, of the instance with fairness: every call
\* ends, all jobs get their period and the last wait is answered (:666-715).
OverlapTerminates == variant = "overlap" => Overlap!Terminates
=============================================================================
