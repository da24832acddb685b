---------------------------- MODULE ScheduleSweep ---------------------------
(***************************************************************************)
(* What test_schedule_run_custom promises the reader of g_result: the      *)
(* gradients are published in order, one at a time, and are final once     *)
(* published; after Phase 3 nothing is added.  A gradient every task of    *)
(* which completed holds exactly Jobs jobs and at most one miss per job,   *)
(* unless an earlier gradient was given up and may have left threads that  *)
(* still write the shared statistics.                                      *)
(***************************************************************************)
EXTENDS Integers

CONSTANTS NumGradients, Jobs

VARIABLES
  count,     \* gradients published
  outcome,   \* [1..NumGradients -> outcome], "none" beyond count
  over       \* Phase 3 was reached

vars == <<count, outcome, over>>

NoOutcome == [status |-> "none", jobs |-> 0, misses |-> 0]

Init ==
  /\ count = 0
  /\ outcome = [g \in 1..NumGradients |-> NoOutcome]
  /\ over = FALSE

AllComplete == \A g \in 1..count : outcome[g].status = "complete"

\* What a gradient may publish.
Valid(o) ==
  \/ o.status = "complete" /\ (AllComplete => o.jobs = Jobs /\ o.misses <= o.jobs)
  \/ o.status = "partial"
  \/ o.status = "failed" /\ o.jobs = 0 /\ o.misses = 0

Publish ==
  /\ ~over /\ count < NumGradients
  /\ count' = count + 1
  /\ \A g \in 1..NumGradients : g # count' => outcome'[g] = outcome[g]
  /\ Valid(outcome'[count'])
  /\ UNCHANGED over

Finish ==
  /\ ~over /\ over' = TRUE
  /\ UNCHANGED <<count, outcome>>

Next == Publish \/ Finish

Spec == Init /\ [][Next]_vars
=============================================================================
