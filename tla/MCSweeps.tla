------------------------------ MODULE MCSweeps -------------------------------
(* For TLC: the concurrent command (TestSchedule) beside the sequential one  *)
(* (SequentialSchedule), of which a build has one or the other.              *)
EXTENDS MCTestSchedule, SequentialOptions

VARIABLES
  build,
  smpc, next, tasks, gradient_idx, sbudget, ssuppress, sidx, stats, response, failed, outcome

Sequential == INSTANCE SequentialSchedule WITH
  MayFail <- ResourceFailures, mpc <- smpc, budget <- sbudget, suppress <- ssuppress,
  idx <- sidx

seqVars ==
  <<smpc, next, tasks, gradient_idx, sbudget, ssuppress, sidx, stats, response, failed, outcome>>

MCInit == build \in {"threads", "sequential"} /\ Init /\ Sequential!Init

MCNext ==
  /\ UNCHANGED build
  /\ \/ build = "threads" /\ Next /\ UNCHANGED seqVars
     \/ build = "sequential" /\ Sequential!Next /\ UNCHANGED vars

MCSpec == MCInit /\ [][MCNext]_<<build, vars, seqVars>>

MCRegistry == <<"builtin", "industrial", "excluded", "industrial", "industrial">>
MCPowResults == {-1, 0, 1, 2, 3}
-----------------------------------------------------------------------------
(* Properties, stated in SequentialSchedule. *)

UtilizationsSumToTarget == Sequential!UtilizationsSumToTarget
MissesAreExplained == Sequential!MissesAreExplained
SequentialImplementsSweep == Sequential!ImplementsSweep
=============================================================================
