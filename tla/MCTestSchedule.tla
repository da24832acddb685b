--------------------------- MODULE MCTestSchedule ---------------------------
(* Instances of TestSchedule for TLC. *)
EXTENDS TestSchedule

MCWindow == [t \in Task |-> 1]
MCUnevenWindow == [t \in Task |-> t]

-----------------------------------------------------------------------------
(* The command run twice by the same program, as from a shell.  The first   *)
(* call ends before its last gradient; the gradients it has left stand for  *)
(* those of the second.                                                     *)

\* Threads abandoned by the first call run on with its contexts; none of them
\* waits for its gate, which is gone.
CallAgain ==
  /\ mpc = "returned" /\ grad \in Grad
  /\ \A th \in Thread : pc[th] # "blocked"
  /\ mpc' = "begin" /\ budget' = TRUE /\ arrays' = "none"
  /\ UNCHANGED <<grad, idx, suppress, gateVars, statVars, watchVars, ctxVars, threadVars, resVars>>

TwoCallsSpec == Init /\ [][Next \/ CallAgain]_vars
=============================================================================
