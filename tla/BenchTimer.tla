------------------------------ MODULE BenchTimer ------------------------------
(***************************************************************************)
(* What the periodic benchmark relies on in a timer of the platform layer  *)
(* (generator/platform_abstraction.h): a callback starts only while the    *)
(* timer is armed, a deadline timer fires once per start, and from the     *)
(* beginning of its deletion a timer starts no more callbacks.  Platforms  *)
(* differ in two points, fixed for each of them: whether a deadline timer  *)
(* that has fired can be started again, and what deleting a timer does to  *)
(* a callback that runs.                                                   *)
(***************************************************************************)
EXTENDS Naturals

VARIABLES
  kind,      \* "period" or "deadline"
  rearms,    \* does settime start a deadline timer that has fired?
  onDelete,  \* "waits" for callbacks, "leaves" them running, "aborts" them
  phase,     \* none, idle, armed, spent, stopping, deleted
  callbacks  \* how many callbacks have started and are not over

promise == <<kind, rearms, onDelete>>
vars == <<promise, phase, callbacks>>

Init ==
  /\ kind \in {"period", "deadline"} /\ rearms \in BOOLEAN
  /\ onDelete \in {"waits", "leaves", "aborts"}
  /\ phase = "none" /\ callbacks = 0

Create ==
  /\ phase = "none" /\ phase' = "idle"
  /\ UNCHANGED <<promise, callbacks>>

Settime ==
  /\ phase \in {"idle", "armed"} /\ phase' = "armed"
  /\ UNCHANGED <<promise, callbacks>>

\* Starting a timer anew may take back the pending expiry first.
Suspend ==
  /\ phase = "armed" /\ phase' = "idle"
  /\ UNCHANGED <<promise, callbacks>>

AfterExpiry ==
  IF kind = "period" THEN "armed" ELSE IF rearms THEN "idle" ELSE "spent"

Expire ==
  /\ phase = "armed" /\ phase' = AfterExpiry
  /\ callbacks' = callbacks + 1
  /\ UNCHANGED promise

CallbackReturns ==
  /\ callbacks > 0 /\ callbacks' = callbacks - 1
  /\ UNCHANGED <<promise, phase>>

Stop ==
  /\ phase \in {"idle", "armed", "spent"} /\ phase' = "stopping"
  /\ UNCHANGED <<promise, callbacks>>

Delete ==
  /\ phase \in {"idle", "armed", "spent", "stopping"} /\ phase' = "deleted"
  /\ onDelete = "waits" => callbacks = 0
  /\ callbacks' = IF onDelete = "aborts" THEN 0 ELSE callbacks
  /\ UNCHANGED promise

Next ==
  \/ Create \/ Settime \/ Suspend \/ Expire \/ CallbackReturns \/ Stop \/ Delete

Spec == Init /\ [][Next]_vars
=============================================================================
