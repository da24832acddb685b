----------------------------- MODULE KernelTimer -----------------------------
(***************************************************************************)
(* A timer of the platforms whose kernel keeps the time and starts the     *)
(* callback: platform/linux/timer.c, and posix-lite and dongtu after it    *)
(* (SIGEV_THREAD, a thread per expiry), and platform/rt-thread/timer.c (one *)
(* soft timer thread).  The kernel passes the address of the timer to a    *)
(* dispatch function, which reads the callback from it some time later.    *)
(***************************************************************************)
EXTENDS Naturals, FiniteSets

CONSTANT Contexts  \* the threads that can be in the dispatch function

VARIABLES
  platform,  \* "posix" or "rt-thread"
  kind,      \* RTBENCH_TIMER_PERIOD or RTBENCH_TIMER_DEADLINE
  mem,       \* struct rtbench_timer_internal: none, live, freed
  ktimer,    \* the kernel's timer: none, idle, armed, deleted
  cpc,       \* where the client's call is; "out" between two calls
  dpc        \* where each context is: idle, start, callback

vars == <<platform, kind, mem, ktimer, cpc, dpc>>

Init ==
  /\ platform \in {"posix", "rt-thread"} /\ kind \in {"period", "deadline"}
  /\ mem = "none" /\ ktimer = "none" /\ cpc = "out"
  /\ dpc = [c \in Contexts |-> "idle"]

Calls == cpc = "out" /\ mem = "live"

Create ==
  /\ cpc = "out" /\ mem = "none"
  /\ \/ mem' = "live" /\ ktimer' = "idle" /\ UNCHANGED cpc
     \/ cpc' = "gone" /\ UNCHANGED <<mem, ktimer>>
  /\ UNCHANGED <<platform, kind, dpc>>

\* RT-Thread refuses an interval of less than a tick; a timer that has fired or
\* that runs is started anew.
Settime(lessThanATick) ==
  /\ Calls
  /\ ktimer' = IF platform = "rt-thread" /\ lessThanATick THEN ktimer ELSE "armed"
  /\ UNCHANGED <<platform, kind, mem, cpc, dpc>>

\* Mutant: the timer is freed, but the kernel goes on using it.
BugDelete ==
  /\ Calls /\ cpc' = "free"
  /\ UNCHANGED <<platform, kind, mem, ktimer, dpc>>

\* timer_delete; rt_timer_stop and rt_timer_delete.
Delete ==
  /\ Calls /\ ktimer' = "deleted" /\ cpc' = "free"
  /\ UNCHANGED <<platform, kind, mem, dpc>>

Free ==
  /\ cpc = "free" /\ mem' = "freed" /\ cpc' = "gone"
  /\ UNCHANGED <<platform, kind, ktimer, dpc>>

\* The kernel's timer expires: a new thread is on its way to the dispatch
\* function, or the one soft timer thread if it is not busy.
Expire(c) ==
  /\ ktimer = "armed" /\ dpc[c] = "idle"
  /\ platform = "rt-thread" => \A o \in Contexts : dpc[o] = "idle"
  /\ dpc' = [dpc EXCEPT ![c] = "start"]
  /\ ktimer' = IF kind = "period" THEN "armed" ELSE "idle"
  /\ UNCHANGED <<platform, kind, mem, cpc>>

\* The dispatch function reads the callback and calls it.
Dispatch(c) ==
  /\ dpc[c] = "start" /\ dpc' = [dpc EXCEPT ![c] = "callback"]
  /\ UNCHANGED <<platform, kind, mem, ktimer, cpc>>

CallbackReturns(c) ==
  /\ dpc[c] = "callback" /\ dpc' = [dpc EXCEPT ![c] = "idle"]
  /\ UNCHANGED <<platform, kind, mem, ktimer, cpc>>

Next ==
  \/ Create \/ Delete \/ Free
  \/ \E lessThanATick \in BOOLEAN : Settime(lessThanATick)
  \/ \E c \in Contexts : Expire(c) \/ Dispatch(c) \/ CallbackReturns(c)

Spec == Init /\ [][Next]_vars

-----------------------------------------------------------------------------
(* Properties. *)

Running == {c \in Contexts : dpc[c] # "idle"}

Phase ==
  IF mem = "none" THEN "none"
  ELSE IF mem = "freed" THEN "deleted"
  ELSE IF cpc = "free" THEN "stopping" ELSE ktimer

Timer == INSTANCE BenchTimer WITH
  rearms <- TRUE, onDelete <- "leaves", phase <- Phase, callbacks <- Cardinality(Running)

\* A timer of the kernel is the one the periodic benchmark relies on where
\* settime rearms and deletion leaves callbacks running: what reads a timer that is
\* freed (linux/timer.c:27-28 after 105, rt-thread/timer.c:24-31 after 112) is a
\* dispatch the kernel had begun before the deletion, and none comes later.
ImplementsKernelTimer == Timer!Spec
=============================================================================
