----------------------------- MODULE ThreadTimer -----------------------------
(***************************************************************************)
(* A timer of the platforms that keep a thread of their own for it:        *)
(* platform/sylixos/timer.c, platform/oneos/timer.c and                    *)
(* platform/ruihua/timer.c.  The thread sleeps, looks at a flag and calls  *)
(* the callback, without a lock; creating, starting and deleting the timer *)
(* are calls of one client, in any order it may make them.                 *)
(*                                                                         *)
(* The flags keep their role under one name each: running is "running" on  *)
(* SylixOS and OneOS and "active" on Ruihua; started is "started" there    *)
(* and "thread_started" on Ruihua.  Intervals are left out: a sleep takes  *)
(* any time.                                                               *)
(***************************************************************************)
EXTENDS Naturals

CONSTANT Platforms  \* the implementations compared

ASSUME PlatformsAssumption == Platforms \subseteq {"sylixos", "oneos", "ruihua"}

VARIABLES
  platform,
  kind,     \* RTBENCH_TIMER_PERIOD or RTBENCH_TIMER_DEADLINE
  mem,      \* struct rtbench_timer_internal: none, live, freed
  running,
  started,
  tpc,      \* where the timer thread is
  cpc,      \* where the client's call is; "out" between two calls
  due       \* history: the last call was a settime with result 0, and the
            \* callback has not begun since

flags == <<running, started>>
vars == <<platform, kind, mem, flags, tpc, cpc, due>>

Init ==
  /\ platform \in Platforms /\ kind \in {"period", "deadline"}
  /\ mem = "none" /\ running = FALSE /\ started = FALSE
  /\ tpc = "none" /\ cpc = "out" /\ due = FALSE

-----------------------------------------------------------------------------
(* The client's calls. *)

Calls == cpc = "out" /\ mem = "live"

\* SylixOS creates the thread with the timer; it waits for the first settime.
Create ==
  /\ cpc = "out" /\ mem = "none"
  /\ \/ /\ mem' = "live"
        /\ running' = (platform = "sylixos")
        /\ tpc' = IF platform = "sylixos" THEN "parked" ELSE "none"
        /\ UNCHANGED cpc
     \/ cpc' = "gone" /\ UNCHANGED <<mem, running, tpc>>
  /\ UNCHANGED <<platform, kind, started, due>>

\* The thread is created and runs, or settime fails.
Spawn ==
  /\ \/ running' = TRUE /\ started' = TRUE /\ tpc' = "head" /\ due' = TRUE
     \/ running' = FALSE /\ started' = FALSE /\ due' = FALSE /\ UNCHANGED tpc
  /\ cpc' = "out"

SettimeSylixos ==
  /\ platform = "sylixos" /\ Calls
  /\ started' = TRUE /\ due' = TRUE
  /\ UNCHANGED <<platform, kind, mem, running, tpc, cpc>>

\* A timer that was started once is not started again.
SettimeOneos ==
  /\ platform = "oneos" /\ Calls
  /\ IF started THEN due' = TRUE /\ UNCHANGED <<flags, tpc, cpc>> ELSE Spawn
  /\ UNCHANGED <<platform, kind, mem>>

\* Mutant: the old thread is joined without being told to stop.
BugSettimeRuihua ==
  /\ platform = "ruihua" /\ Calls
  /\ IF started
       THEN cpc' = "restart" /\ due' = FALSE /\ UNCHANGED <<flags, tpc>>
       ELSE Spawn
  /\ UNCHANGED <<platform, kind, mem>>

SettimeRuihua ==
  /\ platform = "ruihua" /\ Calls
  /\ IF started
       THEN running' = FALSE /\ cpc' = "restart" /\ due' = FALSE /\ UNCHANGED <<started, tpc>>
       ELSE Spawn
  /\ UNCHANGED <<platform, kind, mem>>

\* The thread of the last start is joined before the next one is created.
Restart ==
  /\ cpc = "restart" /\ tpc = "exited"
  /\ Spawn
  /\ UNCHANGED <<platform, kind, mem>>

\* Mutant: OneOS deletes a timer like the other two, but never waits.
BugDelete ==
  /\ Calls
  /\ running' = FALSE
  /\ cpc' = IF started /\ platform # "oneos" THEN "join" ELSE "free"
  /\ started' = (started \/ platform = "sylixos")
  /\ due' = FALSE
  /\ UNCHANGED <<platform, kind, mem, tpc>>

\* The thread is told to stop; SylixOS wakes it up if it waits for its start.
Delete ==
  /\ Calls
  /\ running' = FALSE
  /\ started' = (started \/ platform = "sylixos")
  /\ cpc' = IF ~started' THEN "free" ELSE IF platform = "oneos" THEN "destroy" ELSE "join"
  /\ due' = FALSE
  /\ UNCHANGED <<platform, kind, mem, tpc>>

Join ==
  /\ cpc = "join" /\ tpc = "exited" /\ cpc' = "free"
  /\ UNCHANGED <<platform, kind, mem, flags, tpc, due>>

\* os_task_destroy ends the task wherever it is.
Destroy ==
  /\ cpc = "destroy" /\ cpc' = "free"
  /\ tpc' = IF tpc = "callback" THEN "aborted" ELSE IF tpc = "exited" THEN tpc ELSE "destroyed"
  /\ UNCHANGED <<platform, kind, mem, flags, due>>

Free ==
  /\ cpc = "free" /\ cpc' = "gone" /\ mem' = "freed"
  /\ UNCHANGED <<platform, kind, flags, tpc, due>>

-----------------------------------------------------------------------------
(* The timer thread. *)

\* OneOS clears the flag on its way out.
Leave == tpc' = IF platform = "oneos" THEN "clear" ELSE "exited"

Unpark ==
  /\ tpc = "parked" /\ (started \/ ~running)
  /\ tpc' = IF running THEN "head" ELSE "exited"
  /\ UNCHANGED <<platform, kind, mem, flags, cpc, due>>

LoopHead ==
  /\ tpc = "head"
  /\ IF running THEN tpc' = "sleep" ELSE Leave
  /\ UNCHANGED <<platform, kind, mem, flags, cpc, due>>

\* Mutant: the flag is not looked at after the sleep.
BugWake ==
  /\ tpc = "sleep" /\ tpc' = "callback" /\ due' = FALSE
  /\ UNCHANGED <<platform, kind, mem, flags, cpc>>

\* After the sleep the flag decides once more.
Wake ==
  /\ tpc = "sleep"
  /\ IF running THEN tpc' = "callback" /\ due' = FALSE ELSE Leave /\ UNCHANGED due
  /\ UNCHANGED <<platform, kind, mem, flags, cpc>>

\* Mutant: every timer fires once.
BugCallbackReturns ==
  /\ tpc = "callback" /\ Leave
  /\ UNCHANGED <<platform, kind, mem, flags, cpc, due>>

CallbackReturns ==
  /\ tpc = "callback"
  /\ IF kind = "period" THEN tpc' = "head" ELSE Leave
  /\ UNCHANGED <<platform, kind, mem, flags, cpc, due>>

ClearRunning ==
  /\ tpc = "clear" /\ tpc' = "exited" /\ running' = FALSE
  /\ UNCHANGED <<platform, kind, mem, started, cpc, due>>

-----------------------------------------------------------------------------
ClientGoesOn == Restart \/ Join \/ Destroy \/ Free

ThreadStep ==
  Unpark \/ LoopHead \/ Wake \/ CallbackReturns \/ ClearRunning

Next ==
  \/ Create \/ SettimeSylixos \/ SettimeOneos \/ SettimeRuihua \/ Delete
  \/ ClientGoesOn \/ ThreadStep

\* A call that has begun goes on; sleeps end, callbacks return.
Fairness == WF_vars(ClientGoesOn) /\ WF_vars(ThreadStep)

Spec == Init /\ [][Next]_vars /\ Fairness

-----------------------------------------------------------------------------
(* Properties. *)

\* The types of the variables.
TypeOK ==
  /\ platform \in Platforms /\ kind \in {"period", "deadline"}
  /\ mem \in {"none", "live", "freed"}
  /\ running \in BOOLEAN /\ started \in BOOLEAN /\ due \in BOOLEAN
  /\ tpc \in {"none", "parked", "head", "sleep", "callback", "clear", "exited",
              "destroyed", "aborted"}
  /\ cpc \in {"out", "restart", "join", "destroy", "free", "gone"}

\* The thread reads and writes the timer up to its last statement (SylixOS
\* :69-79, OneOS :53-55, Ruihua :48-60): when rtbench_timer_delete frees it, the
\* thread has ended or was destroyed.
NoUseAfterFree ==
  mem = "freed" => tpc \in {"none", "exited", "destroyed", "aborted"}

\* What the platform is to the periodic benchmark.
Rearms == platform = "ruihua"
OnDelete == IF platform = "oneos" THEN "aborts" ELSE "waits"

Phase ==
  IF mem = "none" THEN "none"
  ELSE IF mem = "freed" \/ tpc \in {"destroyed", "aborted"} THEN "deleted"
  ELSE IF cpc \in {"join", "destroy", "free"} THEN "stopping"
  ELSE IF ~started \/ cpc = "restart" THEN "idle"
  ELSE IF tpc \in {"parked", "head", "sleep"} \/ (tpc = "callback" /\ kind = "period")
         THEN "armed"
  ELSE IF Rearms THEN "idle" ELSE "spent"

Timer == INSTANCE BenchTimer WITH
  rearms <- Rearms, onDelete <- OnDelete, phase <- Phase,
  callbacks <- (IF tpc = "callback" THEN 1 ELSE 0)

\* Each of the three is the timer the benchmark relies on, with its own answer to
\* the two questions that are open: SylixOS and OneOS do not start a deadline
\* timer twice (sylixos :78, oneos :99), OneOS destroys the thread in mid-callback
\* (oneos :131), the other two wait for it (sylixos :170, ruihua :125).
ImplementsTimer == Timer!Spec

\* settime and delete return (platform_abstraction.h:185-198), whatever the thread
\* is doing: no join waits for a thread that nobody has told to stop.
CallsReturn == cpc # "out" ~> cpc \in {"out", "gone"}

\* A settime with result 0 has started the timer (platform_abstraction.h:185-189):
\* the callback comes, unless another call comes first.  Except for deadline timers
\* that do not start twice.
StartedTimerFires == due /\ (kind = "period" \/ Rearms) ~> ~due

\* The same without the exception, as the header and the comment at
\* periodic_benchmark.c:300 have it ("we rearm the deadline timer").
SettimeStarts == due ~> ~due
=============================================================================
