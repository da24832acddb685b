-------------------------- MODULE ThreadTimerProofs --------------------------
(***************************************************************************)
(* Proofs about ThreadTimer: nothing uses a timer that was freed, and each  *)
(* of the three platforms implements BenchTimer.  Both rest on what the     *)
(* flags say of the thread although nothing locks them: while running is    *)
(* set no call is under way that stops the thread, and while it is cleared  *)
(* outside of calls there is no thread that could call back (FlagsInv).     *)
(* KernelTimer, which has no flags, implements BenchTimer as well.          *)
(***************************************************************************)
EXTENDS MCTimers, FiniteSetTheorems, TLAPS

Gone == {"none", "exited", "destroyed", "aborted"}

\* The calls and the memory.
CallsInv ==
  /\ mem = "none" => tpc = "none" /\ cpc \in {"out", "gone"} /\ ~started /\ ~running
  /\ mem = "live" => cpc # "gone"
  /\ mem = "freed" => cpc = "gone"
  /\ cpc \in {"free", "gone"} => tpc \in Gone
  /\ cpc = "restart" => platform = "ruihua"
  /\ cpc = "join" => platform # "oneos"
  /\ cpc = "destroy" => platform = "oneos"

\* What the flags say of the thread.
FlagsInv ==
  /\ running => cpc = "out"
  /\ tpc \in {"destroyed", "aborted"} => platform = "oneos" /\ cpc \in {"free", "gone"}
  /\ tpc \in {"head", "sleep", "callback", "clear"} => started
  /\ mem = "live" /\ cpc = "out" =>
       /\ ~running => tpc \in Gone
       /\ ~started => IF platform = "sylixos" THEN tpc = "parked" ELSE tpc \in Gone
       /\ started /\ kind = "period" => tpc \notin {"clear", "exited", "none"}
       /\ started => tpc # "none"
  /\ tpc = "parked" => platform = "sylixos"
  /\ tpc = "clear" => platform = "oneos"

TimerInv == TypeOK /\ CallsInv /\ FlagsInv

LEMMA TimerInvInit == Init => TimerInv
  BY PlatformsAssumption DEF Init, TimerInv, TypeOK, CallsInv, FlagsInv, Gone

LEMMA TimerInvNext == TimerInv /\ [Next]_vars => TimerInv'
<1> SUFFICES ASSUME TimerInv, [Next]_vars PROVE TimerInv'
  OBVIOUS
<1> USE PlatformsAssumption DEF TimerInv, TypeOK, CallsInv, FlagsInv, Gone, flags
<1>1. CASE Create
  <2>1. CASE mem' = "live" /\ platform = "sylixos"
    <3>1. running' = TRUE
      BY <1>1, <2>1 DEF Create
    <3> QED
      BY <1>1, <2>1, <3>1 DEF Create
  <2>2. CASE mem' = "live" /\ platform # "sylixos"
    <3>1. running' = FALSE
      BY <1>1, <2>2 DEF Create
    <3> QED
      BY <1>1, <2>2, <3>1 DEF Create
  <2>3. CASE cpc' = "gone"
    BY <1>1, <2>3 DEF Create
  <2> QED
    BY <1>1, <2>1, <2>2, <2>3 DEF Create
<1>2. CASE SettimeSylixos
  BY <1>2 DEF SettimeSylixos, Calls
<1>3. CASE SettimeOneos
  BY <1>3 DEF SettimeOneos, Spawn, Calls
<1>4. CASE SettimeRuihua
  BY <1>4 DEF SettimeRuihua, Spawn, Calls
<1>5. CASE Restart
  BY <1>5 DEF Restart, Spawn
<1>6. CASE Delete
  BY <1>6 DEF Delete, Calls
<1>7. CASE Join
  BY <1>7 DEF Join
<1>8. CASE Destroy
  BY <1>8 DEF Destroy
<1>9. CASE Free
  BY <1>9 DEF Free
<1>10. CASE Unpark
  BY <1>10 DEF Unpark
<1>11. CASE LoopHead
  BY <1>11 DEF LoopHead, Leave
<1>12. CASE Wake
  BY <1>12 DEF Wake, Leave
<1>13. CASE CallbackReturns
  BY <1>13 DEF CallbackReturns, Leave
<1>14. CASE ClearRunning
  BY <1>14 DEF ClearRunning
<1>15. CASE UNCHANGED vars
  BY <1>15 DEF vars
<1> QED
  BY <1>1, <1>2, <1>3, <1>4, <1>5, <1>6, <1>7, <1>8, <1>9, <1>10, <1>11, <1>12, <1>13, <1>14, <1>15
     DEF Next, ClientGoesOn, ThreadStep

LEMMA TimerInvAlways == Spec => []TimerInv
  BY TimerInvInit, TimerInvNext, PTL DEF Spec

\* The thread of a timer reads and writes it to its last statement (sylixos
\* :69-79, oneos :53-55, ruihua :48-60), and has ended or was destroyed when
\* rtbench_timer_delete frees it.
THEOREM TimerOutlivesThread == Spec => []NoUseAfterFree
<1>1. TimerInv => NoUseAfterFree
  BY DEF TimerInv, CallsInv, NoUseAfterFree, Gone
<1> QED
  BY TimerInvAlways, <1>1, PTL

-----------------------------------------------------------------------------
(* The refinement. *)

LEMMA TimerStep == TimerInv /\ TimerInv' /\ [Next]_vars => [Timer!Next]_(Timer!vars)
<1> SUFFICES ASSUME TimerInv, TimerInv', [Next]_vars PROVE [Timer!Next]_(Timer!vars)
  OBVIOUS
<1> USE PlatformsAssumption
    DEF TimerInv, TypeOK, CallsInv, FlagsInv, Gone, flags, Phase, Rearms, OnDelete,
        Timer!vars, Timer!promise, Timer!Next, Timer!Create, Timer!Settime, Timer!Suspend,
        Timer!Expire, Timer!AfterExpiry, Timer!CallbackReturns, Timer!Stop, Timer!Delete
<1>1. CASE Create
  BY <1>1 DEF Create
<1>2. CASE SettimeSylixos
  BY <1>2 DEF SettimeSylixos, Calls
<1>3. CASE SettimeOneos
  BY <1>3 DEF SettimeOneos, Spawn, Calls
<1>4. CASE SettimeRuihua
  BY <1>4 DEF SettimeRuihua, Spawn, Calls
<1>5. CASE Restart
  BY <1>5 DEF Restart, Spawn
<1>6. CASE Delete
  BY <1>6 DEF Delete, Calls
<1>7. CASE Join
  BY <1>7 DEF Join
<1>8. CASE Destroy
  BY <1>8 DEF Destroy
<1>9. CASE Free
  BY <1>9 DEF Free
<1>10. CASE Unpark
  BY <1>10 DEF Unpark
<1>11. CASE LoopHead
  BY <1>11 DEF LoopHead, Leave
<1>12. CASE Wake
  BY <1>12 DEF Wake, Leave
<1>13. CASE CallbackReturns
  BY <1>13 DEF CallbackReturns, Leave
<1>14. CASE ClearRunning
  BY <1>14 DEF ClearRunning
<1>15. CASE UNCHANGED vars
  BY <1>15 DEF vars
<1> QED
  BY <1>1, <1>2, <1>3, <1>4, <1>5, <1>6, <1>7, <1>8, <1>9, <1>10, <1>11, <1>12, <1>13, <1>14, <1>15
     DEF Next, ClientGoesOn, ThreadStep

\* SylixOS, OneOS and Ruihua implement the timer the periodic benchmark relies on,
\* each with its own answer to whether a deadline timer starts twice and what
\* deletion does to a callback: a callback starts only while the timer is armed,
\* and none once its deletion has begun.
THEOREM ThreadTimerImplementsTimer == Spec => ImplementsTimer
<1>1. Init => Timer!Init
  BY DEF Init, Timer!Init, Phase, Rearms, OnDelete
<1> QED
  BY <1>1, TimerInvAlways, TimerStep, PTL DEF Spec, ImplementsTimer, Timer!Spec

-----------------------------------------------------------------------------
(* The timers of the kernel.  What the refinement needs of them is that the   *)
(* kernel's timer is armed only between two calls of a client that has it; a  *)
(* callback of the abstract timer is a context on its way through dispatch.   *)

KernelInv ==
  /\ kplatform \in {"posix", "rt-thread"} /\ kkind \in {"period", "deadline"}
  /\ kmem \in {"none", "live", "freed"} /\ kcpc \in {"out", "free", "gone"}
  /\ kdpc \in [Contexts -> {"idle", "start", "callback"}]
  /\ kmem = "none" => ktimer = "none" /\ kcpc # "free"
  /\ kmem = "live" => kcpc # "gone" /\ ktimer \in IF kcpc = "free" THEN {"deleted"} ELSE {"idle", "armed"}
  /\ kmem = "freed" => ktimer = "deleted" /\ kcpc = "gone"

\* The instance has its own Cardinality.
LEMMA KernelCardinality == \A S : Kernel!Cardinality(S) = Cardinality(S)
  BY DEF Cardinality, Kernel!Cardinality

LEMMA KernelInvInit == MCInit => KernelInv /\ Kernel!Timer!Init
<1> SUFFICES ASSUME MCInit PROVE KernelInv /\ Kernel!Timer!Init
  OBVIOUS
<1>1. KernelInv
  BY DEF MCInit, Kernel!Init, KernelInv
<1>2. Kernel!Running = {}
  BY DEF MCInit, Kernel!Init, Kernel!Running
<1>3. Kernel!Cardinality(Kernel!Running) = 0
  BY <1>2, KernelCardinality, FS_EmptySet
<1> QED
  BY <1>1, <1>3 DEF MCInit, Kernel!Init, Kernel!Timer!Init, Kernel!Phase

\* A step of the kernel or its client keeps the invariant; what it does to the
\* abstract timer depends on the contexts by their number only.
LEMMA KernelStep ==
  ASSUME KernelInv, Kernel!Next
  PROVE  KernelInv' /\ [Kernel!Timer!Next]_(Kernel!Timer!vars)
<1> DEFINE R == Kernel!Running
           n == Kernel!Cardinality(R)
<1>1. IsFiniteSet(R) /\ n \in Nat /\ R \subseteq Contexts
  BY ContextsAssumption, FS_Subset, FS_CardinalityType, KernelCardinality DEF Kernel!Running
<1> USE DEF KernelInv, Kernel!Phase, Kernel!Timer!vars, Kernel!Timer!promise, Kernel!Timer!Next
<1>2. CASE UNCHANGED kdpc /\ (Kernel!Create \/ Kernel!Delete \/ Kernel!Free \/ \E b \in BOOLEAN : Kernel!Settime(b))
  <2>1. R' = R
    BY <1>2 DEF Kernel!Running
  <2>2. UNCHANGED n
    BY <2>1
  <2> HIDE DEF n, R
  <2>3. CASE Kernel!Create
    BY <2>2, <2>3 DEF Kernel!Create, Kernel!Timer!Create, n, R
  <2>4. CASE Kernel!Delete
    BY <2>2, <2>4 DEF Kernel!Delete, Kernel!Calls, Kernel!Timer!Stop, n, R
  <2>5. CASE Kernel!Free
    BY <2>2, <2>5 DEF Kernel!Free, Kernel!Timer!Delete, n, R
  <2>6. ASSUME NEW b \in BOOLEAN, Kernel!Settime(b)
        PROVE  KernelInv' /\ [Kernel!Timer!Next]_(Kernel!Timer!vars)
    BY <2>2, <2>6 DEF Kernel!Settime, Kernel!Calls, Kernel!Timer!Settime, n, R
  <2> QED
    BY <1>2, <2>3, <2>4, <2>5, <2>6
<1>3. ASSUME NEW c \in Contexts, Kernel!Expire(c)
      PROVE  KernelInv' /\ [Kernel!Timer!Next]_(Kernel!Timer!vars)
  <2>1. kdpc[c] = "idle" /\ kdpc' = [kdpc EXCEPT ![c] = "start"]
    BY <1>3 DEF Kernel!Expire
  <2>2. R' = R \cup {c} /\ c \notin R
    BY <2>1 DEF Kernel!Running
  <2>3. n' = n + 1
    BY <1>1, <2>2, FS_AddElement, KernelCardinality
  <2> HIDE DEF n, R
  <2>4. KernelInv'
    BY <1>3, <2>1 DEF Kernel!Expire
  <2>5. Kernel!Phase = "armed" /\ Kernel!Phase' = Kernel!Timer!AfterExpiry
    BY <1>3 DEF Kernel!Expire, Kernel!Timer!AfterExpiry
  <2>6. UNCHANGED Kernel!Timer!promise
    BY <1>3 DEF Kernel!Expire
  <2>7. Kernel!Timer!Expire
    BY <2>3, <2>5, <2>6 DEF Kernel!Timer!Expire, n, R
  <2> QED
    BY <2>4, <2>7
<1>4. ASSUME NEW c \in Contexts, Kernel!Dispatch(c)
      PROVE  KernelInv' /\ [Kernel!Timer!Next]_(Kernel!Timer!vars)
  <2>1. R' = R
    BY <1>4 DEF Kernel!Dispatch, Kernel!Running
  <2>2. UNCHANGED n
    BY <2>1
  <2> HIDE DEF n, R
  <2> QED
    BY <1>4, <2>2 DEF Kernel!Dispatch, n, R
<1>5. ASSUME NEW c \in Contexts, Kernel!CallbackReturns(c)
      PROVE  KernelInv' /\ [Kernel!Timer!Next]_(Kernel!Timer!vars)
  <2>1. kdpc[c] = "callback" /\ kdpc' = [kdpc EXCEPT ![c] = "idle"]
    BY <1>5 DEF Kernel!CallbackReturns
  <2>2. R' = R \ {c} /\ c \in R
    BY <2>1 DEF Kernel!Running
  <2>3. n > 0 /\ n' = n - 1
    BY <1>1, <2>2, FS_RemoveElement, FS_EmptySet, KernelCardinality
  <2> HIDE DEF n, R
  <2>4. KernelInv'
    BY <1>5, <2>1 DEF Kernel!CallbackReturns
  <2>5. UNCHANGED <<Kernel!Timer!promise, Kernel!Phase>>
    BY <1>5 DEF Kernel!CallbackReturns
  <2>6. Kernel!Timer!CallbackReturns
    BY <2>3, <2>5 DEF Kernel!Timer!CallbackReturns, n, R
  <2> QED
    BY <2>4, <2>6
<1>6. Kernel!Create \/ Kernel!Delete \/ Kernel!Free \/ (\E b \in BOOLEAN : Kernel!Settime(b)) => UNCHANGED kdpc
  BY DEF Kernel!Create, Kernel!Delete, Kernel!Free, Kernel!Settime
<1> QED
  BY <1>2, <1>3, <1>4, <1>5, <1>6 DEF Kernel!Next

\* Linux, posix-lite, dongtu and RT-Thread implement the timer the periodic
\* benchmark relies on where deletion leaves callbacks running, for any number of
\* threads in their dispatch functions: none starts once the deletion has begun.
THEOREM KernelTimerImplementsTimer == MCSpec => KernelImplementsTimer
<1>1. KernelInv /\ [MCNext]_<<vars, KernelVars>> => KernelInv' /\ [Kernel!Timer!Next]_(Kernel!Timer!vars)
  <2> SUFFICES ASSUME KernelInv, UNCHANGED KernelVars
               PROVE  KernelInv' /\ UNCHANGED Kernel!Timer!vars
    BY KernelStep DEF MCNext
  <2> QED
    BY DEF KernelInv, KernelVars, Kernel!Timer!vars, Kernel!Timer!promise, Kernel!Phase, Kernel!Running
<1> QED
  BY KernelInvInit, <1>1, PTL DEF MCSpec, KernelImplementsTimer, Kernel!ImplementsKernelTimer, Kernel!Timer!Spec
=============================================================================
