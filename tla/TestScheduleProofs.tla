------------------------- MODULE TestScheduleProofs -------------------------
(***************************************************************************)
(* Theorems about TestSchedule, for every number of tasks, gradients and   *)
(* cycles, every stall window, with and without the gate, and with         *)
(* resource failures; and about SequentialSchedule, for every registry,    *)
(* every sweep of utilizations and whatever executions and pow may yield.  *)
(***************************************************************************)
EXTENDS MCSweeps, Functions, FiniteSetTheorems, WellFoundedInduction, TLAPS

USE DEF MainPC, ThreadPC

\* The task indices and the threads of the current gradient are what the
\* command thread's actions index with.
LEMMA IndexFacts ==
  /\ NumTasks \in Nat \ {0} /\ NumGradients \in Nat \ {0} /\ Cycles \in Nat \ {0}
  /\ 1 \in Task /\ NumTasks \in Task
  /\ \A t \in Task : t \in Nat /\ t >= 1 /\ t <= NumTasks
  /\ \A t \in Task : t < NumTasks => t + 1 \in Task
  /\ \A th \in Thread : th[1] \in Grad /\ th[2] \in Task /\ th = <<th[1], th[2]>>
  /\ \A g \in Grad, t \in Task : <<g, t>> \in Thread
  /\ \A g : g \in Grad => g \in 1..(NumGradients + 1) /\ g + 1 \in 1..(NumGradients + 1)
BY SizeAssumption DEF Task, Grad, Thread

-----------------------------------------------------------------------------
(* Type correctness. *)

\* mpc is at a place that works on gradient grad only while grad is one.
InGradient == {"create", "reapFailed", "watch", "poll", "decide", "backstop",
               "forced", "reapForced", "aggJobs", "aggMisses", "reap"}
GradInRange == mpc \in InGradient => grad \in Grad

TypeInv == TypeOK /\ GradInRange

LEMMA InitTypeInv == Init => TypeInv
<1> SUFFICES ASSUME Init PROVE TypeInv
  OBVIOUS
<1>1. grad \in 1..(NumGradients + 1) /\ idx \in Task /\ sem \in Nat
  BY IndexFacts DEF Init
<1>2. jobs \in [Task -> Nat] /\ misses \in [Task -> Nat]
      /\ lastJobs \in [Task -> Nat] /\ age \in [Task -> Nat]
  BY DEF Init
<1>3. resJobs \in [Grad -> Nat] /\ resMisses \in [Grad -> Nat]
  BY DEF Init
<1> QED
  BY <1>1, <1>2, <1>3 DEF Init, TypeInv, TypeOK, GradInRange, InGradient

LEMMA MainTypeInv == TypeInv /\ (MainStep \/ MeasureWcet \/ BudgetExpires) => TypeInv'
<1> SUFFICES ASSUME TypeInv, MainStep \/ MeasureWcet \/ BudgetExpires
             PROVE  TypeInv'
  OBVIOUS
<1> USE IndexFacts DEF TypeInv, TypeOK, GradInRange, InGradient, gateVars, statVars,
        watchVars, ctxVars, threadVars, resVars
<1>1. CASE Begin
  BY <1>1, ModeAssumption DEF Begin
<1>2. CASE AllocArrays
  BY <1>2 DEF AllocArrays
<1>3. CASE AllocArraysFails
  BY <1>3 DEF AllocArraysFails
<1>4. CASE MeasureWcet
  BY <1>4 DEF MeasureWcet
<1>5. CASE StartGradient
  BY <1>5 DEF StartGradient
<1>6. CASE StartGradientFails
  BY <1>6 DEF StartGradientFails
<1>7. CASE StopSweep
  BY <1>7 DEF StopSweep
<1>8. CASE CreateThread
  BY <1>8 DEF CreateThread, Current
<1>9. CASE CreateThreadFails
  BY <1>9 DEF CreateThreadFails, StopThreads
<1>10. CASE ReapFailed
  BY <1>10 DEF ReapFailed, ReapOrAbandon
<1>11. CASE WatchStart
  BY <1>11 DEF WatchStart, StartPoll
<1>12. CASE WatchStartFails
  BY <1>12 DEF WatchStartFails
<1>13. CASE PollTask
  <2>1. CASE Completed(Current(idx))
    BY <1>13, <2>1 DEF PollTask
  <2>2. CASE ~Completed(Current(idx))
    <3>1. lastJobs' \in [Task -> Nat] /\ age' \in [Task -> Nat]
      BY <1>13, <2>2 DEF PollTask
    <3>2. done' \in BOOLEAN /\ allStalled' \in BOOLEAN
      BY <1>13, <2>2 DEF PollTask, StallVerdict
    <3>3. idx' \in Task /\ mpc' \in {"poll", "decide"}
      BY <1>13 DEF PollTask
    <3> QED
      BY <1>13, <3>1, <3>2, <3>3 DEF PollTask
  <2> QED
    BY <2>1, <2>2
<1>14. CASE PollDone
  BY <1>14 DEF PollDone, AllDone, NoWatch
<1>15. CASE PollStalled \/ PollBudget \/ BackstopBudget
  <2>1. ToForced /\ mpc \in InGradient
    BY <1>15 DEF PollStalled, PollBudget, BackstopBudget
  <2> QED
    BY <2>1 DEF ToForced, NoWatch
<1>16. CASE PollSleep
  BY <1>16, WindowAssumption DEF PollSleep, StartPoll, Min
<1>17. CASE BackstopDone
  BY <1>17 DEF BackstopDone, AllDone, NoWatch
<1>18. CASE ForceStop
  BY <1>18 DEF ForceStop, StopThreads
<1>19. CASE ReapForced
  BY <1>19 DEF ReapForced, ReapOrAbandon
<1>20. CASE AggregateJobs
  BY <1>20 DEF AggregateJobs
<1>21. CASE AggregateMisses
  BY <1>21 DEF AggregateMisses
<1>22. CASE ReapCompleted
  BY <1>22 DEF ReapCompleted, ReapOrAbandon
<1>23. CASE Cleanup
  BY <1>23 DEF Cleanup
<1>24. CASE DestroyGate
  BY <1>24 DEF DestroyGate
<1>25. CASE BudgetExpires
  <2>1. budget' \in BOOLEAN
    BY <1>25 DEF BudgetExpires
  <2>2. /\ UNCHANGED <<mpc, grad, idx, suppress, arrays, gate, sem, jobs, misses>>
        /\ UNCHANGED <<lastJobs, age, done, allStalled, ctx, running, handle, pc, phase>>
        /\ UNCHANGED <<resJobs, resMisses, status>>
    BY <1>25 DEF BudgetExpires
  <2> QED
    BY <2>1, <2>2
<1> HIDE IndexFacts DEF TypeInv, TypeOK, GradInRange, InGradient
<1> QED
  BY <1>1, <1>2, <1>3, <1>4, <1>5, <1>6, <1>7, <1>8, <1>9, <1>10, <1>11,
     <1>12, <1>13, <1>14, <1>15, <1>16, <1>17, <1>18, <1>19, <1>20, <1>21,
     <1>22, <1>23, <1>24, <1>25 DEF MainStep

LEMMA ThreadTypeInv ==
  ASSUME TypeInv, NEW th \in Thread, ThreadStep(th)
  PROVE  TypeInv'
<1> USE IndexFacts DEF TypeInv, TypeOK, GradInRange, InGradient, mainVars, gateVars,
        statVars, watchVars, ctxVars, resVars
<1>1. CASE ReachGate(th)
  BY <1>1 DEF ReachGate
<1>2. CASE TakeGate(th)
  BY <1>2 DEF TakeGate
<1>3. CASE WakeFromDestroyedGate(th)
  BY <1>3 DEF WakeFromDestroyedGate
<1>4. CASE LeaveWorkload(th)
  BY <1>4 DEF LeaveWorkload
<1>5. CASE AccountJob(th)
  BY <1>5 DEF AccountJob, Increment
<1>6. CASE AccountMiss(th)
  BY <1>6 DEF AccountMiss, Increment
<1>7. CASE LoopHead(th)
  <2>1. \/ pc' = [pc EXCEPT ![th] = "sleep"] /\ phase' = phase
        \/ StartTeardown(th)
    BY <1>7 DEF LoopHead
  <2>2. pc' \in [Thread -> ThreadPC]
    BY <2>1 DEF StartTeardown
  <2>3. phase' \in [Thread -> {"init", "exec", "teardown"}]
    BY <2>1 DEF StartTeardown
  <2> QED
    BY <1>7, <2>2, <2>3 DEF LoopHead
<1>8. CASE WakeUp(th)
  <2>1. \/ /\ phase' = [phase EXCEPT ![th] = "exec"]
           /\ pc' = [pc EXCEPT ![th] = "atGate"]
        \/ StartTeardown(th)
    BY <1>8 DEF WakeUp
  <2>2. pc' \in [Thread -> ThreadPC]
    BY <2>1 DEF StartTeardown
  <2>3. phase' \in [Thread -> {"init", "exec", "teardown"}]
    BY <2>1 DEF StartTeardown
  <2> QED
    BY <1>8, <2>2, <2>3 DEF WakeUp
<1>9. CASE SetCompleted(th)
  BY <1>9 DEF SetCompleted
<1> QED
  BY ThreadStep(th), <1>1, <1>2, <1>3, <1>4, <1>5, <1>6, <1>7, <1>8, <1>9
  DEF ThreadStep, OwnStep

\* The inductive form: TypeOK, and the gradient index is a gradient while one
\* is being run.
THEOREM TypeInvariant == Spec => []TypeInv
<1>1. TypeInv /\ [Next]_vars => TypeInv'
  <2> SUFFICES ASSUME TypeInv, [Next]_vars PROVE TypeInv'
    OBVIOUS
  <2>1. CASE MainStep \/ MeasureWcet \/ BudgetExpires
    BY <2>1, MainTypeInv
  <2>2. CASE \E th \in Thread : ThreadStep(th)
    BY <2>2, ThreadTypeInv
  <2>3. CASE UNCHANGED vars
    BY <2>3 DEF vars, TypeInv, TypeOK, GradInRange, InGradient, gateVars, statVars,
       watchVars, ctxVars, threadVars, resVars
  <2> QED
    BY <2>1, <2>2, <2>3 DEF Next
<1> QED
  BY <1>1, InitTypeInv, PTL DEF Spec

\* Every variable of the command keeps its type; in particular the loop index
\* stays a task and the gate's semaphore never counts below zero.
THEOREM TypeCorrect == Spec => []TypeOK
<1>1. TypeInv => TypeOK
  BY DEF TypeInv
<1> QED
  BY <1>1, TypeInvariant, PTL

-----------------------------------------------------------------------------
(* The exec gate. *)

\* A command that has not begun has no threads; while the gate exists its
\* count and the workloads running behind it add up to one.
GateInv ==
  /\ mpc = "begin" => \A th \in Thread : pc[th] = "none"
  /\ gate => /\ sem \in {0, 1}
             /\ sem = 1 => \A th \in Thread : pc[th] # "inside"
             /\ GateMutex

LEMMA GateInvInit == Init => GateInv
BY DEF Init, GateInv

\* Of the command thread's steps only three matter to the gate.
LEMMA GateInvMain ==
  TypeInv /\ GateInv /\ (MainStep \/ MeasureWcet \/ BudgetExpires) => GateInv'
<1> SUFFICES ASSUME TypeInv, GateInv, MainStep \/ MeasureWcet \/ BudgetExpires
             PROVE  GateInv'
  OBVIOUS
<1> USE DEF GateInv, GateMutex
<1>1. CASE Begin
  BY <1>1 DEF Begin, threadVars
<1>2. CASE CreateThread
  <2>1. \A th \in Thread : pc'[th] = "inside" => pc[th] = "inside"
    BY <1>2, IndexFacts DEF CreateThread, TypeInv, TypeOK
  <2>2. mpc' # "begin" /\ gate' = gate /\ sem' = sem
    BY <1>2 DEF CreateThread, gateVars
  <2> QED
    BY <2>1, <2>2
<1>3. CASE DestroyGate
  BY <1>3 DEF DestroyGate
<1>4. CASE ~Begin /\ ~CreateThread /\ ~DestroyGate
  <2>1. UNCHANGED <<gate, sem, pc>> /\ mpc' # "begin"
    BY <1>4 DEF MainStep, MeasureWcet, BudgetExpires, gateVars, threadVars,
       AllocArrays, AllocArraysFails, StartGradient, StartGradientFails,
       StopSweep, CreateThreadFails, ReapFailed, WatchStart, WatchStartFails,
       StartPoll, PollTask, PollDone, PollStalled, PollBudget, PollSleep,
       BackstopDone, BackstopBudget, AllDone, ToForced, ForceStop, ReapForced,
       AggregateJobs, AggregateMisses, ReapCompleted, Cleanup
  <2> QED
    BY <2>1
<1> QED
  BY <1>1, <1>2, <1>3, <1>4

LEMMA GateInvThread ==
  ASSUME TypeInv, GateInv, NEW th \in Thread, ThreadStep(th)
  PROVE  GateInv'
<1> USE DEF GateInv, GateMutex, TypeInv, TypeOK
<1>0. mpc' = mpc /\ gate' = gate /\ pc[th] # "none"
  BY DEF ThreadStep, OwnStep, mainVars, gateVars, ReachGate, TakeGate,
     WakeFromDestroyedGate, LeaveWorkload, AccountJob, AccountMiss, LoopHead,
     WakeUp, SetCompleted
<1>1. CASE TakeGate(th)
  BY <1>0, <1>1 DEF TakeGate
<1>2. CASE LeaveWorkload(th)
  BY <1>0, <1>2 DEF LeaveWorkload
<1>3. CASE WakeFromDestroyedGate(th)
  BY <1>0, <1>3 DEF WakeFromDestroyedGate
<1>4. CASE OwnStep(th)
  <2>1. sem' = sem /\ \A o \in Thread : gate /\ pc'[o] = "inside" => pc[o] = "inside"
    BY <1>4 DEF OwnStep, gateVars, ReachGate, AccountJob, AccountMiss, LoopHead,
       WakeUp, SetCompleted, StartTeardown
  <2> QED
    BY <1>0, <2>1
<1> QED
  BY ThreadStep(th), <1>1, <1>2, <1>3, <1>4 DEF ThreadStep

\* At most one workload runs while the gate exists, whichever threads the
\* watchdog abandoned.
THEOREM GateExclusion == Spec => []GateMutex
<1>1. TypeInv /\ GateInv /\ [Next]_vars => GateInv'
  <2> SUFFICES ASSUME TypeInv, GateInv, [Next]_vars PROVE GateInv'
    OBVIOUS
  <2>1. CASE MainStep \/ MeasureWcet \/ BudgetExpires
    BY <2>1, GateInvMain
  <2>2. CASE \E th \in Thread : ThreadStep(th)
    BY <2>2, GateInvThread
  <2>3. CASE UNCHANGED vars
    BY <2>3 DEF vars, GateInv, GateMutex, gateVars, threadVars
  <2> QED
    BY <2>1, <2>2, <2>3 DEF Next
<1>2. GateInv => GateMutex
  BY DEF GateInv, GateMutex
<1> QED
  BY <1>1, <1>2, GateInvInit, TypeInvariant, PTL DEF Spec

-----------------------------------------------------------------------------
(* The life of a task thread, seen from the command thread. *)

Aggregating == {"aggJobs", "aggMisses", "reap"}

\* Threads the command thread has not created: those of later gradients, and
\* of the current one as far as creation has not come to them.
NotCreated(th) ==
  \/ th[1] > grad
  \/ th[1] = grad /\ mpc \notin InGradient
  \/ th[1] = grad /\ mpc \in {"create", "reapFailed"} /\ th[2] >= idx

Unstarted == \A th \in Thread :
  NotCreated(th) => pc[th] = "none" /\ handle[th] = "none"

\* The threads of the current gradient that creation has come to.
Created(th) ==
  /\ th[1] = grad /\ mpc \in InGradient
  /\ mpc \in {"create", "reapFailed"} => th[2] < idx

Started == \A th \in Thread : Created(th) => pc[th] # "none"

HandleMatchesPC == \A th \in Thread :
  /\ pc[th] = "none" <=> handle[th] = "none"
  /\ handle[th] = "joined" => pc[th] = "done"

JoinableIsCurrent == \A th \in Thread :
  handle[th] = "joinable" =>
    th[1] = grad /\ mpc \in InGradient /\ ~(mpc \in Aggregating /\ status[grad] = "partial")

\* What the watchdog has seen: done means every task looked at had completed.
WatchSound ==
  mpc \in {"poll", "decide"} /\ done =>
    \A t \in Task : (mpc = "poll" => t < idx) => Completed(Current(t))

AggregatingSound ==
  /\ mpc \in Aggregating => status[grad] \in {"partial", "complete"}
  /\ mpc = "reap" => status[grad] = "complete"
  /\ mpc \in Aggregating /\ status[grad] = "complete" =>
       \A t \in Task : Completed(Current(t))

LifeInv ==
  /\ Unstarted /\ Started /\ HandleMatchesPC /\ JoinableIsCurrent
  /\ WatchSound /\ AggregatingSound /\ NoContextUseAfterFree

LEMMA LifeInvInit == Init => LifeInv
BY IndexFacts DEF Init, LifeInv, Unstarted, Started, Created, InGradient, HandleMatchesPC,
   JoinableIsCurrent, WatchSound,
   AggregatingSound, NoContextUseAfterFree, Aggregating

\* A thread's step moves its own pc and leaves the command thread alone.
LEMMA ThreadStepPC ==
  ASSUME TypeInv, NEW th \in Thread, ThreadStep(th)
  PROVE  /\ UNCHANGED mainVars
         /\ UNCHANGED <<mpc, grad, idx, arrays, done, ctx, running, handle,
                        resJobs, resMisses, status>>
         /\ pc[th] # "none" /\ pc[th] # "done"
         /\ pc'[th] # "none"
         /\ \A o \in Thread : o # th => pc'[o] = pc[o]
<1>1. UNCHANGED mainVars
  BY DEF ThreadStep, OwnStep, ReachGate, TakeGate, WakeFromDestroyedGate,
     LeaveWorkload, AccountJob, AccountMiss, LoopHead, WakeUp, SetCompleted
<1>2. pc[th] # "none" /\ pc[th] # "done"
  BY DEF ThreadStep, OwnStep, ReachGate, TakeGate, WakeFromDestroyedGate,
     LeaveWorkload, AccountJob, AccountMiss, LoopHead, WakeUp, SetCompleted
<1>3. \E p \in ThreadPC \ {"none"} : pc' = [pc EXCEPT ![th] = p]
  <2> USE DEF TypeInv, TypeOK
  <2>1. CASE ReachGate(th) \/ TakeGate(th) \/ WakeFromDestroyedGate(th)
    BY <2>1 DEF ReachGate, TakeGate, WakeFromDestroyedGate
  <2>2. CASE LeaveWorkload(th)
    BY <2>2 DEF LeaveWorkload
  <2>3. CASE AccountJob(th) \/ AccountMiss(th)
    BY <2>3 DEF AccountJob, AccountMiss
  <2>4. CASE LoopHead(th)
    BY <2>4 DEF LoopHead, StartTeardown
  <2>5. CASE WakeUp(th)
    BY <2>5 DEF WakeUp, StartTeardown
  <2>6. CASE SetCompleted(th)
    BY <2>6 DEF SetCompleted
  <2> QED
    BY ThreadStep(th), <2>1, <2>2, <2>3, <2>4, <2>5, <2>6 DEF ThreadStep, OwnStep
<1>4. pc \in [Thread -> ThreadPC]
  BY DEF TypeInv, TypeOK
<1> QED
  BY <1>1, <1>2, <1>3, <1>4 DEF mainVars, watchVars, ctxVars, resVars

LEMMA LifeInvThread ==
  ASSUME TypeInv, LifeInv, NEW th \in Thread, ThreadStep(th)
  PROVE  LifeInv'
<1> USE IndexFacts DEF TypeInv, TypeOK
<1>1. /\ UNCHANGED <<mpc, grad, idx, done, ctx, handle, status>>
      /\ pc[th] # "none" /\ pc[th] # "done"
      /\ pc'[th] # "none"
      /\ \A o \in Thread : o # th => pc'[o] = pc[o]
  BY ThreadStepPC
<1>2. \A o \in Thread : pc[o] = "done" => pc'[o] = "done"
  BY <1>1
<1>3. \A o \in Thread : pc[o] = "none" <=> pc'[o] = "none"
  BY <1>1
<1>4. Unstarted' /\ Started' /\ HandleMatchesPC' /\ JoinableIsCurrent'
  BY <1>1, <1>2, <1>3 DEF LifeInv, Unstarted, NotCreated, Started, Created,
     HandleMatchesPC, JoinableIsCurrent
<1>5. WatchSound' /\ AggregatingSound'
  <2>1. GradInRange
    OBVIOUS
  <2> QED
    BY <1>1, <1>2, <2>1 DEF LifeInv, WatchSound, AggregatingSound, Completed,
       Current, Aggregating, GradInRange, InGradient
<1>6. NoContextUseAfterFree'
  BY <1>1, <1>2 DEF LifeInv, NoContextUseAfterFree
<1> QED
  BY <1>4, <1>5, <1>6 DEF LifeInv

\* Steps of the command thread that touch neither threads nor contexts and
\* stay out of the watchdog and of aggregation.
LEMMA LifeInvSetup ==
  ASSUME TypeInv, LifeInv,
         \/ Begin \/ AllocArrays \/ AllocArraysFails \/ MeasureWcet
         \/ StartGradientFails \/ StopSweep \/ Cleanup \/ DestroyGate \/ BudgetExpires
  PROVE  LifeInv'
<1> USE IndexFacts DEF TypeInv, TypeOK, InGradient, Aggregating
<1>1. /\ UNCHANGED <<pc, handle, ctx, done>>
      /\ grad' \in {grad, grad + 1}
  BY DEF Begin, AllocArrays, AllocArraysFails, MeasureWcet, StartGradientFails,
     StopSweep, Cleanup, DestroyGate, BudgetExpires, threadVars, ctxVars, watchVars
<1>2. \/ mpc \notin InGradient /\ mpc' \notin InGradient
      \/ UNCHANGED <<mpc, grad, idx, status>>
  BY DEF Begin, AllocArrays, AllocArraysFails, MeasureWcet, StartGradientFails,
     StopSweep, Cleanup, DestroyGate, BudgetExpires, resVars
<1>3. CASE mpc \notin InGradient /\ mpc' \notin InGradient
  <2>1. \A th \in Thread : NotCreated(th)' => NotCreated(th)
    BY <1>1, <1>3 DEF NotCreated
  <2> QED
    BY <1>1, <1>3, <2>1 DEF LifeInv, Unstarted, Started, Created, HandleMatchesPC,
       JoinableIsCurrent,
       WatchSound, AggregatingSound, NoContextUseAfterFree
<1>4. CASE UNCHANGED <<mpc, grad, idx, status>>
  BY <1>1, <1>4 DEF LifeInv, Unstarted, NotCreated, Started, Created,
     HandleMatchesPC, JoinableIsCurrent, WatchSound, AggregatingSound,
     NoContextUseAfterFree,
     Completed, Current
<1> QED
  BY <1>2, <1>3, <1>4

LEMMA LifeInvCreation ==
  ASSUME TypeInv, LifeInv,
         StartGradient \/ CreateThread \/ CreateThreadFails \/ ReapFailed
  PROVE  LifeInv'
<1> USE IndexFacts DEF TypeInv, TypeOK, GradInRange, InGradient, Aggregating, LifeInv,
        Unstarted, NotCreated, Started, Created, HandleMatchesPC,
        JoinableIsCurrent, WatchSound, AggregatingSound, NoContextUseAfterFree
<1>1. CASE StartGradient
  BY <1>1 DEF StartGradient, threadVars
<1>2. CASE CreateThread
  <2>1. Current(idx) \in Thread /\ pc[Current(idx)] = "none"
    BY <1>2 DEF CreateThread, Current
  <2>2. /\ pc'[Current(idx)] = "atGate" /\ handle'[Current(idx)] = "joinable"
        /\ \A th \in Thread : th # Current(idx) =>
             pc'[th] = pc[th] /\ handle'[th] = handle[th]
    BY <1>2, <2>1 DEF CreateThread
  <2>3. \A th \in Thread : th # Current(idx) <=> (th[1] # grad \/ th[2] # idx)
    BY DEF Current
  <2>12. mpc = "create" /\ grad' = grad /\ ctx' = ctx /\ status' = status
    BY <1>2 DEF CreateThread, resVars
  <2>13. IF idx < NumTasks THEN mpc' = "create" /\ idx' = idx + 1
                          ELSE mpc' = "watch" /\ idx' = 1
    BY <1>2 DEF CreateThread
  <2>4. /\ mpc = "create" /\ grad' = grad /\ ctx' = ctx /\ status' = status
        /\ \/ mpc' = "create" /\ idx' = idx + 1
           \/ mpc' = "watch" /\ idx = NumTasks
    <3>1. idx \in Nat /\ idx <= NumTasks /\ NumTasks \in Nat
      OBVIOUS
    <3> HIDE IndexFacts DEF TypeInv, TypeOK
    <3> QED
      BY <2>12, <2>13, <3>1
  <2>5. \A th \in Thread : NotCreated(th)' => NotCreated(th) /\ th # Current(idx)
    BY <2>3, <2>4
  <2>6. Unstarted'
    BY <2>2, <2>5
  <2>7. \A th \in Thread : Created(th)' => Created(th) \/ th = Current(idx)
    <3>1. \A th \in Thread : th[2] \in Nat /\ th[2] <= NumTasks
      OBVIOUS
    <3>2. idx \in Nat
      OBVIOUS
    <3> HIDE IndexFacts DEF TypeInv, TypeOK
    <3> QED
      BY <2>3, <2>4, <3>1, <3>2
  <2>8. Started'
    BY <2>2, <2>7
  <2>9. HandleMatchesPC' /\ JoinableIsCurrent'
    <3>1. Current(idx)[1] = grad
      BY DEF Current
    <3>2. /\ mpc' \in {"create", "watch"}
          /\ \A th \in Thread : handle[th] = "joinable" => th[1] = grad
      BY <2>4
    <3>3. HandleMatchesPC'
      <4> USE <2>2
      <4> HIDE IndexFacts DEF TypeInv, TypeOK
      <4> QED
        OBVIOUS
    <3>4. JoinableIsCurrent'
      <4> HIDE IndexFacts DEF TypeInv, TypeOK, LifeInv
      <4> QED
        BY <2>2, <2>4, <3>1, <3>2
    <3> QED
      BY <3>3, <3>4
  <2>10. WatchSound' /\ AggregatingSound'
    BY <2>4
  <2>11. NoContextUseAfterFree'
    BY <2>1, <2>2, <2>4
  <2> HIDE DEF Unstarted, Started, HandleMatchesPC, JoinableIsCurrent, WatchSound,
           AggregatingSound, NoContextUseAfterFree
  <2> QED
    BY <2>6, <2>8, <2>9, <2>10, <2>11
<1>3. CASE CreateThreadFails
  BY <1>3 DEF CreateThreadFails, threadVars, resVars
<1>4. CASE ReapFailed
  <2>1. /\ mpc = "reapFailed" /\ mpc' = "gradient" /\ grad' = grad + 1 /\ grad \in Grad
        /\ UNCHANGED <<pc, ctx>>
    BY <1>4 DEF ReapFailed, threadVars
  <2>2. \A th \in Thread :
          handle'[th] = IF th[1] = grad /\ th[2] <= idx - 1
                          THEN IF pc[th] = "done" THEN "joined" ELSE "detached"
                          ELSE handle[th]
    BY <1>4 DEF ReapFailed, ReapOrAbandon, Completed
  <2>3. \A th \in Thread : th[1] = grad /\ th[2] <= idx - 1 => pc[th] # "none"
    BY <2>1
  <2>4. \A th \in Thread : NotCreated(th)' => th[1] > grad
    BY <2>1
  <2>5. Unstarted'
    BY <2>1, <2>2, <2>4
  <2>6. HandleMatchesPC'
    BY <2>1, <2>2, <2>3
  <2>7. JoinableIsCurrent'
    BY <2>1, <2>2
  <2> QED
    BY <2>1, <2>5, <2>6, <2>7
<1> QED
  BY <1>1, <1>2, <1>3, <1>4

LEMMA LifeInvWatch ==
  ASSUME TypeInv, LifeInv,
         \/ WatchStart \/ WatchStartFails \/ PollTask \/ PollDone \/ PollStalled
         \/ PollBudget \/ PollSleep \/ BackstopDone \/ BackstopBudget
  PROVE  LifeInv'
<1> USE IndexFacts DEF TypeInv, TypeOK, GradInRange, InGradient, Aggregating
<1>1. UNCHANGED <<pc, handle, ctx, grad>> /\ mpc \in InGradient /\ mpc' \in InGradient
      /\ mpc \notin Aggregating /\ mpc \notin {"create", "reapFailed"}
      /\ mpc' \notin {"create", "reapFailed"}
  BY DEF WatchStart, WatchStartFails, PollTask, PollDone, PollStalled, PollBudget,
     PollSleep, BackstopDone, BackstopBudget, StartPoll, AllDone, ToForced,
     threadVars, ctxVars
<1>2. Unstarted' /\ Started' /\ HandleMatchesPC' /\ NoContextUseAfterFree'
  BY <1>1 DEF LifeInv, Unstarted, NotCreated, Started, Created, HandleMatchesPC,
     NoContextUseAfterFree
<1>3. mpc' \in Aggregating => status'[grad'] = "complete" /\ mpc' = "aggJobs"
        /\ \A t \in Task : Completed(Current(t))
  BY DEF WatchStart, WatchStartFails, PollTask, PollDone, PollStalled, PollBudget,
     PollSleep, BackstopDone, BackstopBudget, StartPoll, AllDone, ToForced,
     LifeInv, WatchSound
<1>4. AggregatingSound' /\ JoinableIsCurrent'
  BY <1>1, <1>3 DEF LifeInv, AggregatingSound, JoinableIsCurrent, Completed, Current
<1>5. WatchSound'
  <2>1. CASE WatchStart \/ PollSleep
    BY <2>1, <1>1 DEF WatchStart, PollSleep, StartPoll, WatchSound
  <2>2. CASE PollTask
    <3>1. CASE Completed(Current(idx))
      <4>1. done' = done /\ mpc = "poll" /\ UNCHANGED <<pc, grad>>
        BY <2>2, <3>1, <1>1 DEF PollTask, watchVars
      <4>2. \A t \in Task : t \in Nat /\ t <= NumTasks
        OBVIOUS
      <4>3. \A t \in Task : (mpc' = "poll" => t < idx') => t < idx \/ t = idx
        <5>1. idx < NumTasks => idx' = idx + 1 /\ mpc' = "poll"
          BY <2>2 DEF PollTask
        <5>2. idx \in Nat /\ NumTasks \in Nat
          OBVIOUS
        <5> HIDE IndexFacts DEF TypeInv, TypeOK, GradInRange, InGradient, Aggregating
        <5> QED
          BY <4>2, <5>1, <5>2
      <4>4. done => \A t \in Task : t < idx \/ t = idx => Completed(Current(t))
        BY <3>1, <4>1 DEF LifeInv, WatchSound
      <4>5. \A t \in Task : Completed(Current(t)) => Completed(Current(t))'
        BY <4>1 DEF Completed, Current
      <4> QED
        BY <4>1, <4>3, <4>4, <4>5 DEF WatchSound
    <3>2. CASE ~Completed(Current(idx))
      BY <2>2, <3>2 DEF PollTask, WatchSound
    <3> QED
      BY <3>1, <3>2
  <2>3. CASE ~WatchStart /\ ~PollSleep /\ ~PollTask
    <3>1. mpc' \notin {"poll", "decide"}
      BY <2>3 DEF WatchStartFails, PollDone, PollStalled, PollBudget, BackstopDone,
         BackstopBudget, AllDone, ToForced
    <3> QED
      BY <3>1 DEF WatchSound
  <2> QED
    BY <2>1, <2>2, <2>3
<1> QED
  BY <1>2, <1>4, <1>5 DEF LifeInv

LEMMA LifeInvFinish ==
  ASSUME TypeInv, LifeInv,
         \/ ForceStop \/ ReapForced
         \/ AggregateJobs \/ AggregateMisses \/ ReapCompleted
  PROVE  LifeInv'
<1> USE IndexFacts DEF TypeInv, TypeOK, GradInRange, InGradient, Aggregating, LifeInv,
        Unstarted, NotCreated, Started, Created, HandleMatchesPC,
        JoinableIsCurrent, WatchSound, AggregatingSound, NoContextUseAfterFree, Completed,
        Current
<1>1. CASE ForceStop
  BY <1>1 DEF ForceStop, threadVars, resVars
<1>2. CASE ReapForced
  <2>1. /\ mpc = "reapForced" /\ mpc' = "aggJobs" /\ grad \in Grad
        /\ UNCHANGED <<pc, ctx, grad>>
        /\ status'[grad] = "partial"
    BY <1>2 DEF ReapForced, threadVars
  <2>2. \A th \in Thread :
          handle'[th] = IF th[1] = grad
                          THEN IF pc[th] = "done" THEN "joined" ELSE "detached"
                          ELSE handle[th]
    BY <1>2 DEF ReapForced, ReapOrAbandon
  <2>3. \A th \in Thread : th[1] = grad => pc[th] # "none"
    BY <2>1
  <2>4. Unstarted' /\ Started'
    BY <2>1, <2>2
  <2>5. HandleMatchesPC'
    BY <2>1, <2>2, <2>3
  <2>6. JoinableIsCurrent'
    BY <2>1, <2>2
  <2> QED
    BY <2>1, <2>4, <2>5, <2>6
<1>3. CASE AggregateJobs
  BY <1>3 DEF AggregateJobs, threadVars, ctxVars
<1>4. CASE AggregateMisses
  BY <1>4 DEF AggregateMisses, threadVars, ctxVars
<1>5. CASE ReapCompleted
  BY <1>5 DEF ReapCompleted, ReapOrAbandon, threadVars, resVars
<1> QED
  BY <1>1, <1>2, <1>3, <1>4, <1>5

LEMMA LifeInvNext == TypeInv /\ LifeInv /\ [Next]_vars => LifeInv'
<1> SUFFICES ASSUME TypeInv, LifeInv, [Next]_vars PROVE LifeInv'
  OBVIOUS
<1>1. CASE MainStep \/ MeasureWcet \/ BudgetExpires
  BY <1>1, LifeInvSetup, LifeInvCreation, LifeInvWatch, LifeInvFinish DEF MainStep
<1>2. CASE \E th \in Thread : ThreadStep(th)
  BY <1>2, LifeInvThread
<1>3. CASE UNCHANGED vars
  BY <1>3 DEF vars, LifeInv, Unstarted, NotCreated, Started, Created,
     HandleMatchesPC, JoinableIsCurrent, WatchSound, AggregatingSound,
     NoContextUseAfterFree,
     Completed, Current, InGradient, Aggregating, watchVars, ctxVars, threadVars,
     resVars
<1> QED
  BY <1>1, <1>2, <1>3 DEF Next

\* A gradient's contexts are freed only after all its threads have finished.
THEOREM ContextsOutliveThreads == Spec => []NoContextUseAfterFree
BY LifeInvInit, LifeInvNext, TypeInvariant, PTL DEF Spec, LifeInv

\* Between gradients every started thread has been joined or detached.
THEOREM EveryThreadReaped == Spec => []NoUnreapedThread
<1>1. LifeInv => NoUnreapedThread
  BY DEF LifeInv, HandleMatchesPC, JoinableIsCurrent, NoUnreapedThread, InGradient
<1> QED
  BY <1>1, LifeInvInit, LifeInvNext, TypeInvariant, PTL DEF Spec

\* The arrays are freed at the end of the sweep.
ArraysInv == arrays = "freed" => mpc \in {"destroyGate", "returned"}

LEMMA ArraysInvNext == ArraysInv /\ [Next]_vars => ArraysInv'
<1> SUFFICES ASSUME ArraysInv, [Next]_vars PROVE ArraysInv'
  OBVIOUS
<1>1. CASE mpc \in {"destroyGate", "returned"} /\ MainStep
  BY <1>1 DEF MainStep, Begin, AllocArrays, AllocArraysFails, StartGradient,
     StartGradientFails,
     StopSweep, CreateThread, CreateThreadFails, ReapFailed, WatchStart, WatchStartFails,
     PollTask,
     PollDone, PollStalled, PollBudget, PollSleep, BackstopDone, BackstopBudget, AllDone,
     ToForced,
     ForceStop, ReapForced, AggregateJobs, AggregateMisses, ReapCompleted, Cleanup,
     DestroyGate,
     ArraysInv
<1>2. CASE mpc \notin {"destroyGate", "returned"} /\ MainStep
  <2>1. arrays # "freed"
    BY <1>2 DEF ArraysInv
  <2>2. CASE Cleanup
    BY <2>2 DEF Cleanup, ArraysInv
  <2>3. CASE ~Cleanup
    <3>1. arrays' # "freed"
      BY <1>2, <2>1, <2>3 DEF MainStep, Begin, AllocArrays, AllocArraysFails, StartGradient,
         StartGradientFails, StopSweep, CreateThread, CreateThreadFails, ReapFailed,
         WatchStart,
         WatchStartFails, PollTask, PollDone, PollStalled, PollBudget, PollSleep,
         BackstopDone,
         BackstopBudget, AllDone, ToForced, ForceStop, ReapForced, AggregateJobs,
         AggregateMisses, ReapCompleted, DestroyGate
    <3> QED
      BY <3>1 DEF ArraysInv
  <2> QED
    BY <2>2, <2>3
<1>3. CASE MeasureWcet
  BY <1>3 DEF MeasureWcet, ArraysInv
<1>4. CASE BudgetExpires
  BY <1>4 DEF BudgetExpires, ArraysInv
<1>5. CASE UNCHANGED vars
  BY <1>5 DEF vars, ArraysInv
<1>6. ASSUME NEW th \in Thread, ThreadStep(th) PROVE ArraysInv'
  BY <1>6 DEF ThreadStep, OwnStep, ReachGate, TakeGate, WakeFromDestroyedGate,
     LeaveWorkload,
     AccountJob, AccountMiss, LoopHead, WakeUp, SetCompleted, mainVars, ArraysInv
<1> QED
  BY <1>1, <1>2, <1>3, <1>4, <1>5, <1>6 DEF Next

\* Whatever the numbers of tasks, gradients and cycles: a thread that still
\* needs the arrays when they are freed is one that was abandoned.
THEOREM ArraysOutliveTheirThreads == Spec => []ArraysOutliveManaged
<1>1. TypeInv /\ LifeInv /\ ArraysInv => ArraysOutliveManaged
  BY DEF TypeInv, TypeOK, LifeInv, HandleMatchesPC, JoinableIsCurrent, ArraysInv,
     ArraysOutliveManaged, Orphan, InGradient
<1>2. Init => ArraysInv
  BY DEF Init, ArraysInv
<1> QED
  BY <1>1, <1>2, ArraysInvNext, LifeInvInit, LifeInvNext, TypeInvariant, PTL DEF Spec
-----------------------------------------------------------------------------
(* Workload output. *)

\* From the first pthread_create of a gradient to the end of its watchdog, and
\* on the failing and forced paths until the threads are reaped.
Managing == {"create", "reapFailed", "watch", "poll", "decide", "backstop", "forced", "reapForced"}

SuppressInv == mpc \in Managing => suppress

LEMMA SuppressInvNext == SuppressInv /\ [Next]_vars => SuppressInv'
<1> SUFFICES ASSUME SuppressInv, [Next]_vars PROVE SuppressInv'
  OBVIOUS
<1> USE DEF SuppressInv, Managing
<1>1. CASE StartGradient
  BY <1>1 DEF StartGradient
<1>2. CASE MainStep /\ ~StartGradient
  <2>1. mpc' \in Managing => mpc \in Managing /\ suppress' = suppress
    BY <1>2 DEF MainStep, Begin, AllocArrays, AllocArraysFails, StartGradientFails, StopSweep,
       CreateThread, CreateThreadFails, ReapFailed, WatchStart, WatchStartFails, StartPoll,
       PollTask, PollDone, PollStalled, PollBudget, PollSleep, BackstopDone, BackstopBudget,
       AllDone, ToForced, ForceStop, ReapForced, AggregateJobs, AggregateMisses, ReapCompleted,
       Cleanup, DestroyGate
  <2> QED
    BY <2>1
<1>3. CASE MeasureWcet \/ BudgetExpires
  BY <1>3 DEF MeasureWcet, BudgetExpires
<1>4. CASE UNCHANGED vars
  BY <1>4 DEF vars
<1>5. ASSUME NEW th \in Thread, ThreadStep(th) PROVE SuppressInv'
  BY <1>5 DEF ThreadStep, OwnStep, ReachGate, TakeGate, WakeFromDestroyedGate, LeaveWorkload,
     AccountJob, AccountMiss, LoopHead, WakeUp, SetCompleted, mainVars
<1> QED
  BY <1>1, <1>2, <1>3, <1>4, <1>5 DEF Next

\* A thread that has been neither joined nor abandoned runs workloads only while
\* their output is suppressed: when output is allowed again before the threads
\* are joined, the watchdog has seen all of them complete.
THEOREM ManagedThreadsAreSilent == Spec => []SuppressedWhileManaged
<1>1. TypeInv /\ LifeInv /\ SuppressInv => SuppressedWhileManaged
  <2> SUFFICES ASSUME TypeInv, LifeInv, SuppressInv, NEW th \in Thread,
                      handle[th] = "joinable", pc[th] = "inside"
               PROVE  suppress
    BY DEF SuppressedWhileManaged
  <2>1. /\ th[1] = grad /\ mpc \in InGradient
        /\ ~(mpc \in Aggregating /\ status[grad] = "partial")
    BY DEF LifeInv, JoinableIsCurrent
  <2>2. th = Current(th[2]) /\ th[2] \in Task
    BY <2>1, IndexFacts DEF Current
  <2>3. CASE mpc \in Aggregating
    <3>1. Completed(Current(th[2]))
      BY <2>1, <2>2, <2>3 DEF LifeInv, AggregatingSound
    <3> QED
      BY <2>2, <3>1 DEF Completed
  <2>4. CASE mpc \notin Aggregating
    BY <2>1, <2>4 DEF SuppressInv, Managing, InGradient, Aggregating
  <2> QED
    BY <2>3, <2>4
<1>2. Init => SuppressInv
  BY DEF Init, SuppressInv, Managing
<1> QED
  BY <1>1, <1>2, SuppressInvNext, LifeInvInit, LifeInvNext, TypeInvariant, PTL DEF Spec

-----------------------------------------------------------------------------
(* Abandoned threads. *)

\* The command thread clears running before it abandons, and sets it only for
\* threads that do not exist yet.
OrphansToldToStop ==
  \A th \in Thread : handle[th] = "detached" => pc[th] = "done" \/ ~running[th]

ToldBeforeReaping ==
  /\ mpc = "reapFailed" => \A t \in Task : t < idx => ~running[Current(t)]
  /\ mpc = "reapForced" => \A t \in Task : ~running[Current(t)]

OrphanInv == OrphansToldToStop /\ ToldBeforeReaping

CommandStep == MainStep \/ MeasureWcet \/ BudgetExpires

\* The steps that neither create, nor reap, nor write running.
QuietMain ==
  CommandStep /\ ~StartGradient /\ ~CreateThread /\ ~CreateThreadFails /\ ~ForceStop
              /\ ~ReapFailed /\ ~ReapForced /\ ~ReapCompleted

LEMMA OrphanInvQuiet == OrphanInv /\ QuietMain => OrphanInv'
<1> SUFFICES ASSUME OrphanInv, QuietMain PROVE OrphanInv'
  OBVIOUS
<1>1. UNCHANGED <<pc, running, handle>>
      /\ (mpc' \notin {"reapFailed", "reapForced"} \/ UNCHANGED <<mpc, idx, grad>>)
  BY DEF QuietMain, CommandStep, MainStep, MeasureWcet, BudgetExpires, Begin, AllocArrays,
     AllocArraysFails, StartGradientFails, StopSweep, WatchStart, WatchStartFails, StartPoll,
     PollTask, PollDone, PollStalled, PollBudget, PollSleep, BackstopDone, BackstopBudget,
     AllDone, ToForced, AggregateJobs, AggregateMisses, Cleanup, DestroyGate, ctxVars, threadVars
<1> QED
  BY <1>1 DEF OrphanInv, OrphansToldToStop, ToldBeforeReaping, Current

LEMMA OrphanInvMain ==
  ASSUME TypeInv, LifeInv, OrphanInv, CommandStep
  PROVE  OrphanInv'
<1> USE IndexFacts DEF OrphanInv, OrphansToldToStop, ToldBeforeReaping, Current
<1>0. pc \in [Thread -> ThreadPC] /\ running \in [Thread -> BOOLEAN]
  BY DEF TypeInv, TypeOK
<1>1. CASE StartGradient
  <2>1. \A th \in Thread : th[1] = grad => handle[th] = "none"
    BY <1>1 DEF StartGradient, LifeInv, Unstarted, NotCreated, InGradient
  <2> QED
    BY <1>0, <1>1, <2>1 DEF StartGradient, threadVars
<1>2. CASE CreateThread
  <2>1. \A th \in Thread : handle'[th] = "detached" => handle[th] = "detached" /\ th # Current(idx)
    BY <1>2 DEF CreateThread, TypeInv, TypeOK
  <2>2. \A th \in Thread : th # Current(idx) => pc'[th] = pc[th]
    BY <1>0, <1>2 DEF CreateThread
  <2>3. running' = running /\ mpc' \notin {"reapFailed", "reapForced"}
    BY <1>2 DEF CreateThread
  <2> QED
    BY <2>1, <2>2, <2>3
<1>3. CASE CreateThreadFails
  <2>1. \A th \in Thread :
          running'[th] = (IF th[1] = grad /\ th[2] <= idx - 1 THEN FALSE ELSE running[th])
    BY <1>3 DEF CreateThreadFails, StopThreads
  <2>2. UNCHANGED <<pc, handle, grad, idx>> /\ mpc' = "reapFailed"
    BY <1>3 DEF CreateThreadFails, threadVars
  <2>3. idx \in Nat /\ grad \in Grad
    BY <1>3 DEF CreateThreadFails, TypeInv, TypeOK, GradInRange, InGradient
  <2>4. \A t \in Task : t < idx => ~running'[<<grad, t>>]
    <3> TAKE t \in Task
    <3>1. t < idx => t <= idx - 1
      BY <2>3
    <3>2. <<grad, t>> \in Thread /\ <<grad, t>>[1] = grad /\ <<grad, t>>[2] = t
      BY <2>3
    <3> QED
      BY <2>1, <3>1, <3>2
  <2> QED
    BY <2>1, <2>2, <2>4
<1>4. CASE ForceStop
  <2>1. \A th \in Thread : running'[th] = (IF th[1] = grad THEN FALSE ELSE running[th])
    BY <1>4 DEF ForceStop, StopThreads
  <2>2. UNCHANGED <<pc, handle, grad>> /\ mpc' = "reapForced"
    BY <1>4 DEF ForceStop, threadVars
  <2>3. grad \in Grad
    BY <1>4 DEF ForceStop, TypeInv, TypeOK, GradInRange, InGradient
  <2> QED
    BY <2>1, <2>2, <2>3
<1>5. CASE ReapFailed \/ ReapForced \/ ReapCompleted
  <2>1. UNCHANGED <<pc, running>> /\ mpc' \notin {"reapFailed", "reapForced"}
    BY <1>5 DEF ReapFailed, ReapForced, ReapCompleted, threadVars
  <2>2. \A th \in Thread : handle'[th] = "detached" =>
          handle[th] = "detached" \/ (th[1] = grad /\ pc[th] # "done" /\ ~running[th])
    <3> SUFFICES ASSUME NEW th \in Thread, handle'[th] = "detached", handle[th] # "detached"
                 PROVE  th[1] = grad /\ pc[th] # "done" /\ ~running[th]
      OBVIOUS
    <3>1. CASE ReapFailed
      <4>1. th[1] = grad /\ th[2] <= idx - 1 /\ pc[th] # "done" /\ mpc = "reapFailed"
        BY <3>1 DEF ReapFailed, ReapOrAbandon, Completed
      <4>2. idx \in Nat /\ th[2] \in Nat
        BY DEF TypeInv, TypeOK
      <4>3. th[2] < idx
        BY <4>1, <4>2
      <4>4. th = <<grad, th[2]>>
        BY <4>1
      <4> QED
        BY <4>1, <4>3, <4>4
    <3>2. CASE ReapForced
      <4>1. th[1] = grad /\ pc[th] # "done" /\ mpc = "reapForced"
        BY <3>2 DEF ReapForced, ReapOrAbandon, Completed
      <4>2. th = <<grad, th[2]>>
        BY <4>1
      <4> QED
        BY <4>1, <4>2
    <3>3. CASE ReapCompleted
      <4>1. th[1] = grad /\ pc[th] # "done" /\ mpc = "reap"
        BY <3>3 DEF ReapCompleted, ReapOrAbandon, Completed
      <4>2. th = <<grad, th[2]>>
        BY <4>1
      <4>3. Completed(<<grad, th[2]>>)
        BY <4>1 DEF LifeInv, AggregatingSound, Aggregating
      <4> QED
        BY <4>1, <4>2, <4>3 DEF Completed
    <3> QED
      BY <1>5, <3>1, <3>2, <3>3
  <2> QED
    BY <2>1, <2>2
<1>6. CASE ~StartGradient /\ ~CreateThread /\ ~CreateThreadFails /\ ~ForceStop
           /\ ~ReapFailed /\ ~ReapForced /\ ~ReapCompleted
  BY <1>6, OrphanInvQuiet DEF QuietMain
<1> QED
  BY <1>1, <1>2, <1>3, <1>4, <1>5, <1>6

LEMMA OrphanInvNext == TypeInv /\ LifeInv /\ OrphanInv /\ [Next]_vars => OrphanInv'
<1> SUFFICES ASSUME TypeInv, LifeInv, OrphanInv, [Next]_vars PROVE OrphanInv'
  OBVIOUS
<1>1. CASE MainStep \/ MeasureWcet \/ BudgetExpires
  BY <1>1, OrphanInvMain DEF CommandStep
<1>2. ASSUME NEW th \in Thread, ThreadStep(th) PROVE OrphanInv'
  <2>1. /\ UNCHANGED <<mpc, grad, idx, running, handle>>
        /\ \A o \in Thread : pc[o] = "done" => pc'[o] = "done"
    BY <1>2, ThreadStepPC
  <2> QED
    BY <2>1 DEF OrphanInv, OrphansToldToStop, ToldBeforeReaping, Current
<1>3. CASE UNCHANGED vars
  BY <1>3 DEF vars, ctxVars, threadVars, OrphanInv, OrphansToldToStop, ToldBeforeReaping, Current
<1> QED
  BY <1>1, <1>2, <1>3 DEF Next

\* Which step takes a sleeping thread on, and where to.
LEMMA OrphanStep ==
  TypeInv /\ LifeInv /\ OrphanInv /\ [Next]_vars =>
    \A th \in Thread :
      Orphan(th) /\ pc[th] = "sleep" /\ pc'[th] # "sleep" => phase'[th] = "teardown"
<1> SUFFICES ASSUME TypeInv, LifeInv, OrphanInv, [Next]_vars, NEW th \in Thread,
                    handle[th] = "detached", pc[th] = "sleep", pc'[th] # "sleep"
             PROVE  phase'[th] = "teardown"
  BY DEF Orphan
<1>0. pc \in [Thread -> ThreadPC] /\ phase \in [Thread -> {"init", "exec", "teardown"}]
  BY DEF TypeInv, TypeOK
<1>1. CASE CreateThread
  <2>1. Current(idx) \in Thread /\ pc[Current(idx)] = "none"
    <3>1. grad \in Grad /\ idx \in Task /\ mpc = "create"
      BY <1>1 DEF CreateThread, TypeInv, TypeOK, GradInRange, InGradient
    <3> QED
      BY <3>1, IndexFacts DEF Current, LifeInv, Unstarted, NotCreated
  <2> QED
    BY <1>0, <1>1, <2>1 DEF CreateThread
<1>2. CASE (MainStep \/ MeasureWcet \/ BudgetExpires) /\ ~CreateThread
  BY <1>2 DEF MainStep, MeasureWcet, BudgetExpires, threadVars, Begin, AllocArrays,
     AllocArraysFails, StartGradient, StartGradientFails, StopSweep, CreateThreadFails,
     ReapFailed, WatchStart, WatchStartFails, StartPoll, PollTask, PollDone, PollStalled,
     PollBudget, PollSleep, BackstopDone, BackstopBudget, AllDone, ToForced, ForceStop,
     ReapForced, AggregateJobs, AggregateMisses, ReapCompleted, Cleanup, DestroyGate
<1>3. ASSUME NEW o \in Thread, ThreadStep(o) PROVE phase'[th] = "teardown"
  <2>1. o = th
    BY <1>3, ThreadStepPC
  <2>2. WakeUp(th)
    BY <1>3, <2>1 DEF ThreadStep, OwnStep, ReachGate, TakeGate, WakeFromDestroyedGate,
       LeaveWorkload, AccountJob, AccountMiss, LoopHead, SetCompleted
  <2>3. ~running[th]
    BY DEF OrphanInv, OrphansToldToStop
  <2> QED
    BY <1>0, <2>2, <2>3 DEF WakeUp, StartTeardown
<1>4. CASE UNCHANGED vars
  BY <1>4 DEF vars, threadVars
<1> QED
  BY <1>1, <1>2, <1>3, <1>4 DEF Next

\* An abandoned thread, of whatever gradient, starts no further job.
THEOREM AbandonedThreadsStop == Spec => OrphansStartNoJob
<1>1. TypeInv /\ LifeInv /\ OrphanInv /\ [Next]_vars =>
        [\A th \in Thread :
           Orphan(th) /\ pc[th] = "sleep" /\ pc'[th] # "sleep" => phase'[th] = "teardown"]_vars
  BY OrphanStep
<1>2. Init => OrphanInv
  BY DEF Init, OrphanInv, OrphansToldToStop, ToldBeforeReaping
<1> QED
  BY <1>1, <1>2, OrphanInvNext, LifeInvInit, LifeInvNext, TypeInvariant, PTL
  DEF Spec, OrphansStartNoJob
-----------------------------------------------------------------------------
(* The watchdog's verdict. *)

\* Among the tasks looked at in this poll, an unfinished one has been without a
\* new job for its window as long as all_stalled stands.
StallSound ==
  mpc \in {"poll", "decide"} /\ allStalled =>
    \A t \in Task :
      (mpc = "poll" => t < idx) => Completed(Current(t)) \/ age[t] >= StallWindow[t]

LEMMA StallSoundMain ==
  ASSUME TypeInv, StallSound, CommandStep
  PROVE  StallSound'
<1> USE IndexFacts DEF StallSound
<1>1. CASE PollTask
  <2>1. mpc = "poll" /\ UNCHANGED <<pc, grad>>
    BY <1>1 DEF PollTask, threadVars
  <2>2. \A t \in Task : Completed(Current(t))' = Completed(Current(t))
    BY <2>1 DEF Completed, Current
  <2>3. \A t \in Task : (mpc' = "poll" => t < idx') => t < idx \/ t = idx
    <3>1. idx < NumTasks => idx' = idx + 1 /\ mpc' = "poll"
      BY <1>1 DEF PollTask
    <3>2. idx \in Nat /\ NumTasks \in Nat /\ \A t \in Task : t \in Nat /\ t <= NumTasks
      BY DEF TypeInv, TypeOK
    <3> HIDE IndexFacts
    <3> QED
      BY <3>1, <3>2
  <2>4. CASE Completed(Current(idx))
    <3>1. age' = age /\ allStalled' = allStalled
      BY <1>1, <2>4 DEF PollTask, watchVars
    <3> QED
      BY <2>1, <2>2, <2>3, <2>4, <3>1
  <2>5. CASE ~Completed(Current(idx))
    <3>1. PICK a \in Nat : age' = [age EXCEPT ![idx] = a] /\ allStalled' = StallVerdict(a)
      BY <1>1, <2>5 DEF PollTask, TypeInv, TypeOK
    <3>2. /\ \A t \in Task : age'[t] = IF t = idx THEN a ELSE age[t]
          /\ allStalled' => allStalled /\ a >= StallWindow[idx]
      BY <3>1 DEF StallVerdict, TypeInv, TypeOK
    <3> QED
      BY <2>1, <2>2, <2>3, <3>2
  <2> QED
    BY <2>4, <2>5
<1>2. CASE WatchStart \/ PollSleep
  <2>1. mpc' = "poll" /\ idx' = 1
    BY <1>2 DEF WatchStart, PollSleep, StartPoll
  <2> QED
    BY <2>1
<1>3. CASE BudgetExpires
  BY <1>3 DEF BudgetExpires, watchVars, threadVars, Completed, Current
<1>4. CASE ~PollTask /\ ~WatchStart /\ ~PollSleep /\ ~BudgetExpires
  <2>1. mpc' \notin {"poll", "decide"}
    BY <1>4 DEF CommandStep, MainStep, MeasureWcet, Begin, AllocArrays, AllocArraysFails,
       StartGradient, StartGradientFails, StopSweep, CreateThread, CreateThreadFails, ReapFailed,
       WatchStartFails, PollDone, PollStalled, PollBudget, BackstopDone, BackstopBudget, AllDone,
       ToForced, ForceStop, ReapForced, AggregateJobs, AggregateMisses, ReapCompleted, Cleanup,
       DestroyGate
  <2> QED
    BY <2>1
<1> QED
  BY <1>1, <1>2, <1>3, <1>4

LEMMA StallSoundNext == TypeInv /\ StallSound /\ [Next]_vars => StallSound'
<1> SUFFICES ASSUME TypeInv, StallSound, [Next]_vars PROVE StallSound'
  OBVIOUS
<1>1. CASE MainStep \/ MeasureWcet \/ BudgetExpires
  BY <1>1, StallSoundMain DEF CommandStep
<1>2. ASSUME NEW th \in Thread, ThreadStep(th) PROVE StallSound'
  <2>1. /\ UNCHANGED <<mpc, grad, idx, age, allStalled>>
        /\ \A o \in Thread : pc[o] = "done" => pc'[o] = "done"
    BY <1>2, ThreadStepPC DEF mainVars, watchVars
  <2>2. mpc \in {"poll", "decide"} => \A t \in Task : Current(t) \in Thread
    BY IndexFacts DEF TypeInv, GradInRange, InGradient, Current
  <2> QED
    BY <2>1, <2>2 DEF StallSound, Completed, Current
<1>3. CASE UNCHANGED vars
  BY <1>3 DEF vars, watchVars, threadVars, StallSound, Completed, Current
<1> QED
  BY <1>1, <1>2, <1>3 DEF Next

\* With time left, the watchdog gives a gradient up only over tasks that made no
\* progress for the whole of their windows, however the polls and the threads'
\* jobs interleave.
THEOREM CutOnlyWhenStalled == Spec => OnlyStalledIsCut
<1>1. TypeInv /\ StallSound /\ [Next]_vars =>
        [mpc = "decide" /\ mpc' = "forced" /\ budget =>
           \A t \in Task : Completed(Current(t)) \/ age[t] >= StallWindow[t]]_vars
  <2> SUFFICES ASSUME TypeInv, StallSound, [Next]_vars, mpc = "decide", mpc' = "forced", budget
               PROVE  \A t \in Task : Completed(Current(t)) \/ age[t] >= StallWindow[t]
    OBVIOUS
  <2>1. ~(\E th \in Thread : ThreadStep(th)) /\ vars' # vars
    <3>1. ASSUME NEW th \in Thread, ThreadStep(th) PROVE mpc' = mpc
      BY <3>1, ThreadStepPC
    <3> QED
      BY <3>1 DEF vars
  <2>2. allStalled
    BY <2>1 DEF Next, MainStep, MeasureWcet, BudgetExpires, Begin, AllocArrays, AllocArraysFails,
       StartGradient, StartGradientFails, StopSweep, CreateThread, CreateThreadFails, ReapFailed,
       WatchStart, WatchStartFails, StartPoll, PollTask, PollDone, PollStalled, PollBudget,
       PollSleep, BackstopDone, BackstopBudget, AllDone, ToForced, ForceStop, ReapForced,
       AggregateJobs, AggregateMisses, ReapCompleted, Cleanup, DestroyGate
  <2> QED
    BY <2>2 DEF StallSound
<1>2. Init => StallSound
  BY DEF Init, StallSound
<1> QED
  BY <1>1, <1>2, StallSoundNext, TypeInvariant, PTL DEF Spec, OnlyStalledIsCut
-----------------------------------------------------------------------------
(* What is counted. *)

\* The arrays exist while they are used, and a thread begins with its init.
ArraysLive == mpc \in InGradient \cup {"measure", "gradient"} => arrays = "live"
FirstPhase == \A th \in Thread : pc[th] = "none" => phase[th] = "init"

LEMMA SetupInvNext ==
  TypeInv /\ ArraysLive /\ FirstPhase /\ [Next]_vars => (ArraysLive /\ FirstPhase)'
<1> SUFFICES ASSUME TypeInv, ArraysLive, FirstPhase, [Next]_vars
             PROVE  ArraysLive' /\ FirstPhase'
  OBVIOUS
<1>0. pc \in [Thread -> ThreadPC] /\ phase \in [Thread -> {"init", "exec", "teardown"}]
  BY DEF TypeInv, TypeOK
<1> USE DEF ArraysLive, FirstPhase, InGradient
<1>1. CASE CreateThread
  <2>1. phase' = phase /\ arrays' = arrays /\ mpc = "create"
    BY <1>1 DEF CreateThread
  <2>2. \A th \in Thread : pc'[th] = "none" => pc[th] = "none"
    BY <1>0, <1>1 DEF CreateThread
  <2> QED
    BY <2>1, <2>2
<1>2. CASE CommandStep /\ ~CreateThread
  <2>1. UNCHANGED <<pc, phase>>
    BY <1>2 DEF CommandStep, MainStep, MeasureWcet, BudgetExpires, threadVars, Begin, AllocArrays,
       AllocArraysFails, StartGradient, StartGradientFails, StopSweep, CreateThreadFails,
       ReapFailed, WatchStart, WatchStartFails, StartPoll, PollTask, PollDone, PollStalled,
       PollBudget, PollSleep, BackstopDone, BackstopBudget, AllDone, ToForced, ForceStop,
       ReapForced, AggregateJobs, AggregateMisses, ReapCompleted, Cleanup, DestroyGate
  <2>2. ArraysLive'
    BY <1>2 DEF CommandStep, MainStep, MeasureWcet, BudgetExpires, Begin, AllocArrays,
       AllocArraysFails, StartGradient, StartGradientFails, StopSweep, CreateThreadFails,
       ReapFailed, WatchStart, WatchStartFails, StartPoll, PollTask, PollDone, PollStalled,
       PollBudget, PollSleep, BackstopDone, BackstopBudget, AllDone, ToForced, ForceStop,
       ReapForced, AggregateJobs, AggregateMisses, ReapCompleted, Cleanup, DestroyGate
  <2> QED
    BY <2>1, <2>2
<1>3. ASSUME NEW th \in Thread, ThreadStep(th) PROVE ArraysLive' /\ FirstPhase'
  <2>1. /\ UNCHANGED <<mpc, arrays>> /\ pc[th] # "none" /\ pc'[th] # "none"
        /\ \A o \in Thread : o # th => pc'[o] = pc[o]
    BY <1>3, ThreadStepPC
  <2>2. \A o \in Thread : o # th => phase'[o] = phase[o]
    BY <1>0, <1>3 DEF ThreadStep, OwnStep, ReachGate, TakeGate, WakeFromDestroyedGate,
       LeaveWorkload, AccountJob, AccountMiss, LoopHead, WakeUp, SetCompleted, StartTeardown
  <2> QED
    BY <2>1, <2>2
<1>4. CASE UNCHANGED vars
  BY <1>4 DEF vars, threadVars
<1> QED
  BY <1>1, <1>2, <1>3, <1>4 DEF Next, CommandStep

\* A gradient that may still end complete, and whose statistics no thread of an
\* earlier one can touch.
Counting ==
  /\ Untainted(grad)
  /\ mpc \in InGradient \ {"reapFailed", "forced", "reapForced"}
  /\ mpc \in Aggregating => status[grad] = "complete"

\* Where a thread is tells how much it has counted.
TaskCount(t) ==
  LET th == Current(t) IN
  /\ running[th]
  /\ jobs[t] <= Cycles /\ misses[t] <= jobs[t]
  /\ pc[th] \in {"sleep", "account"} => jobs[t] < Cycles
  /\ pc[th] \in {"atGate", "blocked", "inside"} /\ phase[th] = "exec" => jobs[t] < Cycles
  /\ pc[th] = "miss" => misses[t] < jobs[t]
  /\ phase[th] = "teardown" => jobs[t] = Cycles
  /\ pc[th] \in {"exit", "done"} => jobs[t] = Cycles

CountInv == Counting => \A t \in Task : TaskCount(t)

\* The only threads that take steps then are those of the gradient.
LEMMA OnlyCurrentSteps ==
  ASSUME TypeInv, LifeInv, Counting, NEW th \in Thread, ThreadStep(th)
  PROVE  th[1] = grad /\ th[2] \in Task /\ th = Current(th[2])
<1>0. th[1] \in Nat /\ grad \in Nat
  <2>1. th[1] \in Grad
    BY IndexFacts
  <2>2. grad \in 1..(NumGradients + 1)
    BY DEF TypeInv, TypeOK
  <2> QED
    BY <2>1, <2>2 DEF Grad
<1>1. pc[th] # "none" /\ pc[th] # "done"
  BY ThreadStepPC
<1>2. handle[th] # "none" /\ handle[th] # "joined"
  BY <1>1 DEF LifeInv, HandleMatchesPC
<1>3. th[1] <= grad
  <2>1. ~NotCreated(th)
    BY <1>1 DEF LifeInv, Unstarted
  <2> QED
    BY <1>0, <2>1 DEF NotCreated
<1>4. handle[th] = "detached" => th[1] >= grad
  BY DEF Counting, Untainted, Orphan
<1>5. handle[th] = "joinable" => th[1] = grad
  BY DEF LifeInv, JoinableIsCurrent
<1>6. handle[th] \in {"none", "joinable", "joined", "detached"}
  BY DEF TypeInv, TypeOK
<1>7. th[1] = grad
  BY <1>0, <1>2, <1>3, <1>4, <1>5, <1>6
<1> QED
  BY <1>7, IndexFacts DEF Current

LEMMA CountInvThread ==
  ASSUME TypeInv, LifeInv, ArraysLive, CountInv, NEW th \in Thread, ThreadStep(th)
  PROVE  CountInv'
<1> SUFFICES ASSUME Counting' PROVE \A t \in Task : TaskCount(t)'
  BY DEF CountInv
<1>1. /\ UNCHANGED <<mpc, grad, running, handle, status>>
      /\ \A o \in Thread : o # th => pc'[o] = pc[o]
  BY ThreadStepPC
<1>2. Counting
  BY <1>1 DEF Counting, Untainted, Orphan
<1>3. arrays = "live"
  BY <1>2 DEF Counting, ArraysLive
<1> DEFINE t == th[2]
<1>4. th[1] = grad /\ t \in Task /\ th = Current(t) /\ TaskCount(t)
  BY <1>2, OnlyCurrentSteps DEF CountInv
<1>5. /\ pc \in [Thread -> ThreadPC] /\ phase \in [Thread -> {"init", "exec", "teardown"}]
      /\ jobs \in [Task -> Nat] /\ misses \in [Task -> Nat] /\ Cycles \in Nat
  BY IndexFacts DEF TypeInv, TypeOK
<1>6. /\ running[th]
      /\ jobs[t] \in Nat /\ misses[t] \in Nat
      /\ jobs[t] <= Cycles /\ misses[t] <= jobs[t]
      /\ pc[th] \in {"sleep", "account"} => jobs[t] < Cycles
      /\ pc[th] \in {"atGate", "blocked", "inside"} /\ phase[th] = "exec" => jobs[t] < Cycles
      /\ pc[th] = "miss" => misses[t] < jobs[t]
      /\ phase[th] = "teardown" => jobs[t] = Cycles
      /\ pc[th] \in {"exit", "done"} => jobs[t] = Cycles
  BY <1>4, <1>5 DEF TaskCount
<1>7. /\ running'[th] /\ Current(t)' = th
      /\ \A o \in Task : Current(o)' = Current(o)
  BY <1>1, <1>4, <1>6 DEF Current
<1>8. \A o \in Task : o # t => TaskCount(o)'
  <2> TAKE o \in Task
  <2> HAVE o # t
  <2>1. Current(o) \in Thread /\ Current(o) # th /\ TaskCount(o)
    BY <1>2, <1>4, IndexFacts DEF CountInv, Current
  <2>2. pc'[Current(o)] = pc[Current(o)]
    BY <1>1, <2>1
  <2>3. phase'[Current(o)] = phase[Current(o)] /\ jobs'[o] = jobs[o] /\ misses'[o] = misses[o]
    BY <1>5, <2>1 DEF ThreadStep, OwnStep, ReachGate, TakeGate, WakeFromDestroyedGate,
       LeaveWorkload, AccountJob, AccountMiss, Increment, LoopHead, WakeUp, SetCompleted,
       StartTeardown, statVars
  <2> QED
    BY <1>1, <1>7, <2>1, <2>2, <2>3 DEF TaskCount
<1>9. TaskCount(t)'
  <2> HIDE DEF t
  <2>1. CASE ReachGate(th) \/ TakeGate(th) \/ WakeFromDestroyedGate(th)
    <3>1. /\ phase' = phase /\ jobs' = jobs /\ misses' = misses
          /\ pc[th] \in {"atGate", "blocked"} /\ pc'[th] \in {"blocked", "inside"}
      BY <1>5, <2>1 DEF ReachGate, TakeGate, WakeFromDestroyedGate, statVars
    <3> QED
      BY <1>6, <1>7, <3>1 DEF TaskCount
  <2>2. CASE LeaveWorkload(th)
    <3>1. /\ phase' = phase /\ jobs' = jobs /\ misses' = misses /\ pc[th] = "inside"
          /\ \/ phase[th] = "init" /\ pc'[th] = "loop"
             \/ phase[th] = "exec" /\ pc'[th] = "account"
             \/ phase[th] = "teardown" /\ pc'[th] = "exit"
      BY <1>5, <2>2 DEF LeaveWorkload, statVars
    <3> QED
      BY <1>6, <1>7, <3>1 DEF TaskCount
  <2>3. CASE AccountJob(th)
    <3>1. /\ phase' = phase /\ misses' = misses /\ pc[th] = "account"
          /\ jobs' = [jobs EXCEPT ![t] = @ + 1] /\ pc'[th] \in {"miss", "loop"}
      BY <1>3, <1>4, <1>5, <2>3 DEF AccountJob, Increment, t
    <3>2. jobs'[t] = jobs[t] + 1
      BY <1>4, <1>5, <3>1
    <3>3. phase'[th] # "teardown" /\ jobs'[t] <= Cycles /\ misses'[t] < jobs'[t]
      BY <1>5, <1>6, <3>1, <3>2
    <3> QED
      BY <1>6, <1>7, <3>1, <3>3 DEF TaskCount
  <2>4. CASE AccountMiss(th)
    <3>1. /\ phase' = phase /\ jobs' = jobs /\ pc[th] = "miss"
          /\ misses' = [misses EXCEPT ![t] = @ + 1] /\ pc'[th] = "loop"
      BY <1>3, <1>4, <1>5, <2>4 DEF AccountMiss, Increment, t
    <3>2. misses'[t] = misses[t] + 1
      BY <1>4, <1>5, <3>1
    <3>3. misses'[t] <= jobs'[t]
      BY <1>5, <1>6, <3>1, <3>2
    <3> QED
      BY <1>6, <1>7, <3>1, <3>3 DEF TaskCount
  <2>5. CASE LoopHead(th)
    <3>1. jobs' = jobs /\ misses' = misses /\ pc[th] = "loop"
      BY <2>5 DEF LoopHead, statVars
    <3>2. \/ jobs[t] < Cycles /\ pc'[th] = "sleep" /\ phase' = phase
          \/ ~(jobs[t] < Cycles) /\ pc'[th] = "atGate" /\ phase'[th] = "teardown"
      BY <1>5, <1>6, <2>5 DEF LoopHead, StartTeardown, t
    <3>3. ~(jobs[t] < Cycles) => jobs[t] = Cycles
      BY <1>5, <1>6
    <3> QED
      BY <1>6, <1>7, <3>1, <3>2, <3>3 DEF TaskCount
  <2>6. CASE WakeUp(th)
    <3>1. /\ jobs' = jobs /\ misses' = misses /\ pc[th] = "sleep"
          /\ pc'[th] = "atGate" /\ phase'[th] = "exec"
      BY <1>5, <1>6, <2>6 DEF WakeUp, statVars
    <3> QED
      BY <1>6, <1>7, <3>1 DEF TaskCount
  <2>7. CASE SetCompleted(th)
    <3>1. /\ phase' = phase /\ jobs' = jobs /\ misses' = misses
          /\ pc[th] = "exit" /\ pc'[th] = "done"
      BY <1>5, <2>7 DEF SetCompleted, statVars
    <3> QED
      BY <1>6, <1>7, <3>1 DEF TaskCount
  <2> QED
    BY ThreadStep(th), <2>1, <2>2, <2>3, <2>4, <2>5, <2>6, <2>7 DEF ThreadStep, OwnStep
<1> QED
  BY <1>8, <1>9

\* No step detaches a thread of an earlier gradient, or undoes it.
LEMMA PastIsSettled ==
  ASSUME TypeInv, [Next]_vars
  PROVE  \A g \in Grad : g <= grad => Untainted(g)' = Untainted(g)
<1>1. \A th \in Thread : th[1] # grad => handle'[th] = handle[th]
  <2>1. CASE CreateThread
    <3>1. Current(idx)[1] = grad
      BY DEF Current
    <3> QED
      BY <2>1, <3>1 DEF CreateThread, TypeInv, TypeOK
  <2>2. CASE ReapFailed \/ ReapForced \/ ReapCompleted
    BY <2>2 DEF ReapFailed, ReapForced, ReapCompleted, ReapOrAbandon
  <2>3. CASE CommandStep /\ ~CreateThread /\ ~ReapFailed /\ ~ReapForced /\ ~ReapCompleted
    BY <2>3 DEF CommandStep, MainStep, MeasureWcet, BudgetExpires, ctxVars, Begin, AllocArrays,
       AllocArraysFails, StartGradient, StartGradientFails, StopSweep, CreateThreadFails,
       WatchStart, WatchStartFails, StartPoll, PollTask, PollDone, PollStalled, PollBudget,
       PollSleep, BackstopDone, BackstopBudget, AllDone, ToForced, ForceStop, AggregateJobs,
       AggregateMisses, Cleanup, DestroyGate
  <2>4. ASSUME NEW o \in Thread, ThreadStep(o) PROVE handle' = handle
    BY <2>4, ThreadStepPC
  <2>5. CASE UNCHANGED vars
    BY <2>5 DEF vars, ctxVars
  <2> QED
    BY <2>1, <2>2, <2>3, <2>4, <2>5 DEF Next, CommandStep
<1>2. TAKE g \in Grad
<1>3. HAVE g <= grad
<1>4. \A th \in Thread : th[1] \in Nat /\ g \in Nat /\ grad \in Nat
  <2>1. grad \in 1..(NumGradients + 1)
    BY DEF TypeInv, TypeOK
  <2> QED
    BY <2>1, IndexFacts DEF Grad
<1>5. \A th \in Thread : ~(th[1] >= g) => handle'[th] = handle[th]
  BY <1>1, <1>3, <1>4
<1> QED
  BY <1>5 DEF Untainted, Orphan

LEMMA CountInvMain ==
  ASSUME TypeInv, LifeInv, FirstPhase, CountInv, CommandStep
  PROVE  CountInv'
<1> SUFFICES ASSUME Counting' PROVE \A t \in Task : TaskCount(t)'
  BY DEF CountInv
<1> USE DEF InGradient, Aggregating
<1>1. CASE StartGradient
  <2>1. /\ grad' = grad /\ grad \in Grad /\ pc' = pc /\ phase' = phase
        /\ jobs' = [t \in Task |-> 0] /\ misses' = [t \in Task |-> 0]
        /\ mpc = "gradient"
    BY <1>1 DEF StartGradient, threadVars
  <2>2. \A t \in Task : running'[<<grad, t>>]
    BY <1>1, <2>1, IndexFacts DEF StartGradient
  <2>3. \A t \in Task : pc[<<grad, t>>] = "none" /\ phase[<<grad, t>>] = "init"
    BY <2>1, IndexFacts DEF LifeInv, Unstarted, NotCreated, FirstPhase
  <2>4. \A t \in Task : jobs'[t] = 0 /\ misses'[t] = 0 /\ Cycles \in Nat
    BY <2>1, IndexFacts
  <2> QED
    BY <2>1, <2>2, <2>3, <2>4 DEF TaskCount, Current
<1>2. CASE CreateThread
  <2>1. /\ mpc = "create" /\ Current(idx) \in Thread
        /\ UNCHANGED <<grad, running, phase, jobs, misses, status>>
    BY <1>2, IndexFacts DEF CreateThread, Current, TypeInv, TypeOK, GradInRange, statVars, resVars
  <2>2. \A t \in Task : Current(t) \in Thread
    BY <2>1, IndexFacts DEF Current
  <2>3. /\ pc[Current(idx)] = "none" /\ phase[Current(idx)] = "init"
        /\ \A o \in Thread : pc'[o] = IF o = Current(idx) THEN "atGate" ELSE pc[o]
    <3>1. pc[Current(idx)] = "none"
      BY <2>1, IndexFacts DEF Current, LifeInv, Unstarted, NotCreated, TypeInv, TypeOK
    <3> QED
      BY <1>2, <2>1, <3>1 DEF CreateThread, FirstPhase, TypeInv, TypeOK
  <2>4. Counting
    <3>1. Untainted(grad)' => Untainted(grad)
      <4>1. \A th \in Thread : handle'[th] = IF th = Current(idx) THEN "joinable" ELSE handle[th]
        BY <1>2, <2>1 DEF CreateThread, TypeInv, TypeOK
      <4>2. handle[Current(idx)] = "none"
        BY <2>1, <2>3 DEF LifeInv, HandleMatchesPC
      <4> QED
        BY <2>1, <4>1, <4>2 DEF Untainted, Orphan
    <3> QED
      BY <2>1, <3>1 DEF Counting
  <2>5. \A t \in Task : TaskCount(t)
    BY <2>4 DEF CountInv
  <2>6. \A t \in Task : Current(t)' = Current(t)
    BY <2>1 DEF Current
  <2> QED
    BY <2>1, <2>2, <2>3, <2>5, <2>6 DEF TaskCount
<1>3. CASE /\ ~StartGradient /\ ~CreateThread
  <2>1. /\ UNCHANGED <<grad, running, pc, phase, jobs, misses, handle>>
        /\ mpc \in InGradient \ {"reapFailed", "forced", "reapForced"}
        /\ mpc \in Aggregating => status[grad] = "complete"
    <3>1. mpc' \in InGradient \ {"reapFailed", "forced", "reapForced"}
          /\ (mpc' \in Aggregating => status'[grad'] = "complete")
      BY DEF Counting
    <3>2. ReapForced => status'[grad'] # "complete" /\ mpc' = "aggJobs"
      BY DEF ReapForced, TypeInv, TypeOK, GradInRange
    <3> QED
      BY <1>3, <3>1, <3>2 DEF CommandStep, MainStep, MeasureWcet, BudgetExpires, Begin, AllocArrays,
         AllocArraysFails, StartGradientFails, StopSweep, CreateThreadFails, ReapFailed,
         WatchStart, WatchStartFails, StartPoll, PollTask, PollDone, PollStalled, PollBudget,
         PollSleep, BackstopDone, BackstopBudget, AllDone, ToForced, ForceStop, AggregateJobs,
         AggregateMisses, ReapCompleted, Cleanup, DestroyGate, statVars, ctxVars, threadVars,
         resVars
  <2>2. Counting
    BY <2>1 DEF Counting, Untainted, Orphan
  <2>3. \A t \in Task : TaskCount(t)
    BY <2>2 DEF CountInv
  <2>4. \A t \in Task : Current(t)' = Current(t)
    BY <2>1 DEF Current
  <2> QED
    BY <2>1, <2>3, <2>4 DEF TaskCount
<1> QED
  BY <1>1, <1>2, <1>3

LEMMA CountInvNext ==
  TypeInv /\ LifeInv /\ ArraysLive /\ FirstPhase /\ CountInv /\ [Next]_vars => CountInv'
<1> SUFFICES ASSUME TypeInv, LifeInv, ArraysLive, FirstPhase, CountInv, [Next]_vars
             PROVE  CountInv'
  OBVIOUS
<1>1. CASE MainStep \/ MeasureWcet \/ BudgetExpires
  BY <1>1, CountInvMain DEF CommandStep
<1>2. CASE \E th \in Thread : ThreadStep(th)
  BY <1>2, CountInvThread
<1>3. CASE UNCHANGED vars
  BY <1>3 DEF vars, CountInv, Counting, Untainted, Orphan, TaskCount, Current, statVars, ctxVars,
     threadVars, resVars
<1> QED
  BY <1>1, <1>2, <1>3 DEF Next
LEMMA ProductFacts ==
  ASSUME NEW c \in Nat, NEW i \in Nat \ {0}
  PROVE  (i - 1) * c + c = i * c /\ (1 - 1) * c = 0 /\ i * c \in Nat /\ (i - 1) * c \in Nat
<1> DEFINE k == i - 1
<1>1. k \in Nat /\ i = k + 1
  OBVIOUS
<1>2. (k + 1) * c = k * c + c /\ k * c \in Nat
  BY <1>1
<1>3. (1 - 1) * c = 0
  OBVIOUS
<1> QED
  BY <1>1, <1>2, <1>3

\* How far the aggregation has come; gradients not aggregated yet count nothing.
SumInv ==
  /\ \A g \in Grad : g > grad \/ (g = grad /\ mpc \notin Aggregating) =>
       resJobs[g] = 0 /\ resMisses[g] = 0
  /\ Counting /\ mpc = "aggJobs" =>
       resJobs[grad] = (idx - 1) * Cycles /\ resMisses[grad] <= (idx - 1) * Cycles
  /\ Counting /\ mpc = "aggMisses" =>
       resJobs[grad] = idx * Cycles /\ resMisses[grad] <= (idx - 1) * Cycles
  /\ Counting /\ mpc = "reap" =>
       resJobs[grad] = NumTasks * Cycles /\ resMisses[grad] <= NumTasks * Cycles
  /\ CompleteIsExact

\* In aggregation every task of a gradient that counts has its jobs.
LEMMA AggregatesExact ==
  ASSUME TypeInv, LifeInv, CountInv, Counting, mpc \in Aggregating
  PROVE  \A t \in Task : jobs[t] = Cycles /\ misses[t] <= Cycles
<1>1. \A t \in Task : Completed(Current(t)) /\ TaskCount(t)
  BY DEF Counting, LifeInv, AggregatingSound, CountInv
<1> QED
  BY <1>1 DEF TaskCount, Completed

\* Settled gradients stay settled while grad stands, ...
LEMMA ExactStands ==
  ASSUME TypeInv, CompleteIsExact, [Next]_vars, grad' = grad,
         \A g \in Grad : g < grad => resJobs'[g] = resJobs[g] /\ resMisses'[g] = resMisses[g]
                                     /\ status'[g] = status[g]
  PROVE  CompleteIsExact'
<1>1. \A g \in Grad : g < grad => g <= grad
  <2>1. grad \in Nat /\ \A g \in Grad : g \in Nat
    BY DEF TypeInv, TypeOK, Grad
  <2> QED
    BY <2>1
<1> QED
  BY <1>1, PastIsSettled DEF CompleteIsExact

\* ... and when it moves on, the gradient left has to be exact.
LEMMA ExactMoves ==
  ASSUME TypeInv, CompleteIsExact, [Next]_vars, grad \in Grad, grad' = grad + 1,
         UNCHANGED <<resJobs, resMisses>>,
         \A g \in Grad : g < grad => status'[g] = status[g],
         status'[grad] = "complete" /\ Untainted(grad) =>
           resJobs[grad] = NumTasks * Cycles /\ resMisses[grad] <= resJobs[grad]
  PROVE  CompleteIsExact'
<1>1. \A g \in Grad : (g < grad' => g <= grad) /\ (g <= grad => g < grad \/ g = grad)
  <2>1. grad \in Nat /\ \A g \in Grad : g \in Nat
    BY DEF TypeInv, TypeOK, Grad
  <2> QED
    BY <2>1
<1> SUFFICES ASSUME NEW g \in Grad, status'[g] = "complete", Untainted(g)', g < grad'
             PROVE  resJobs[g] = NumTasks * Cycles /\ resMisses[g] <= resJobs[g]
  BY DEF CompleteIsExact
<1>2. Untainted(g) /\ (g < grad \/ g = grad)
  BY <1>1, PastIsSettled
<1> QED
  BY <1>2 DEF CompleteIsExact

LEMMA SumInvMain ==
  ASSUME TypeInv, LifeInv, CountInv, SumInv, CommandStep
  PROVE  SumInv'
<1>0. /\ grad \in Nat /\ idx \in Nat \ {0} /\ idx \in Task /\ \A g \in Grad : g \in Nat
      /\ resJobs \in [Grad -> Nat] /\ resMisses \in [Grad -> Nat]
      /\ jobs \in [Task -> Nat] /\ misses \in [Task -> Nat]
      /\ status \in [Grad -> {"none", "failed", "partial", "complete"}]
      /\ NumTasks \in Nat \ {0} /\ Cycles \in Nat /\ mpc \in MainPC
  BY SizeAssumption DEF TypeInv, TypeOK, Grad, Task
<1>n. [Next]_vars /\ CompleteIsExact
  BY DEF CommandStep, Next, SumInv
<1>1. CASE AggregateJobs
  <2>1. /\ mpc = "aggJobs" /\ mpc' = "aggMisses" /\ grad \in Grad
        /\ UNCHANGED <<grad, idx, resMisses, status, handle>>
        /\ resJobs' = [resJobs EXCEPT ![grad] = @ + jobs[idx]]
    BY <1>1 DEF AggregateJobs, ctxVars, TypeInv, GradInRange, InGradient
  <2>2. Counting' => Counting
    BY <2>1 DEF Counting, Untainted, Orphan, InGradient, Aggregating
  <2>3. Counting => resJobs'[grad] = idx * Cycles /\ resMisses[grad] <= (idx - 1) * Cycles
    <3> HAVE Counting
    <3>1. jobs[idx] = Cycles
      BY <1>0, <2>1, AggregatesExact DEF Aggregating
    <3>2. resJobs[grad] = (idx - 1) * Cycles /\ resMisses[grad] <= (idx - 1) * Cycles
      BY <2>1 DEF SumInv
    <3>3. resJobs'[grad] = resJobs[grad] + jobs[idx]
      BY <1>0, <2>1
    <3> QED
      BY <1>0, <3>1, <3>2, <3>3, ProductFacts
  <2>4. \A g \in Grad : g # grad => resJobs'[g] = resJobs[g]
    BY <1>0, <2>1
  <2>5. \A g \in Grad : g > grad => g # grad
    BY <1>0
  <2>6. \A g \in Grad : g < grad => g # grad
    BY <1>0
  <2>7. CompleteIsExact'
    BY <1>n, <2>1, <2>4, <2>6, ExactStands
  <2>8. \A g \in Grad : g > grad => resJobs[g] = 0 /\ resMisses[g] = 0
    BY DEF SumInv
  <2> QED
    BY <2>1, <2>2, <2>3, <2>4, <2>5, <2>7, <2>8 DEF SumInv, Aggregating
<1>2. CASE AggregateMisses
  <2>1. /\ mpc = "aggMisses" /\ grad \in Grad
        /\ UNCHANGED <<resJobs, status, handle>>
        /\ resMisses' = [resMisses EXCEPT ![grad] = @ + misses[idx]]
    BY <1>2 DEF AggregateMisses, ctxVars, TypeInv, GradInRange, InGradient
  <2>2. status[grad] = "complete" /\ Untainted(grad) => Counting
    BY <2>1 DEF Counting, InGradient
  <2>3. Counting => resJobs[grad] = idx * Cycles /\ resMisses'[grad] <= idx * Cycles
    <3> HAVE Counting
    <3>1. misses[idx] \in Nat /\ misses[idx] <= Cycles
      BY <1>0, <2>1, AggregatesExact DEF Aggregating
    <3>2. resJobs[grad] = idx * Cycles /\ resMisses[grad] <= (idx - 1) * Cycles
      BY <2>1 DEF SumInv
    <3>3. resMisses'[grad] = resMisses[grad] + misses[idx] /\ resMisses[grad] \in Nat
      BY <1>0, <2>1
    <3>4. /\ (idx - 1) * Cycles + Cycles = idx * Cycles
          /\ (idx - 1) * Cycles \in Nat /\ idx * Cycles \in Nat
      BY <1>0, ProductFacts
    <3>5. resMisses[grad] + misses[idx] <= (idx - 1) * Cycles + Cycles
      BY <1>0, <3>1, <3>2, <3>3, <3>4
    <3> QED
      BY <3>2, <3>3, <3>4, <3>5
  <2>4. \A g \in Grad : g # grad => resMisses'[g] = resMisses[g]
    BY <1>0, <2>1
  <2>5. \A g \in Grad : (g > grad \/ g < grad) => g # grad
    BY <1>0
  <2>6. \A g \in Grad : g > grad => resJobs[g] = 0 /\ resMisses[g] = 0
    BY DEF SumInv
  <2>7. CASE idx < NumTasks
    <3>1. mpc' = "aggJobs" /\ idx' = idx + 1 /\ grad' = grad
      BY <1>2, <2>7 DEF AggregateMisses
    <3>2. Counting' => Counting
      BY <2>1, <3>1 DEF Counting, Untainted, Orphan, InGradient, Aggregating
    <3>3. CompleteIsExact'
      BY <1>n, <2>1, <2>4, <2>5, <3>1, ExactStands
    <3>4. idx' - 1 = idx
      BY <1>0, <3>1
    <3> QED
      BY <2>1, <2>3, <2>4, <2>5, <2>6, <3>1, <3>2, <3>3, <3>4 DEF SumInv, Aggregating
  <2>8. CASE ~(idx < NumTasks) /\ status[grad] = "complete"
    <3>1. mpc' = "reap" /\ grad' = grad
      BY <1>2, <2>8 DEF AggregateMisses
    <3>2. Counting' => Counting
      BY <2>1, <3>1 DEF Counting, Untainted, Orphan, InGradient, Aggregating
    <3>3. CompleteIsExact'
      BY <1>n, <2>1, <2>4, <2>5, <3>1, ExactStands
    <3>4. idx = NumTasks
      BY <1>0, <2>8 DEF Task
    <3> QED
      BY <2>1, <2>3, <2>4, <2>5, <2>6, <3>1, <3>2, <3>3, <3>4 DEF SumInv, Aggregating
  <2>9. CASE ~(idx < NumTasks) /\ status[grad] # "complete"
    <3>1. mpc' = "gradient" /\ grad' = grad + 1
      BY <1>2, <2>9 DEF AggregateMisses
    <3>2. \A g \in Grad : g > grad' \/ g = grad' => g > grad
      BY <1>0, <3>1
    <3>3. CompleteIsExact'
      <4> SUFFICES ASSUME NEW g \in Grad, status'[g] = "complete", Untainted(g)', g < grad'
                   PROVE  resJobs'[g] = NumTasks * Cycles /\ resMisses'[g] <= resJobs'[g]
        BY DEF CompleteIsExact
      <4>1. g # grad
        BY <2>1, <2>9
      <4>2. g < grad /\ g <= grad
        BY <1>0, <3>1, <4>1
      <4>3. Untainted(g)
        BY <1>n, <4>2, PastIsSettled
      <4> QED
        BY <1>n, <2>1, <2>4, <4>1, <4>2, <4>3 DEF CompleteIsExact
    <3> QED
      BY <2>1, <2>4, <2>5, <2>6, <3>1, <3>2, <3>3 DEF SumInv, Counting, InGradient
  <2> QED
    BY <2>7, <2>8, <2>9
<1>3. CASE PollDone \/ BackstopDone
  <2>1. /\ mpc \notin Aggregating /\ mpc' = "aggJobs" /\ idx' = 1 /\ grad \in Grad
        /\ UNCHANGED <<grad, resJobs, resMisses>>
        /\ status' = [status EXCEPT ![grad] = "complete"]
    BY <1>3 DEF PollDone, BackstopDone, AllDone, Aggregating, TypeInv, GradInRange, InGradient
  <2>2. resJobs[grad] = 0 /\ resMisses[grad] = 0
    BY <2>1 DEF SumInv
  <2>3. \A g \in Grad : g < grad => status'[g] = status[g]
    BY <1>0, <2>1
  <2>4. CompleteIsExact'
    BY <1>n, <2>1, <2>3, ExactStands
  <2>5. (idx' - 1) * Cycles = 0
    BY <1>0, <2>1, ProductFacts
  <2> QED
    BY <2>1, <2>2, <2>4, <2>5 DEF SumInv, Aggregating
<1>4. CASE ReapCompleted
  <2>1. /\ mpc = "reap" /\ mpc' = "gradient" /\ grad \in Grad /\ grad' = grad + 1
        /\ UNCHANGED <<resJobs, resMisses, status>>
    BY <1>4 DEF ReapCompleted, resVars, TypeInv, GradInRange, InGradient
  <2>2. status[grad] = "complete" /\ Untainted(grad) =>
          resJobs[grad] = NumTasks * Cycles /\ resMisses[grad] <= resJobs[grad]
    BY <2>1 DEF SumInv, Counting, InGradient
  <2>3. CompleteIsExact'
    BY <1>n, <2>1, <2>2, ExactMoves
  <2>4. \A g \in Grad : g > grad' \/ g = grad' => g > grad
    BY <1>0, <2>1
  <2> QED
    BY <2>1, <2>3, <2>4 DEF SumInv, Counting, InGradient, Aggregating
<1>5. CASE StartGradientFails \/ ReapFailed
  <2>1. /\ mpc \in {"gradient", "reapFailed"} /\ mpc' = "gradient" /\ grad \in Grad
        /\ grad' = grad + 1 /\ UNCHANGED <<resJobs, resMisses>>
        /\ status' = [status EXCEPT ![grad] = "failed"]
    BY <1>5 DEF StartGradientFails, ReapFailed, TypeInv, GradInRange, InGradient
  <2>2. status'[grad] # "complete" /\ \A g \in Grad : g < grad => status'[g] = status[g]
    BY <1>0, <2>1
  <2>3. CompleteIsExact'
    BY <1>n, <2>1, <2>2, ExactMoves
  <2>4. \A g \in Grad : g > grad' \/ g = grad' => g > grad
    BY <1>0, <2>1
  <2> QED
    BY <2>1, <2>3, <2>4 DEF SumInv, Counting, InGradient, Aggregating
<1>6. CASE ReapForced
  <2>1. /\ mpc = "reapForced" /\ mpc' = "aggJobs" /\ grad \in Grad
        /\ UNCHANGED <<grad, resJobs, resMisses>>
        /\ status' = [status EXCEPT ![grad] = "partial"]
    BY <1>6 DEF ReapForced, TypeInv, GradInRange, InGradient
  <2>2. status'[grad] = "partial" /\ \A g \in Grad : g < grad => status'[g] = status[g]
    BY <1>0, <2>1
  <2>3. CompleteIsExact'
    BY <1>n, <2>1, <2>2, ExactStands
  <2>4. ~Counting'
    BY <2>1, <2>2 DEF Counting, Aggregating
  <2> QED
    BY <2>1, <2>3, <2>4 DEF SumInv, Aggregating
<1>7. CASE BudgetExpires
  <2>1. UNCHANGED <<mpc, grad, idx, resJobs, resMisses, status, handle>>
    BY <1>7 DEF BudgetExpires, ctxVars, resVars
  <2> QED
    BY <2>1 DEF SumInv, Counting, Untainted, Orphan, CompleteIsExact
<1>8. CASE /\ ~AggregateJobs /\ ~AggregateMisses /\ ~PollDone /\ ~BackstopDone /\ ~ReapCompleted
           /\ ~StartGradientFails /\ ~ReapFailed /\ ~ReapForced /\ ~BudgetExpires
  <2>1. /\ UNCHANGED <<grad, resJobs, resMisses, status>>
        /\ mpc \notin Aggregating /\ mpc' \notin Aggregating
    BY <1>8 DEF CommandStep, MainStep, MeasureWcet, Begin, AllocArrays, AllocArraysFails,
       StartGradient, StopSweep, CreateThread, CreateThreadFails, WatchStart, WatchStartFails,
       StartPoll, PollTask, PollStalled, PollBudget, PollSleep, BackstopBudget, ToForced,
       ForceStop, Cleanup, DestroyGate, resVars, Aggregating
  <2>2. CompleteIsExact'
    BY <1>n, <2>1, ExactStands
  <2> QED
    BY <2>1, <2>2 DEF SumInv, Aggregating
<1> QED
  BY <1>1, <1>2, <1>3, <1>4, <1>5, <1>6, <1>7, <1>8

LEMMA SumInvNext ==
  TypeInv /\ LifeInv /\ CountInv /\ SumInv /\ [Next]_vars => SumInv'
<1> SUFFICES ASSUME TypeInv, LifeInv, CountInv, SumInv, [Next]_vars PROVE SumInv'
  OBVIOUS
<1>1. CASE MainStep \/ MeasureWcet \/ BudgetExpires
  BY <1>1, SumInvMain DEF CommandStep
<1>2. ASSUME NEW th \in Thread, ThreadStep(th) PROVE SumInv'
  <2>1. UNCHANGED <<mpc, grad, idx, resJobs, resMisses, status, handle>>
    BY <1>2, ThreadStepPC
  <2> QED
    BY <2>1 DEF SumInv, Counting, Untainted, Orphan, CompleteIsExact
<1>3. CASE UNCHANGED vars
  BY <1>3 DEF vars, SumInv, Counting, Untainted, Orphan, CompleteIsExact, ctxVars, resVars
<1> QED
  BY <1>1, <1>2, <1>3 DEF Next

\* The numbers reported for a complete gradient are exact for any number of
\* tasks and jobs, unless an abandoned thread of an earlier gradient could write
\* to them.
THEOREM CompleteGradientsAreExact == Spec => []CompleteIsExact
<1>1. Init => ArraysLive /\ FirstPhase /\ CountInv /\ SumInv
  BY DEF Init, ArraysLive, FirstPhase, CountInv, Counting, SumInv, CompleteIsExact, InGradient
<1>2. SumInv => CompleteIsExact
  BY DEF SumInv
<1> QED
  BY <1>1, <1>2, SetupInvNext, CountInvNext, SumInvNext, LifeInvInit, LifeInvNext, TypeInvariant,
     PTL DEF Spec
-----------------------------------------------------------------------------
(* The command implements ScheduleSweep. *)

\* Threads are abandoned by gradients that are given up, and by those only.
OrphansOfCut ==
  \A th \in Thread : Orphan(th) =>
    \/ th[1] < grad /\ status[th[1]] \in {"failed", "partial"}
    \/ th[1] = grad /\ mpc \in Aggregating /\ status[grad] = "partial"

LEMMA OrphansOfCutMain ==
  ASSUME TypeInv, LifeInv, OrphansOfCut, CommandStep
  PROVE  OrphansOfCut'
<1>0. /\ grad \in Nat /\ status \in [Grad -> {"none", "failed", "partial", "complete"}]
      /\ \A th \in Thread : th[1] \in Grad /\ th[1] \in Nat
      /\ handle \in [Thread -> {"none", "joinable", "joined", "detached"}]
  <2>1. \A th \in Thread : th[1] \in Grad
    BY IndexFacts
  <2>2. grad \in 1..(NumGradients + 1)
    BY DEF TypeInv, TypeOK
  <2>3. grad \in Nat /\ \A th \in Thread : th[1] \in Nat
    BY <2>1, <2>2 DEF Grad
  <2> QED
    BY <2>1, <2>3 DEF TypeInv, TypeOK
<1>1. CASE CreateThread
  <2>1. UNCHANGED <<grad, status>> /\ mpc \notin Aggregating
    BY <1>1 DEF CreateThread, resVars, Aggregating
  <2>2. \A th \in Thread : handle'[th] = "detached" => handle[th] = "detached"
    BY <1>0, <1>1 DEF CreateThread
  <2> QED
    BY <2>1, <2>2 DEF OrphansOfCut, Orphan
<1>2. CASE ReapFailed
  <2>1. /\ mpc \notin Aggregating /\ grad \in Grad /\ grad' = grad + 1
        /\ status' = [status EXCEPT ![grad] = "failed"]
        /\ \A th \in Thread : th[1] # grad => handle'[th] = handle[th]
    BY <1>2 DEF ReapFailed, ReapOrAbandon, Aggregating, TypeInv, GradInRange, InGradient
  <2>2. \A th \in Thread : th[1] = grad => th[1] < grad' /\ status'[th[1]] = "failed"
    BY <1>0, <2>1
  <2>3. \A th \in Thread : th[1] # grad /\ Orphan(th)' =>
          th[1] < grad' /\ status'[th[1]] \in {"failed", "partial"}
    <3> SUFFICES ASSUME NEW th \in Thread, th[1] # grad, Orphan(th)'
                 PROVE  th[1] < grad' /\ status'[th[1]] \in {"failed", "partial"}
      OBVIOUS
    <3>1. th[1] < grad /\ status[th[1]] \in {"failed", "partial"}
      BY <2>1 DEF OrphansOfCut, Orphan
    <3>2. status'[th[1]] = status[th[1]]
      BY <1>0, <2>1
    <3>3. th[1] < grad'
      BY <1>0, <2>1, <3>1
    <3> QED
      BY <3>1, <3>2, <3>3
  <2> QED
    BY <2>2, <2>3 DEF OrphansOfCut
<1>3. CASE ReapForced
  <2>1. /\ mpc \notin Aggregating /\ mpc' \in Aggregating /\ grad \in Grad /\ grad' = grad
        /\ status' = [status EXCEPT ![grad] = "partial"]
        /\ \A th \in Thread : th[1] # grad => handle'[th] = handle[th]
    BY <1>3 DEF ReapForced, ReapOrAbandon, Aggregating, TypeInv, GradInRange, InGradient
  <2>2. status'[grad] = "partial"
    BY <1>0, <2>1
  <2>3. \A th \in Thread : th[1] # grad => status'[th[1]] = status[th[1]]
    BY <1>0, <2>1
  <2> QED
    BY <2>1, <2>2, <2>3 DEF OrphansOfCut, Orphan
<1>4. CASE ReapCompleted
  <2>1. /\ mpc = "reap" /\ grad' = grad + 1 /\ status' = status /\ status[grad] = "complete"
        /\ \A th \in Thread : th[1] # grad => handle'[th] = handle[th]
    BY <1>4 DEF ReapCompleted, ReapOrAbandon, resVars, LifeInv, AggregatingSound
  <2>2. \A th \in Thread : th[1] = grad => handle'[th] # "detached"
    <3>1. \A t \in Task : Completed(Current(t))
      BY <2>1 DEF LifeInv, AggregatingSound, Aggregating
    <3>2. \A th \in Thread : th[1] = grad => Completed(th) /\ th[2] <= NumTasks
      BY <3>1, IndexFacts DEF Current
    <3> QED
      BY <1>4, <3>2 DEF ReapCompleted, ReapOrAbandon
  <2>3. \A th \in Thread : th[1] < grad => th[1] < grad'
    BY <1>0, <2>1
  <2> QED
    BY <2>1, <2>2, <2>3 DEF OrphansOfCut, Orphan
<1>5. CASE StartGradientFails
  <2>1. /\ mpc \notin Aggregating /\ grad \in Grad /\ grad' = grad + 1 /\ handle' = handle
        /\ status' = [status EXCEPT ![grad] = "failed"]
    BY <1>5 DEF StartGradientFails, Aggregating, ctxVars
  <2>2. \A th \in Thread : th[1] < grad => th[1] < grad' /\ status'[th[1]] = status[th[1]]
    BY <1>0, <2>1
  <2> QED
    BY <2>1, <2>2 DEF OrphansOfCut, Orphan
<1>6. CASE AggregateMisses
  <2>1. UNCHANGED <<handle, status>> /\ mpc \in Aggregating
    BY <1>6 DEF AggregateMisses, ctxVars, Aggregating
  <2>2. \/ grad' = grad /\ mpc' \in Aggregating
        \/ grad' = grad + 1 /\ status[grad] # "complete"
    BY <1>6 DEF AggregateMisses, Aggregating
  <2>3. CASE grad' = grad /\ mpc' \in Aggregating
    BY <2>1, <2>3 DEF OrphansOfCut, Orphan
  <2>4. CASE grad' = grad + 1
    <3>1. \A th \in Thread : th[1] <= grad => th[1] < grad'
      BY <1>0, <2>4
    <3>2. \A th \in Thread : (th[1] < grad \/ th[1] = grad) => th[1] <= grad
      BY <1>0
    <3> QED
      BY <2>1, <3>1, <3>2 DEF OrphansOfCut, Orphan
  <2> QED
    BY <2>2, <2>3, <2>4
<1>7. CASE /\ ~CreateThread /\ ~ReapFailed /\ ~ReapForced /\ ~ReapCompleted /\ ~StartGradientFails
           /\ ~AggregateMisses
  <2>1. /\ UNCHANGED <<handle, grad>> /\ (mpc \in Aggregating => mpc' \in Aggregating)
        /\ \A g \in Grad : status[g] \in {"failed", "partial"} /\ g # grad => status'[g] = status[g]
        /\ (mpc \in Aggregating => status' = status)
    BY <1>7 DEF CommandStep, MainStep, MeasureWcet, BudgetExpires, Begin, AllocArrays,
       AllocArraysFails, StartGradient, StopSweep, CreateThreadFails, WatchStart, WatchStartFails,
       StartPoll, PollTask, PollDone, PollStalled, PollBudget, PollSleep, BackstopDone,
       BackstopBudget, AllDone, ToForced, ForceStop, AggregateJobs, Cleanup, DestroyGate, resVars,
       ctxVars, Aggregating, TypeInv, TypeOK
  <2>2. \A th \in Thread : th[1] < grad => th[1] # grad
    BY <1>0
  <2> QED
    BY <1>0, <2>1, <2>2 DEF OrphansOfCut, Orphan
<1> QED
  BY <1>1, <1>2, <1>3, <1>4, <1>5, <1>6, <1>7

LEMMA OrphansOfCutNext == TypeInv /\ LifeInv /\ OrphansOfCut /\ [Next]_vars => OrphansOfCut'
<1> SUFFICES ASSUME TypeInv, LifeInv, OrphansOfCut, [Next]_vars PROVE OrphansOfCut'
  OBVIOUS
<1>1. CASE MainStep \/ MeasureWcet \/ BudgetExpires
  BY <1>1, OrphansOfCutMain DEF CommandStep
<1>2. ASSUME NEW th \in Thread, ThreadStep(th) PROVE OrphansOfCut'
  <2>1. UNCHANGED <<mpc, grad, status, handle>>
    BY <1>2, ThreadStepPC
  <2> QED
    BY <2>1 DEF OrphansOfCut, Orphan
<1>3. CASE UNCHANGED vars
  BY <1>3 DEF vars, OrphansOfCut, Orphan, ctxVars, resVars
<1> QED
  BY <1>1, <1>2, <1>3 DEF Next

OverPC == {"cleanup", "destroyGate", "returned"}

\* What a step that ends a gradient leaves behind.
Settles ==
  /\ grad \in Grad /\ grad' = grad + 1 /\ mpc \notin OverPC /\ mpc' \notin OverPC
  /\ \A g \in Grad : g < grad =>
       status'[g] = status[g] /\ resJobs'[g] = resJobs[g] /\ resMisses'[g] = resMisses[g]
  /\ \/ status'[grad] = "failed" /\ resJobs'[grad] = 0 /\ resMisses'[grad] = 0
     \/ status'[grad] = "partial"
     \/ /\ status'[grad] = "complete"
        /\ Untainted(grad) =>
             resJobs'[grad] = NumTasks * Cycles /\ resMisses'[grad] <= resJobs'[grad]

\* What the others do to the part of the state the caller sees.
Keeps ==
  /\ grad' = grad
  /\ \A g \in Grad : g < grad =>
       status'[g] = status[g] /\ resJobs'[g] = resJobs[g] /\ resMisses'[g] = resMisses[g]
  /\ mpc \in OverPC => mpc' \in OverPC

LEMMA MainSettlesOrKeeps ==
  ASSUME TypeInv, LifeInv, CountInv, SumInv, CommandStep
  PROVE  Settles \/ Keeps
<1>0. /\ grad \in Nat /\ \A g \in Grad : g \in Nat /\ (g < grad => g # grad)
      /\ status \in [Grad -> {"none", "failed", "partial", "complete"}]
      /\ resJobs \in [Grad -> Nat] /\ resMisses \in [Grad -> Nat]
  BY DEF TypeInv, TypeOK, Grad
<1>1. CASE StartGradientFails \/ ReapFailed
  <2>1. /\ mpc \in {"gradient", "reapFailed"} /\ mpc' = "gradient" /\ grad \in Grad
        /\ grad' = grad + 1 /\ UNCHANGED <<resJobs, resMisses>>
        /\ status' = [status EXCEPT ![grad] = "failed"]
    BY <1>1 DEF StartGradientFails, ReapFailed, TypeInv, GradInRange, InGradient
  <2>2. resJobs[grad] = 0 /\ resMisses[grad] = 0
    BY <2>1 DEF SumInv, Aggregating
  <2> QED
    BY <1>0, <2>1, <2>2 DEF Settles, OverPC
<1>2. CASE ReapCompleted
  <2>1. /\ mpc = "reap" /\ mpc' = "gradient" /\ grad \in Grad /\ grad' = grad + 1
        /\ UNCHANGED <<resJobs, resMisses, status>> /\ status[grad] = "complete"
    BY <1>2 DEF ReapCompleted, resVars, TypeInv, GradInRange, InGradient, LifeInv,
       AggregatingSound
  <2>2. Untainted(grad) => Counting
    BY <2>1 DEF Counting, InGradient
  <2> QED
    BY <2>1, <2>2 DEF Settles, OverPC, SumInv
<1>3. CASE AggregateMisses
  <2>1. /\ mpc = "aggMisses" /\ grad \in Grad /\ UNCHANGED <<resJobs, status>>
        /\ resMisses' = [resMisses EXCEPT ![grad] = @ + misses[idx]]
        /\ status[grad] \in {"partial", "complete"}
    BY <1>3 DEF AggregateMisses, TypeInv, GradInRange, InGradient, LifeInv, AggregatingSound,
       Aggregating
  <2>2. \/ grad' = grad
        \/ grad' = grad + 1 /\ mpc' = "gradient" /\ status[grad] # "complete"
    BY <1>3 DEF AggregateMisses
  <2>3. \A g \in Grad : g < grad => resMisses'[g] = resMisses[g]
    BY <1>0, <2>1
  <2> QED
    BY <2>1, <2>2, <2>3 DEF Settles, Keeps, OverPC
<1>4. CASE AggregateJobs
  <2>1. /\ mpc = "aggJobs" /\ UNCHANGED <<grad, resMisses, status>>
        /\ resJobs' = [resJobs EXCEPT ![grad] = @ + jobs[idx]]
    BY <1>4 DEF AggregateJobs
  <2> QED
    BY <1>0, <2>1 DEF Keeps, OverPC
<1>5. CASE PollDone \/ BackstopDone \/ ReapForced
  <2>1. /\ mpc \notin OverPC /\ UNCHANGED <<grad, resJobs, resMisses>>
        /\ \E s \in {"partial", "complete"} : status' = [status EXCEPT ![grad] = s]
    BY <1>5 DEF PollDone, BackstopDone, AllDone, ReapForced, OverPC
  <2> QED
    BY <1>0, <2>1 DEF Keeps
<1>6. CASE /\ ~StartGradientFails /\ ~ReapFailed /\ ~ReapCompleted /\ ~AggregateMisses
           /\ ~AggregateJobs /\ ~PollDone /\ ~BackstopDone /\ ~ReapForced
  <2>1. UNCHANGED <<grad, status, resJobs, resMisses>> /\ (mpc \in OverPC => mpc' \in OverPC)
    BY <1>6 DEF CommandStep, MainStep, MeasureWcet, BudgetExpires, Begin, AllocArrays,
       AllocArraysFails, StartGradient, StopSweep, CreateThread, CreateThreadFails, WatchStart,
       WatchStartFails, StartPoll, PollTask, PollStalled, PollBudget, PollSleep, BackstopBudget,
       ToForced, ForceStop, Cleanup, DestroyGate, resVars, OverPC
  <2> QED
    BY <2>1 DEF Keeps
<1> QED
  BY <1>1, <1>2, <1>3, <1>4, <1>5, <1>6

LEMMA SettlesOrKeeps ==
  TypeInv /\ LifeInv /\ CountInv /\ SumInv /\ [Next]_vars => Settles \/ Keeps
<1> SUFFICES ASSUME TypeInv, LifeInv, CountInv, SumInv, [Next]_vars PROVE Settles \/ Keeps
  OBVIOUS
<1>1. CASE MainStep \/ MeasureWcet \/ BudgetExpires
  BY <1>1, MainSettlesOrKeeps DEF CommandStep
<1>2. ASSUME NEW th \in Thread, ThreadStep(th) PROVE Keeps
  <2>1. UNCHANGED <<mpc, grad, resJobs, resMisses, status>>
    BY <1>2, ThreadStepPC
  <2> QED
    BY <2>1 DEF Keeps
<1>3. CASE UNCHANGED vars
  BY <1>3 DEF vars, Keeps, resVars
<1> QED
  BY <1>1, <1>2, <1>3 DEF Next

\* g_result as the caller sees it.
Seen(g) ==
  IF g < grad THEN [status |-> status[g], jobs |-> resJobs[g], misses |-> resMisses[g]]
              ELSE [status |-> "none", jobs |-> 0, misses |-> 0]

LEMMA SettlesPublishes ==
  ASSUME TypeInv, OrphansOfCut, Settles
  PROVE  Sweep!Publish
<1>0. grad \in Nat /\ \A g \in Grad : g \in Nat
  BY DEF TypeInv, TypeOK, Grad
<1>1. /\ ~(mpc \in OverPC) /\ ~(mpc' \in OverPC)
      /\ grad - 1 < NumGradients /\ grad' - 1 = (grad - 1) + 1 /\ grad' - 1 = grad
      /\ grad \in Grad
  BY <1>0, SizeAssumption DEF Settles, Grad
<1>2. \A g \in Grad : g # grad => Seen(g)' = Seen(g)
  <2> TAKE g \in Grad
  <2> HAVE g # grad
  <2>1. CASE g < grad
    <3>1. g < grad'
      BY <1>0, <2>1 DEF Settles
    <3>2. status'[g] = status[g] /\ resJobs'[g] = resJobs[g] /\ resMisses'[g] = resMisses[g]
      BY <2>1 DEF Settles
    <3> QED
      BY <2>1, <3>1, <3>2 DEF Seen
  <2>2. CASE ~(g < grad)
    <3>1. ~(g < grad')
      BY <1>0, <2>2 DEF Settles
    <3> QED
      BY <2>2, <3>1 DEF Seen
  <2> QED
    BY <2>1, <2>2
<1>3. \A g \in Grad : g = grad =>
        Seen(g)' = [status |-> status'[g], jobs |-> resJobs'[g], misses |-> resMisses'[g]]
  <2>1. grad < grad'
    BY <1>0 DEF Settles
  <2> QED
    BY <2>1 DEF Seen
<1> DEFINE Outcome == [g \in Grad |->
                         IF g < grad
                           THEN [status |-> status[g], jobs |-> resJobs[g],
                                 misses |-> resMisses[g]]
                           ELSE [status |-> "none", jobs |-> 0, misses |-> 0]]
<1>4. \A g \in Grad : Outcome[g] = Seen(g) /\ Outcome'[g] = Seen(g)'
  BY DEF Seen
<1>5. (\A g \in 1..(grad - 1) : Outcome[g].status = "complete") => Untainted(grad)
  <2> SUFFICES ASSUME \A g \in 1..(grad - 1) : Outcome[g].status = "complete",
                      NEW th \in Thread, Orphan(th)
               PROVE  th[1] >= grad
    BY DEF Untainted
  <2>0. th[1] \in Grad
    BY IndexFacts
  <2>1. th[1] \in Nat /\ th[1] >= 1
    BY <2>0 DEF Grad
  <2>2. CASE th[1] < grad
    <3>1. th[1] \in 1..(grad - 1) /\ th[1] # grad
      BY <1>0, <2>1, <2>2
    <3>2. Seen(th[1]).status = "complete"
      BY <1>4, <2>0, <3>1
    <3>3. status[th[1]] = "complete"
      BY <2>2, <3>2 DEF Seen
    <3> QED
      BY <3>1, <3>3 DEF OrphansOfCut
  <2> QED
    BY <1>0, <2>1, <2>2
<1>6. Outcome'[grad' - 1] =
        [status |-> status'[grad], jobs |-> resJobs'[grad], misses |-> resMisses'[grad]]
  BY <1>1, <1>3, <1>4
<1>7. Sweep!Valid(Outcome'[grad' - 1])
  <2>1. Sweep!AllComplete => Untainted(grad)
    BY <1>5 DEF Sweep!AllComplete
  <2> HIDE DEF Outcome
  <2> QED
    BY <1>6, <2>1 DEF Sweep!Valid, Settles
<1>8. \A g \in 1..NumGradients : g # grad' - 1 => Outcome'[g] = Outcome[g]
  BY <1>1, <1>2, <1>4 DEF Grad
<1>9. /\ ~(mpc \in {"cleanup", "destroyGate", "returned"})
      /\ UNCHANGED (mpc \in {"cleanup", "destroyGate", "returned"})
  BY <1>1 DEF OverPC
<1> HIDE DEF Outcome
<1> QED
  BY <1>1, <1>7, <1>8, <1>9 DEF Sweep!Publish, Outcome

LEMMA KeepsFinishesOrStutters ==
  ASSUME TypeInv, Keeps
  PROVE  [Sweep!Next]_(Sweep!vars)
<1>1. \A g \in Grad : Seen(g)' = Seen(g)
  BY DEF Seen, Keeps
<1>2. /\ grad' - 1 = grad - 1
      /\ [g \in Grad |-> Seen(g)]' = [g \in Grad |-> Seen(g)]
  BY <1>1 DEF Keeps
<1>3. \/ mpc \notin OverPC /\ mpc' \in OverPC
      \/ (mpc \in OverPC) <=> (mpc' \in OverPC)
  BY DEF Keeps
<1>4. CASE mpc \notin OverPC /\ mpc' \in OverPC
  BY <1>2, <1>4 DEF Sweep!Next, Sweep!Finish, Seen, OverPC
<1>5. CASE (mpc \in OverPC) <=> (mpc' \in OverPC)
  BY <1>2, <1>5 DEF Sweep!vars, Seen, OverPC
<1> QED
  BY <1>3, <1>4, <1>5

\* The whole command, with any interleaving of its threads, their hangs, the
\* watchdog's verdicts and failures, looks to its caller like ScheduleSweep.
THEOREM SweepImplemented == Spec => ImplementsSweep
<1>1. Init => Sweep!Init
  BY IndexFacts DEF Init, Sweep!Init, Sweep!NoOutcome, Grad
<1>2. TypeInv /\ LifeInv /\ CountInv /\ SumInv /\ OrphansOfCut /\ [Next]_vars
        => [Sweep!Next]_(Sweep!vars)
  BY SettlesOrKeeps, SettlesPublishes, KeepsFinishesOrStutters DEF Sweep!Next
<1>3. Init => ArraysLive /\ FirstPhase /\ CountInv /\ SumInv /\ OrphansOfCut
  BY DEF Init, ArraysLive, FirstPhase, CountInv, Counting, SumInv, CompleteIsExact, InGradient,
     OrphansOfCut, Orphan
<1> QED
  BY <1>1, <1>2, <1>3, SetupInvNext, CountInvNext, SumInvNext, OrphansOfCutNext, LifeInvInit,
     LifeInvNext, TypeInvariant, PTL DEF Spec, ImplementsSweep, Sweep!Spec

-----------------------------------------------------------------------------
(* The sequential mode (SequentialSchedule).  Sums over a function are defined *)
(* by recursion on the parts of its domain: what they are is found by induction *)
(* on a set of numbers or of parts, as the library's induction takes an operator. *)

\* A set of natural numbers that is not empty has a least element.
LEMMA LeastNatural ==
  ASSUME NEW T, T \subseteq Nat, T # {}
  PROVE  \E x \in T : \A y \in T : x <= y
<1>1. IsWellFoundedOn(OpToRel(<, Nat), Nat)
  BY NatLessThanWellFounded
<1>2. PICK x \in T : \A y \in T : ~ (<<y, x>> \in OpToRel(<, Nat))
  BY <1>1, WFMin
<1>3. \A y \in T : ~(y < x)
  BY <1>2 DEF OpToRel
<1> QED BY <1>3

\* What a sum over a part of the domain of f is made from: one element after the other.
Chooses(s) == CHOOSE x \in s : TRUE

Sums(f, sum) ==
  sum = [s \in SUBSET DOMAIN f |-> IF s = {} THEN 0 ELSE f[Chooses(s)] + sum[s \ {Chooses(s)}]]

PartialSums(f) == CHOOSE sum : Sums(f, sum)

\* A sum is a partial sum, over the whole domain.
LEMMA SumIsPartial == ASSUME NEW f PROVE SumFunction(f) = PartialSums(f)[DOMAIN f]
BY DEF SumFunction, SumFunctionOnSet, FoldFunctionOnSet, MapThenFoldSet, PartialSums, Sums, Chooses

\* What is chosen is an element.
LEMMA ChoosesOne == ASSUME NEW s, s # {} PROVE Chooses(s) \in s
BY DEF Chooses

\* Induction, on the set of the numbers for which a formula holds.
LEMMA InductionOnSet ==
  ASSUME NEW P, 0 \in P, \A n \in P \cap Nat : n + 1 \in P
  PROVE  Nat \subseteq P
<1> SUFFICES ASSUME Nat \ P # {} PROVE FALSE
  OBVIOUS
<1>1. PICK n \in Nat \ P : \A m \in Nat \ P : n <= m
  BY LeastNatural
<1>2. n # 0 /\ n - 1 \in Nat /\ ~(n <= n - 1) /\ (n - 1) + 1 = n
  BY <1>1
<1>3. n - 1 \in P
  BY <1>1, <1>2
<1> QED
  BY <1>1, <1>2, <1>3

Parts(S, k) == {s \in SUBSET S : Cardinality(s) <= k}

SumsTo(f, S, k, g) ==
  /\ g \in [Parts(S, k) -> Int]
  /\ \A s \in Parts(S, k) : g[s] = IF s = {} THEN 0 ELSE f[Chooses(s)] + g[s \ {Chooses(s)}]

\* A part without one of its elements is smaller by one.
LEMMA PartWithout ==
  ASSUME NEW S, IsFiniteSet(S), NEW s \in SUBSET S, NEW x \in s
  PROVE  /\ Cardinality(s) \in Nat /\ Cardinality(s) # 0
         /\ s \ {x} \in SUBSET S /\ Cardinality(s \ {x}) = Cardinality(s) - 1
<1>1. IsFiniteSet(s)
  BY FS_Subset
<1> QED
  BY <1>1, FS_RemoveElement, FS_CardinalityType, FS_EmptySet

\* Only the empty part has no elements.
LEMMA NoParts == ASSUME NEW S, IsFiniteSet(S) PROVE Parts(S, 0) = {{}}
<1>1. {} \in Parts(S, 0)
  BY FS_EmptySet DEF Parts
<1>2. ASSUME NEW s \in SUBSET S, Cardinality(s) <= 0 PROVE s = {}
  <2>1. \A x \in s : FALSE
    <3> SUFFICES ASSUME NEW x \in s PROVE FALSE
      OBVIOUS
    <3>1. Cardinality(s) \in Nat /\ Cardinality(s) # 0
      BY PartWithout
    <3> QED
      BY <1>2, <3>1
  <2> QED
    BY <2>1
<1>3. \A s \in Parts(S, 0) : s = {}
  BY <1>2 DEF Parts
<1> QED
  BY <1>1, <1>3

\* Induction on the parts of a finite set, one element fewer at a time.
LEMMA InductionOnParts ==
  ASSUME NEW S, IsFiniteSet(S), NEW P,
         \A s \in SUBSET S : (\A x \in s : s \ {x} \in P) => s \in P
  PROVE  SUBSET S \subseteq P
<1> DEFINE Q == {k \in Nat : Parts(S, k) \subseteq P}
<1>1. 0 \in Q
  BY NoParts
<1>2. ASSUME NEW k \in Q PROVE k + 1 \in Q
  <2>1. ASSUME NEW s \in Parts(S, k + 1), NEW x \in s PROVE s \ {x} \in P
    <3>1. s \ {x} \in Parts(S, k)
      BY PartWithout DEF Parts
    <3> QED
      BY <3>1
  <2>2. Parts(S, k + 1) \subseteq SUBSET S
    BY DEF Parts
  <2> QED
    BY <2>1, <2>2
<1>3. Nat \subseteq Q
  BY <1>1, <1>2, InductionOnSet
<1>4. \A s \in SUBSET S : Cardinality(s) \in Nat /\ s \in Parts(S, Cardinality(s))
  BY FS_Subset, FS_CardinalityType DEF Parts
<1> QED
  BY <1>3, <1>4

\* The parts of S with k elements have sums, for every k.
LEMMA SumsToAll ==
  ASSUME NEW S, IsFiniteSet(S), NEW f \in [S -> Int]
  PROVE  \A k \in Nat : \E g : SumsTo(f, S, k, g)
<1> DEFINE P == {k \in Nat : \E g : SumsTo(f, S, k, g)}
<1>1. 0 \in P
  <2> DEFINE g == [s \in Parts(S, 0) |-> 0]
  <2>2. SumsTo(f, S, 0, g)
    BY NoParts DEF SumsTo
  <2> QED
    BY <2>2
<1>2. ASSUME NEW k \in P PROVE k + 1 \in P
  <2>1. PICK g : SumsTo(f, S, k, g)
    OBVIOUS
  <2> DEFINE h == [s \in Parts(S, k + 1) |->
                    IF s = {} THEN 0 ELSE f[Chooses(s)] + g[s \ {Chooses(s)}]]
  <2>2. ASSUME NEW s \in Parts(S, k + 1), s # {}
        PROVE  /\ Chooses(s) \in S /\ s \ {Chooses(s)} \in Parts(S, k)
               /\ s \ {Chooses(s)} \in Parts(S, k + 1)
    <3>1. Chooses(s) \in s
      BY <2>2, ChoosesOne
    <3>2. Cardinality(s) <= k + 1 /\ s \in SUBSET S
      BY DEF Parts
    <3>3. /\ s \ {Chooses(s)} \in SUBSET S /\ Cardinality(s) \in Nat
          /\ Cardinality(s \ {Chooses(s)}) = Cardinality(s) - 1
      BY <3>1, <3>2, PartWithout
    <3> QED
      BY <3>1, <3>2, <3>3 DEF Parts
  <2>3. \A s \in Parts(S, k) : g[s] \in Int
    BY <2>1 DEF SumsTo
  <2>4. h \in [Parts(S, k + 1) -> Int]
    BY <2>2, <2>3
  <2>5. \A s \in Parts(S, k) : h[s] = g[s]
    <3>1. \A s \in Parts(S, k) : s \in Parts(S, k + 1)
      <4>1. \A s \in SUBSET S : Cardinality(s) \in Nat
        BY FS_Subset, FS_CardinalityType
      <4> QED
        BY <4>1 DEF Parts
    <3> QED
      BY <3>1, <2>1 DEF SumsTo
  <2>6. \A s \in Parts(S, k + 1) : h[s] = IF s = {} THEN 0 ELSE f[Chooses(s)] + h[s \ {Chooses(s)}]
    BY <2>2, <2>5
  <2>7. SumsTo(f, S, k + 1, h)
    BY <2>4, <2>6 DEF SumsTo
  <2> QED
    BY <2>7
<1>3. Nat \subseteq P
  BY <1>1, <1>2, InductionOnSet
<1> QED
  BY <1>3

\* What is the sum of integers is one.
LEMMA SumOfIntegers == ASSUME NEW a, NEW b \in Int, NEW c \in Int, a = b + c PROVE a \in Int
OBVIOUS

\* What satisfies the equations of the partial sums has integers for values.
LEMMA SumsAreIntegers ==
  ASSUME NEW S, IsFiniteSet(S), NEW f \in [S -> Int], NEW sum, sum[{}] = 0,
         \A s \in SUBSET S : s # {} => sum[s] = f[Chooses(s)] + sum[s \ {Chooses(s)}]
  PROVE  \A s \in SUBSET S : sum[s] \in Int
<1> DEFINE P == {s \in SUBSET S : sum[s] \in Int}
<1>1. 0 \in Int
  OBVIOUS
<1>2. ASSUME NEW s \in SUBSET S, \A x \in s : s \ {x} \in P PROVE sum[s] \in Int
  <2>1. CASE s = {}
    BY <1>1, <2>1, Zenon
  <2>2. CASE s # {}
    <3>1. Chooses(s) \in s
      BY <2>2, ChoosesOne
    <3>2. sum[s \ {Chooses(s)}] \in Int /\ f[Chooses(s)] \in Int
      BY <1>2, <3>1
    <3>3. sum[s] = f[Chooses(s)] + sum[s \ {Chooses(s)}]
      BY <2>2
    <3> QED
      BY <3>2, <3>3, SumOfIntegers
  <2> QED
    BY <2>1, <2>2
<1>3. \A s \in SUBSET S : (\A x \in s : s \ {x} \in P) => s \in P
  BY <1>2
<1>4. SUBSET S \subseteq P
  <2> HIDE DEF P
  <2> QED
    BY <1>3, InductionOnParts
<1> QED
  BY <1>4

\* Addition, folded where only equality matters.
Plus(a, b) == a + b

\* sum is defined on all parts of S, as the recursive definition has it.
Solves(sum, f, S) ==
  /\ sum \in [SUBSET S -> Int] /\ sum[{}] = 0
  /\ \A s \in SUBSET S : s # {} => sum[s] = Plus(f[Chooses(s)], sum[s \ {Chooses(s)}])

\* The recursive definition of SumFunction has a solution: the partial sums are
\* defined for every part of a finite domain.
LEMMA PartialSumsExist ==
  ASSUME NEW S, IsFiniteSet(S), NEW f \in [S -> Int]
  PROVE  Solves(PartialSums(f), f, S)
<1> DEFINE n == Cardinality(S)
<1>1. n \in Nat /\ Parts(S, n) = SUBSET S
  BY FS_Subset, FS_CardinalityType DEF Parts
<1>2. PICK g : SumsTo(f, S, n, g)
  BY <1>1, SumsToAll
<1>3. g = [s \in SUBSET S |-> IF s = {} THEN 0 ELSE f[Chooses(s)] + g[s \ {Chooses(s)}]]
  BY <1>1, <1>2 DEF SumsTo
<1>4. \E sum : Sums(f, sum)
  BY <1>3 DEF Sums
<1> DEFINE sum == PartialSums(f)
<1>5. sum = [s \in SUBSET S |-> IF s = {} THEN 0 ELSE f[Chooses(s)] + sum[s \ {Chooses(s)}]]
  <2>1. Sums(f, sum)
    BY <1>4 DEF PartialSums
  <2> QED
    BY <2>1 DEF Sums
<1>6. sum[{}] = 0 /\ \A s \in SUBSET S : s # {} => sum[s] = f[Chooses(s)] + sum[s \ {Chooses(s)}]
  BY <1>5
<1>7. \A s \in SUBSET S : sum[s] \in Int
  BY <1>6, SumsAreIntegers
<1>8. sum \in [SUBSET S -> Int]
  BY <1>5, <1>7
<1> HIDE DEF sum
<1>9. Solves(sum, f, S)
  BY <1>6, <1>8 DEF Solves, Plus
<1> QED
  BY <1>9 DEF sum

\* Of three numbers, the first two may change places.
LEMMA PlusSwaps ==
  ASSUME NEW a \in Int, NEW b \in Int, NEW c \in Int
  PROVE  Plus(b, Plus(a, c)) = Plus(a, Plus(b, c))
BY DEF Plus

\* sum adds the values of f up, whichever element comes last.
AddsUp(sum, f, S) ==
  /\ sum \in [SUBSET S -> Int] /\ sum[{}] = 0
  /\ \A s \in SUBSET S : \A x \in s : sum[s] = Plus(f[x], sum[s \ {x}])

\* The order of the elements is of no importance.
LEMMA SumWithout ==
  ASSUME NEW S, IsFiniteSet(S), NEW f \in [S -> Int]
  PROVE  AddsUp(PartialSums(f), f, S)
<1> DEFINE sum == PartialSums(f)
<1>0. Solves(sum, f, S)
  BY PartialSumsExist, Zenon
<1> HIDE DEF sum
<1>1. /\ sum \in [SUBSET S -> Int] /\ sum[{}] = 0
      /\ \A s \in SUBSET S : s # {} => sum[s] = Plus(f[Chooses(s)], sum[s \ {Chooses(s)}])
  BY <1>0 DEF Solves
<1> DEFINE P == {s \in SUBSET S : \A x \in s : sum[s] = Plus(f[x], sum[s \ {x}])}
<1>2. ASSUME NEW s \in SUBSET S, \A x \in s : s \ {x} \in P, NEW x \in s
      PROVE  sum[s] = Plus(f[x], sum[s \ {x}])
  <2> DEFINE c == Chooses(s)
  <2>1. c \in s /\ sum[s] = Plus(f[c], sum[s \ {c}])
    BY <1>1, ChoosesOne
  <2> HIDE DEF c
  <2>2. CASE x = c
    BY <2>1, <2>2
  <2>3. CASE x # c
    <3> DEFINE t == (s \ {c}) \ {x}
    <3>1. sum[s \ {c}] = Plus(f[x], sum[t])
      BY <1>2, <2>1, <2>3
    <3>2. t = (s \ {x}) \ {c}
      OBVIOUS
    <3>3. sum[s \ {x}] = Plus(f[c], sum[t])
      BY <1>2, <2>1, <2>3, <3>2
    <3>4. sum[t] \in Int /\ f[x] \in Int /\ f[c] \in Int
      BY <1>1, <2>1
    <3>5. Plus(f[c], Plus(f[x], sum[t])) = Plus(f[x], Plus(f[c], sum[t]))
      BY <3>4, PlusSwaps
    <3> QED
      BY <2>1, <3>1, <3>3, <3>5
  <2> QED
    BY <2>2, <2>3
<1>3. \A s \in SUBSET S : (\A x \in s : s \ {x} \in P) => s \in P
  BY <1>2
<1>4. SUBSET S \subseteq P
  <2> HIDE DEF P
  <2> QED
    BY <1>3, InductionOnParts
<1>5. AddsUp(sum, f, S)
  BY <1>1, <1>4 DEF AddsUp
<1> QED
  BY <1>5 DEF sum

\* A sum is what the partial sums come to.
LEMMA SumAddsUp ==
  ASSUME NEW S, IsFiniteSet(S), NEW f \in [S -> Int]
  PROVE  \E sum : AddsUp(sum, f, S) /\ SumFunction(f) = sum[S]
<1>1. AddsUp(PartialSums(f), f, S)
  BY SumWithout, Zenon
<1>2. DOMAIN f = S
  OBVIOUS
<1>3. SumFunction(f) = PartialSums(f)[S]
  BY <1>2, SumIsPartial, Zenon
<1> QED
  BY <1>1, <1>3, Zenon

\* One element of a part, and the others.
LEMMA AddsOne ==
  ASSUME NEW S, NEW f, NEW sum, AddsUp(sum, f, S), NEW s \in SUBSET S, NEW x \in s
  PROVE  sum[s] = Plus(f[x], sum[s \ {x}])
BY DEF AddsUp

\* Partial sums are integers.
LEMMA AddsIntegers ==
  ASSUME NEW S, NEW f, NEW sum, AddsUp(sum, f, S), NEW s \in SUBSET S
  PROVE  sum[s] \in Int
BY DEF AddsUp

\* The sum of nothing.
LEMMA AddsNone ==
  ASSUME NEW S, NEW f, NEW sum, AddsUp(sum, f, S) PROVE sum[{}] = 0
BY DEF AddsUp

\* A sum of integers is an integer.
LEMMA SumIsInteger ==
  ASSUME NEW S, IsFiniteSet(S), NEW f \in [S -> Int] PROVE SumFunction(f) \in Int
<1>1. PICK sum : AddsUp(sum, f, S) /\ SumFunction(f) = sum[S]
  BY SumAddsUp
<1> QED
  BY <1>1, AddsIntegers

\* The elements of an interval one after the other.
LEMMA AddsNext ==
  ASSUME NEW n \in Nat, NEW f, NEW sum, AddsUp(sum, f, 1..n), NEW k \in Nat, k + 1 <= n
  PROVE  sum[1..(k + 1)] = Plus(f[k + 1], sum[1..k])
<1>1. k + 1 \in 1..(k + 1) /\ (1..(k + 1)) \ {k + 1} = 1..k /\ 1..(k + 1) \in SUBSET (1..n)
  OBVIOUS
<1> DEFINE S == 1..n
           s == 1..(k + 1)
           x == k + 1
<1>2. AddsUp(sum, f, S) /\ s \in SUBSET S /\ x \in s
  BY <1>1
<1>3. s \ {x} = 1..k
  BY <1>1
<1> HIDE DEF S, s, x
<1>4. sum[s] = Plus(f[x], sum[s \ {x}])
  BY <1>2, AddsOne
<1> QED
  BY <1>3, <1>4 DEF s, x

\* The differences of neighbours sum up to the difference of the ends.
LEMMA SumTelescopes ==
  ASSUME NEW n \in Nat, NEW r \in [0..n -> Int]
  PROVE  SumFunction([i \in 1..n |-> r[i - 1] - r[i]]) = r[0] - r[n]
<1> DEFINE f == [i \in 1..n |-> r[i - 1] - r[i]]
<1>1. IsFiniteSet(1..n)
  BY FS_Interval
<1>2. f \in [1..n -> Int] /\ \A i \in 1..n : f[i] = r[i - 1] - r[i]
  OBVIOUS
<1> HIDE DEF f
<1>3. PICK sum : AddsUp(sum, f, 1..n) /\ SumFunction(f) = sum[1..n]
  BY <1>1, <1>2, SumAddsUp
<1> DEFINE P == {k \in Nat : k <= n => sum[1..k] = r[0] - r[k]}
<1>4. 0 \in P
  <2>1. 1..0 = {} /\ r[0] - r[0] = 0
    OBVIOUS
  <2>2. sum[1..0] = 0
    BY <1>3, <2>1, AddsNone
  <2> QED
    BY <2>1, <2>2
<1>5. ASSUME NEW k \in P PROVE k + 1 \in P
  <2> SUFFICES ASSUME k + 1 <= n PROVE sum[1..(k + 1)] = r[0] - r[k + 1]
    OBVIOUS
  <2>1. sum[1..k] = r[0] - r[k] /\ f[k + 1] = r[k] - r[k + 1]
    BY <1>2
  <2>2. sum[1..(k + 1)] = Plus(f[k + 1], sum[1..k])
    <3>1. k \in Nat
      OBVIOUS
    <3> QED
      BY <1>3, <3>1, AddsNext
  <2>3. r[0] \in Int /\ r[k] \in Int /\ r[k + 1] \in Int
    OBVIOUS
  <2> QED
    BY <2>1, <2>2, <2>3 DEF Plus
<1>6. Nat \subseteq P
  <2> HIDE DEF P
  <2> QED
    BY <1>4, <1>5, InductionOnSet
<1> QED
  BY <1>3, <1>6 DEF f

\* g gives f's values to the elements of S in another order.
Rearranges(g, f, S) == \E q \in Bijection(S, S) : g = [i \in S |-> f[q[i]]]

\* A sum does not depend on the order of its terms.
LEMMA SumRearranged ==
  ASSUME NEW S, NEW f, NEW g, IsFiniteSet(S), f \in [S -> Int], Rearranges(g, f, S)
  PROVE  SumFunction(g) = SumFunction(f)
<1>0. PICK q \in Bijection(S, S) : g = [i \in S |-> f[q[i]]]
  BY DEF Rearranges
<1> DEFINE img(s) == {q[i] : i \in s}
<1>1. /\ q \in [S -> S] /\ \A i, j \in S : q[i] = q[j] => i = j
      /\ \A j \in S : \E i \in S : q[i] = j
  BY DEF Bijection, Injection, Surjection, IsInjective
<1>2. g \in [S -> Int] /\ \A i \in S : g[i] = f[q[i]]
  BY <1>0, <1>1
<1>3. PICK sumf : AddsUp(sumf, f, S) /\ SumFunction(f) = sumf[S]
  BY SumAddsUp
<1>4. PICK sumg : AddsUp(sumg, g, S) /\ SumFunction(g) = sumg[S]
  BY <1>2, SumAddsUp
<1> DEFINE P == {s \in SUBSET S : sumg[s] = sumf[img(s)]}
<1>5. ASSUME NEW s \in SUBSET S, \A x \in s : s \ {x} \in P PROVE s \in P
  <2>1. CASE s = {}
    <3>1. img({}) = {}
      OBVIOUS
    <3>2. sumg[{}] = sumf[{}]
      BY <1>3, <1>4, AddsNone
    <3> QED
      BY <2>1, <3>1, <3>2
  <2>2. CASE s # {}
    <3>1. PICK x \in s : TRUE
      BY <2>2
    <3>2. q[x] \in img(s) /\ img(s) \in SUBSET S
      BY <1>1
    <3>3. img(s) \ {q[x]} = img(s \ {x})
      BY <1>1
    <3>4. sumg[s \ {x}] = sumf[img(s \ {x})]
      BY <1>5
    <3> HIDE DEF img
    <3>5. sumg[s] = Plus(g[x], sumg[s \ {x}]) /\ g[x] = f[q[x]]
      BY <1>2, <1>4, AddsOne
    <3>6. sumf[img(s)] = Plus(f[q[x]], sumf[img(s) \ {q[x]}])
      BY <1>3, <3>2, AddsOne
    <3> QED
      BY <3>3, <3>4, <3>5, <3>6
  <2> QED
    BY <2>1, <2>2
<1>6. SUBSET S \subseteq P
  <2> HIDE DEF P
  <2> QED
    BY <1>5, InductionOnParts
<1>7. img(S) = S
  BY <1>1
<1> QED
  BY <1>3, <1>4, <1>6, <1>7

\* A sum of n equal terms.
LEMMA SumOfEqual ==
  ASSUME NEW n \in Nat, NEW c \in Int, NEW f \in [1..n -> Int], \A i \in 1..n : f[i] = c
  PROVE  SumFunction(f) = n * c
<1>1. IsFiniteSet(1..n)
  BY FS_Interval
<1>2. PICK sum : AddsUp(sum, f, 1..n) /\ SumFunction(f) = sum[1..n]
  BY <1>1, SumAddsUp
<1> DEFINE P == {k \in Nat : k <= n => sum[1..k] = k * c}
<1>3. 0 \in P
  <2>1. 1..0 = {} /\ 0 * c = 0
    OBVIOUS
  <2>2. sum[1..0] = 0
    BY <1>2, <2>1, AddsNone
  <2> QED
    BY <2>1, <2>2
<1>4. ASSUME NEW k \in P PROVE k + 1 \in P
  <2> SUFFICES ASSUME k + 1 <= n PROVE sum[1..(k + 1)] = (k + 1) * c
    OBVIOUS
  <2>1. sum[1..k] = k * c /\ f[k + 1] = c
    OBVIOUS
  <2>2. sum[1..(k + 1)] = Plus(f[k + 1], sum[1..k])
    BY <1>2, AddsNext
  <2>3. c + k * c = (k + 1) * c
    OBVIOUS
  <2> QED
    BY <2>1, <2>2, <2>3 DEF Plus
<1>5. Nat \subseteq P
  <2> HIDE DEF P
  <2> QED
    BY <1>3, <1>4, InductionOnSet
<1> QED
  BY <1>2, <1>5

\* Smaller terms have a smaller sum.
LEMMA SumsInOrder ==
  ASSUME NEW b \in Int, NEW c \in Int, NEW d \in Int, NEW e \in Int, b <= d, c <= e,
         NEW a1, NEW a2, a1 = b + c, a2 = d + e
  PROVE  a1 <= a2
OBVIOUS

\* Smaller terms have a smaller sum, however many there are.
LEMMA SumMonotone ==
  ASSUME NEW S, IsFiniteSet(S), NEW f \in [S -> Int], NEW g \in [S -> Int],
         \A i \in S : f[i] <= g[i]
  PROVE  SumFunction(f) <= SumFunction(g)
<1>1. PICK sumf : AddsUp(sumf, f, S) /\ SumFunction(f) = sumf[S]
  BY SumAddsUp
<1>2. PICK sumg : AddsUp(sumg, g, S) /\ SumFunction(g) = sumg[S]
  BY SumAddsUp
<1> DEFINE P == {s \in SUBSET S : sumf[s] <= sumg[s]}
<1>3. ASSUME NEW s \in SUBSET S, \A x \in s : s \ {x} \in P PROVE s \in P
  <2>1. CASE s = {}
    <3>1. sumf[{}] = 0 /\ sumg[{}] = 0
      BY <1>1, <1>2, AddsNone
    <3> QED
      BY <2>1, <3>1
  <2>2. CASE s # {}
    <3>1. PICK x \in s : TRUE
      BY <2>2
    <3>2. sumf[s \ {x}] <= sumg[s \ {x}] /\ f[x] <= g[x]
      BY <1>3
    <3>3. sumf[s] = Plus(f[x], sumf[s \ {x}])
      BY <1>1, AddsOne
    <3>4. sumg[s] = Plus(g[x], sumg[s \ {x}])
      BY <1>2, AddsOne
    <3>5. sumf[s \ {x}] \in Int /\ sumg[s \ {x}] \in Int
      BY <1>1, <1>2, AddsIntegers
    <3>6. f[x] \in Int /\ g[x] \in Int
      OBVIOUS
    <3> QED
      BY <3>2, <3>3, <3>4, <3>5, <3>6, SumsInOrder DEF Plus
  <2> QED
    BY <2>1, <2>2
<1>4. SUBSET S \subseteq P
  <2> HIDE DEF P
  <2> QED
    BY <1>3, InductionOnParts
<1> QED
  BY <1>1, <1>2, <1>4

\* The instance has copies of the library's operators.
LEMMA SameSum == ASSUME NEW f PROVE Sequential!Total(f) = SumFunction(f)
BY DEF Sequential!Total, Sequential!SumFunction, Sequential!SumFunctionOnSet,
       Sequential!FoldFunctionOnSet, Sequential!MapThenFoldSet,
       SumFunction, SumFunctionOnSet, FoldFunctionOnSet, MapThenFoldSet

\* As for cardinalities,
LEMMA SameCount == ASSUME NEW S PROVE Sequential!Cardinality(S) = Cardinality(S)
BY DEF Sequential!Cardinality, Cardinality, Sequential!IsFiniteSet, IsFiniteSet

\* and for bijections.
LEMMA SameBijection == ASSUME NEW S, NEW T PROVE Sequential!Bijection(S, T) = Bijection(S, T)
BY DEF Sequential!Bijection, Sequential!Injection, Sequential!Surjection, Sequential!IsInjective,
       Bijection, Injection, Surjection, IsInjective

\* The types of the options, one by one.
LEMMA OptionFacts ==
  /\ MaxTasks \in Nat \ {0} /\ MaxGradients \in Nat \ {0} /\ SeqCycles \in Nat \ {0}
  /\ UtilStart \in Nat \ {0} /\ UtilEnd \in Nat \ {0} /\ UtilStep \in Nat \ {0}
  /\ Whole \in Nat \ {0} /\ PowOne \in Nat \ {0}
  /\ UtilStart <= UtilEnd /\ UtilEnd <= Whole
  /\ Low \in Nat /\ LongPeriod \in Nat /\ MaxPeriod \in Nat
BY SequentialAssumption

\* The lesser of two numbers.
LEMMA LeastFacts ==
  ASSUME NEW a \in Int, NEW b \in Int
  PROVE  /\ Sequential!Least(a, b) \in {a, b}
         /\ Sequential!Least(a, b) <= a /\ Sequential!Least(a, b) <= b
BY DEF Sequential!Least

-----------------------------------------------------------------------------
(* Multiplication and division. *)

\* A greater number has greater multiples.
LEMMA ProductInOrder ==
  ASSUME NEW a \in Nat, NEW b \in Nat, NEW c \in Nat, a <= b
  PROVE  a * c <= b * c /\ a * c \in Nat
OBVIOUS

\* A number with greater multiples is greater.
LEMMA ProductsInOrder ==
  ASSUME NEW a \in Nat, NEW b \in Nat, NEW c \in Nat \ {0}, a * c <= b * c
  PROVE  a <= b
<1> SUFFICES ASSUME b + 1 <= a PROVE FALSE
  OBVIOUS
<1>1. (b + 1) * c <= a * c
  BY ProductInOrder
<1>2. (b + 1) * c = b * c + c
  OBVIOUS
<1>3. b * c \in Nat /\ a * c \in Nat
  OBVIOUS
<1> QED
  BY <1>1, <1>2, <1>3

\* What a quotient is.
LEMMA DivFacts ==
  ASSUME NEW m \in Nat, NEW c \in Nat \ {0}
  PROVE  m \div c \in Nat /\ (m \div c) * c <= m /\ m < (m \div c + 1) * c
OBVIOUS

\* A part of a number is no more than the number.
LEMMA PartOf ==
  ASSUME NEW a \in Nat, NEW c \in Nat \ {0}, NEW f \in 0..c
  PROVE  (a * f) \div c \in 0..a
<1>1. f * a <= c * a /\ f * a \in Nat
  BY ProductInOrder
<1>2. f * a = a * f /\ c * a = a * c
  OBVIOUS
<1> DEFINE m == a * f
<1>3. m \in Nat /\ m <= a * c
  BY <1>1, <1>2
<1> HIDE DEF m
<1> DEFINE d == m \div c
<1>4. d \in Nat /\ d * c <= m
  BY <1>3, DivFacts
<1> HIDE DEF d
<1>5. d * c <= a * c
  <2>1. d * c \in Nat /\ a * c \in Nat
    BY <1>4
  <2> QED
    BY <1>3, <1>4, <2>1
<1>6. d <= a
  BY <1>4, <1>5, ProductsInOrder
<1> QED
  BY <1>4, <1>6 DEF d, m

\* A whole multiple of a part is no less than the number.
LEMMA WholeOver ==
  ASSUME NEW a \in Nat, NEW c \in Nat \ {0}, NEW f \in Nat, c <= f
  PROVE  (a * f) \div c >= a /\ (a * f) \div c \in Nat
<1>1. c * a <= f * a /\ f * a \in Nat
  BY ProductInOrder
<1>2. f * a = a * f /\ c * a = a * c
  OBVIOUS
<1> DEFINE m == a * f
<1>3. m \in Nat /\ a * c <= m
  BY <1>1, <1>2
<1> HIDE DEF m
<1> DEFINE d == m \div c
<1>4. d \in Nat /\ m < (d + 1) * c
  BY <1>3, DivFacts
<1> HIDE DEF d
<1>5. a * c < (d + 1) * c
  <2>1. (d + 1) * c \in Nat /\ a * c \in Nat
    BY <1>4
  <2> QED
    BY <1>3, <1>4, <2>1
<1>6. a < d + 1
  <2> SUFFICES ASSUME d + 1 <= a PROVE FALSE
    BY <1>4
  <2>1. (d + 1) * c <= a * c /\ (d + 1) * c \in Nat /\ a * c \in Nat
    BY <1>4, ProductInOrder
  <2> QED
    BY <1>5, <2>1
<1> QED
  BY <1>4, <1>6 DEF d, m

-----------------------------------------------------------------------------
(* uunifast. *)

Kept(a, x) == (a * Sequential!Factor(x)) \div PowOne

\* A turn of the loop keeps a part of what there was.
LEMMA KeptIsPart == ASSUME NEW a \in Nat, NEW x \in Int PROVE Kept(a, x) \in 0..a
<1>1. Sequential!Factor(x) \in 0..PowOne
  BY OptionFacts DEF Sequential!Factor, Sequential!Least
<1> QED
  BY <1>1, OptionFacts, PartOf DEF Kept

\* What is left after the first k turns of the loop.
Leaves(r, n, u, p, k) ==
  /\ r \in [0..k -> Nat] /\ r[0] = u
  /\ \A i \in 1..k : r[i] = IF i = n THEN 0 ELSE Kept(r[i - 1], p[i])

\* The recursive definition of sum_u has a solution.
LEMMA LeavesExists ==
  ASSUME NEW n \in Nat, NEW u \in Nat, NEW p \in [1..(n - 1) -> Int]
  PROVE  \E r : Leaves(r, n, u, p, n)
<1> DEFINE P == {k \in Nat : k <= n => \E r : Leaves(r, n, u, p, k)}
<1>1. 0 \in P
  <2> DEFINE r == [i \in 0..0 |-> u]
  <2>1. r \in [0..0 -> Nat] /\ r[0] = u /\ 1..0 = {}
    OBVIOUS
  <2>2. Leaves(r, n, u, p, 0)
    BY <2>1 DEF Leaves
  <2> QED
    BY <2>2
<1>2. ASSUME NEW k \in P PROVE k + 1 \in P
  <2> SUFFICES ASSUME k + 1 <= n PROVE \E r : Leaves(r, n, u, p, k + 1)
    OBVIOUS
  <2>1. PICK r : Leaves(r, n, u, p, k)
    OBVIOUS
  <2> DEFINE new == IF k + 1 = n THEN 0 ELSE Kept(r[k], p[k + 1])
             s == [i \in 0..(k + 1) |-> IF i = k + 1 THEN new ELSE r[i]]
  <2>2. r \in [0..k -> Nat] /\ r[0] = u /\ k \in Nat
    BY <2>1 DEF Leaves
  <2>3. new \in Nat
    <3>1. CASE k + 1 = n
      BY <3>1
    <3>2. CASE k + 1 # n
      <4>1. r[k] \in Nat /\ p[k + 1] \in Int
        BY <2>2, <3>2
      <4>2. Kept(r[k], p[k + 1]) \in 0..r[k]
        BY <4>1, KeptIsPart
      <4> QED
        BY <3>2, <4>1, <4>2
    <3> QED
      BY <3>1, <3>2
  <2> HIDE DEF new
  <2>4. s \in [0..(k + 1) -> Nat] /\ s[0] = u /\ s[k + 1] = new /\ \A i \in 0..k : s[i] = r[i]
    BY <2>2, <2>3
  <2> HIDE DEF s
  <2>5. ASSUME NEW i \in 1..(k + 1) PROVE s[i] = IF i = n THEN 0 ELSE Kept(s[i - 1], p[i])
    <3>1. CASE i = k + 1
      <4>1. s[k] = r[k] /\ i - 1 = k
        BY <2>2, <2>4, <3>1
      <4> QED
        BY <2>4, <3>1, <4>1 DEF new
    <3>2. CASE i # k + 1
      <4>1. i \in 1..k /\ s[i] = r[i] /\ s[i - 1] = r[i - 1]
        BY <2>2, <2>4, <3>2
      <4>2. r[i] = IF i = n THEN 0 ELSE Kept(r[i - 1], p[i])
        BY <2>1, <4>1 DEF Leaves
      <4> QED
        BY <4>1, <4>2
    <3> QED
      BY <3>1, <3>2
  <2>6. Leaves(s, n, u, p, k + 1)
    BY <2>4, <2>5 DEF Leaves
  <2> QED
    BY <2>6
<1>3. Nat \subseteq P
  <2> HIDE DEF P
  <2> QED
    BY <1>1, <1>2, InductionOnSet
<1> QED
  BY <1>3

\* The recursive function is defined, and never goes up.
LEMMA RemainingFacts ==
  ASSUME NEW n \in Nat \ {0}, NEW u \in Nat, NEW p \in [1..(n - 1) -> Int],
         NEW r, r = Sequential!remaining(n, u, p)
  PROVE  /\ r \in [0..n -> Nat] /\ r[0] = u /\ r[n] = 0
         /\ \A i \in 1..n : r[i] <= r[i - 1]
         /\ \A i \in 0..n : r[i] <= u
<1> DEFINE Rec(f) == f = [i \in 0..n |-> IF i = 0 THEN u ELSE IF i = n THEN 0
                            ELSE (f[i - 1] * Sequential!Factor(p[i])) \div PowOne]
<1>1. \E f : Rec(f)
  <2>1. PICK f : Leaves(f, n, u, p, n)
    BY LeavesExists
  <2>2. f \in [0..n -> Nat] /\ f[0] = u
    BY <2>1 DEF Leaves
  <2>3. \A i \in 1..n : f[i] = IF i = n THEN 0 ELSE (f[i - 1] * Sequential!Factor(p[i])) \div PowOne
    BY <2>1 DEF Leaves, Kept
  <2>4. Rec(f)
    BY <2>2, <2>3
  <2> QED
    BY <2>4
<1>2. Rec(r)
  BY <1>1 DEF Sequential!remaining
<1>3. r[0] = u /\ r[n] = 0 /\ r = [i \in 0..n |-> r[i]]
      /\ \A i \in 1..n : i # n => r[i] = Kept(r[i - 1], p[i])
  BY <1>2 DEF Kept
<1> HIDE DEF Rec
<1> DEFINE P == {k \in Nat : k <= n => r[k] \in 0..u /\ (k # 0 => r[k] <= r[k - 1])}
<1>4. 0 \in P
  BY <1>3
<1>5. ASSUME NEW k \in P PROVE k + 1 \in P
  <2> SUFFICES ASSUME k + 1 <= n PROVE r[k + 1] \in 0..u /\ r[k + 1] <= r[k]
    OBVIOUS
  <2>1. k \in Nat /\ r[k] \in Nat /\ r[k] <= u
    OBVIOUS
  <2>2. CASE k + 1 = n
    BY <1>3, <2>1, <2>2
  <2>3. CASE k + 1 # n
    <3>1. k + 1 \in 1..n /\ (k + 1) - 1 = k /\ p[k + 1] \in Int
      BY <2>1, <2>3
    <3>2. r[k + 1] = Kept(r[k], p[k + 1])
      BY <1>3, <2>3, <3>1
    <3>3. Kept(r[k], p[k + 1]) \in 0..r[k]
      BY <2>1, <3>1, KeptIsPart
    <3> DEFINE new == r[k + 1]
    <3>4. new \in 0..r[k]
      BY <3>2, <3>3
    <3> HIDE DEF new
    <3>5. new \in Nat /\ new <= r[k] /\ new <= u
      BY <2>1, <3>4
    <3> QED
      BY <2>1, <3>5 DEF new
  <2> QED
    BY <2>2, <2>3
<1>6. Nat \subseteq P
  <2> HIDE DEF P
  <2> QED
    BY <1>4, <1>5, InductionOnSet
<1>7. \A i \in 0..n : r[i] \in Nat /\ r[i] <= u /\ (i # 0 => r[i] <= r[i - 1])
  BY <1>6
<1>8. r \in [0..n -> Nat]
  BY <1>3, <1>7
<1>9. \A i \in 1..n : i \in 0..n /\ i # 0
  OBVIOUS
<1> QED
  BY <1>3, <1>7, <1>8, <1>9

\* uunifast shares out u among n tasks: no share is negative or more than u, and
\* together they are u.
LEMMA UUniFastFacts ==
  ASSUME NEW n \in Nat \ {0}, NEW u \in Nat, NEW p \in [1..(n - 1) -> Int],
         NEW out, out = Sequential!uunifast(n, u, p)
  PROVE  /\ out \in [1..n -> Int] /\ \A i \in 1..n : out[i] \in 0..u
         /\ SumFunction(out) = u
<1> DEFINE r == Sequential!remaining(n, u, p)
<1>1. /\ r \in [0..n -> Nat] /\ r[0] = u /\ r[n] = 0
      /\ \A i \in 1..n : r[i] <= r[i - 1]
      /\ \A i \in 0..n : r[i] <= u
  BY RemainingFacts
<1>2. out = [i \in 1..n |-> r[i - 1] - r[i]]
  BY DEF Sequential!uunifast
<1> HIDE DEF r
<1>3. \A i \in 1..n : out[i] \in 0..u
  <2> SUFFICES ASSUME NEW i \in 1..n PROVE r[i - 1] - r[i] \in 0..u
    BY <1>2
  <2>1. r[i] \in Nat /\ r[i - 1] \in Nat /\ r[i] <= r[i - 1] /\ r[i - 1] <= u
    BY <1>1
  <2> QED
    BY <2>1
<1>4. out \in [1..n -> Int]
  BY <1>2, <1>3
<1>5. SumFunction(out) = r[0] - r[n]
  <2>1. r \in [0..n -> Int]
    BY <1>1
  <2> QED
    BY <1>2, <2>1, SumTelescopes
<1> QED
  BY <1>1, <1>3, <1>4, <1>5

-----------------------------------------------------------------------------
(* Task sets. *)

\* A function on 1..n is a sequence of n elements,
LEMMA SequenceOf ==
  ASSUME NEW T, NEW n \in Nat, NEW f \in [1..n -> T]
  PROVE  f \in Seq(T) /\ Len(f) = n /\ DOMAIN f = 1..n
OBVIOUS

\* and a sequence is a function on 1..Len(s).
LEMMA SequenceParts ==
  ASSUME NEW T, NEW s \in Seq(T)
  PROVE  Len(s) \in Nat /\ DOMAIN s = 1..Len(s) /\ s \in [1..Len(s) -> T]
OBVIOUS

\* What qsort leaves is what it was given, rearranged.
LEMMA SortedFacts ==
  ASSUME NEW s, NEW key, NEW g \in Sequential!Sorted(s, key)
  PROVE  \E q \in Bijection(DOMAIN s, DOMAIN s) : g = [i \in DOMAIN s |-> s[q[i]]]
BY SameBijection DEF Sequential!Sorted

SeqTask == [wcet : Nat, utilization : 0..Whole, deadline : Nat]

\* A period is a number, whatever utilization it is derived from.
LEMMA PeriodIsNatural ==
  ASSUME NEW w \in Nat, NEW u \in 0..Whole
  PROVE  Sequential!Period(w, u) \in Nat
<1>1. u > Low => (w * Whole) \div u \in Nat
  <2> SUFFICES ASSUME u > Low PROVE (w * Whole) \div u \in Nat
    OBVIOUS
  <2>1. u \in Nat \ {0} /\ u <= Whole
    BY OptionFacts
  <2> QED
    BY <2>1, OptionFacts, WholeOver
<1> QED
  BY <1>1, OptionFacts DEF Sequential!Period, Sequential!Least

\* No gradient has a target above 1.0: the last step does not pass the end.
LEMMA TargetInRange ==
  ASSUME gradient_idx \in Nat, gradient_idx < Sequential!num_gradients
  PROVE  Sequential!target_u \in Nat /\ Sequential!target_u <= Whole
<1> DEFINE span == UtilEnd - UtilStart
           steps == span \div UtilStep
<1>1. span \in Nat
  BY OptionFacts
<1> HIDE DEF span
<1>2. steps \in Nat /\ steps * UtilStep <= span
  BY <1>1, OptionFacts, DivFacts
<1> HIDE DEF steps
<1>3. gradient_idx < steps + 1
  <2>1. Sequential!num_gradients <= steps + 1 /\ Sequential!num_gradients \in Int
    BY <1>2, OptionFacts DEF Sequential!num_gradients, steps, span, Sequential!Least
  <2> QED
    BY <1>2, <2>1
<1>4. gradient_idx * UtilStep <= steps * UtilStep /\ gradient_idx * UtilStep \in Nat
  BY <1>2, <1>3, OptionFacts, ProductInOrder
<1>5. steps * UtilStep \in Nat
  BY <1>2, OptionFacts
<1> DEFINE off == gradient_idx * UtilStep
           max == steps * UtilStep
<1>6. off \in Nat /\ max \in Nat /\ off <= max /\ max <= span
  BY <1>2, <1>4, <1>5
<1> HIDE DEF off, max
<1>7. UtilStart + off \in Nat /\ UtilStart + off <= Whole
  BY <1>1, <1>6, OptionFacts DEF span
<1> QED
  BY <1>7 DEF Sequential!target_u, off

\* A task set as AssignPeriods leaves it.
TaskSet(s, n, u) ==
  /\ s \in Seq(SeqTask) /\ Len(s) = n
  /\ \A i \in 1..n : /\ s[i].utilization \in 0..u
                     /\ s[i].deadline = Sequential!Period(s[i].wcet, s[i].utilization)
  /\ SumFunction([i \in 1..n |-> s[i].utilization]) = u

\* What uunifast and a qsort make of a target is a task set for that target.
LEMMA AssignedFacts ==
  ASSUME NEW n \in Nat \ {0}, tasks \in Seq(SeqTask), Len(tasks) = n,
         NEW u \in Nat, u <= Whole, NEW p \in [1..(n - 1) -> PowResults],
         NEW out, out = Sequential!uunifast(n, u, p), NEW g \in Sequential!Sorted(out, out),
         Sequential!AssignPeriods(g)
  PROVE  TaskSet(tasks', n, u)
<1>1. p \in [1..(n - 1) -> Int]
  BY SequentialAssumption
<1>2. /\ out \in [1..n -> Int] /\ \A i \in 1..n : out[i] \in 0..u
      /\ SumFunction(out) = u
  BY <1>1, UUniFastFacts
<1>3. PICK q \in Bijection(1..n, 1..n) : g = [i \in 1..n |-> out[q[i]]]
  <2>1. DOMAIN out = 1..n
    BY <1>2
  <2> QED
    BY <2>1, SortedFacts
<1>4. q \in [1..n -> 1..n] /\ g \in [1..n -> Int]
  <2>1. q \in [1..n -> 1..n]
    BY DEF Bijection, Injection
  <2> QED
    BY <1>2, <1>3, <2>1
<1>5. \A i \in 1..n : g[i] \in 0..u
  BY <1>2, <1>3, <1>4
<1>6. SumFunction(g) = u
  <2> DEFINE S == 1..n
  <2>1. IsFiniteSet(S) /\ out \in [S -> Int]
    BY <1>2, FS_Interval
  <2>3. Rearranges(g, out, S)
    BY <1>3, Zenon DEF Rearranges
  <2> HIDE DEF S
  <2>2. SumFunction(g) = SumFunction(out)
    BY <2>1, <2>3, SumRearranged, Zenon
  <2> QED
    BY <1>2, <2>1, <2>2
<1>7. \A i \in 1..n : Sequential!Sanitized(g[i]) = g[i]
  <2> SUFFICES ASSUME NEW i \in 1..n PROVE Sequential!Sanitized(g[i]) = g[i]
    OBVIOUS
  <2>1. g[i] \in Nat /\ g[i] <= Whole
    BY <1>5, OptionFacts
  <2> QED
    BY <2>1, OptionFacts DEF Sequential!Sanitized, Sequential!Least
<1>8. \A i \in 1..n : tasks[i] \in SeqTask
  BY SequenceParts
<1> DEFINE s == [i \in 1..n |-> [tasks[i] EXCEPT !.utilization = g[i],
                                  !.deadline = Sequential!Period(tasks[i].wcet, g[i])]]
<1>9. tasks' = s
  <2>1. DOMAIN tasks = 1..n
    BY SequenceParts
  <2> QED
    BY <2>1, <1>7 DEF Sequential!AssignPeriods
<1>10. ASSUME NEW i \in 1..n
       PROVE  /\ s[i] \in SeqTask /\ s[i].utilization = g[i]
              /\ s[i].deadline = Sequential!Period(s[i].wcet, g[i])
  <2>1. tasks[i] \in SeqTask /\ g[i] \in 0..Whole
    BY <1>5, <1>8, OptionFacts
  <2>2. tasks[i].wcet \in Nat
    BY <2>1 DEF SeqTask
  <2>3. Sequential!Period(tasks[i].wcet, g[i]) \in Nat
    BY <2>1, <2>2, PeriodIsNatural
  <2> DEFINE d == Sequential!Period(tasks[i].wcet, g[i])
  <2>4. s[i] = [tasks[i] EXCEPT !.utilization = g[i], !.deadline = d]
    OBVIOUS
  <2> HIDE DEF s
  <2>5. s[i].wcet = tasks[i].wcet /\ s[i].utilization = g[i] /\ s[i].deadline = d
    BY <2>1, <2>4 DEF SeqTask
  <2>6. s[i] \in SeqTask
    BY <2>1, <2>3, <2>4 DEF SeqTask
  <2> QED
    BY <2>5, <2>6
<1> HIDE DEF s
<1>11. s \in [1..n -> SeqTask]
  BY <1>10 DEF s
<1>12. s \in Seq(SeqTask) /\ Len(s) = n
  BY <1>11, SequenceOf
<1>13. [i \in 1..n |-> s[i].utilization] = g
  BY <1>4, <1>10
<1>14. \A i \in 1..n : s[i].utilization \in 0..u
         /\ s[i].deadline = Sequential!Period(s[i].wcet, s[i].utilization)
  BY <1>5, <1>10
<1> QED
  BY <1>6, <1>9, <1>12, <1>13, <1>14 DEF TaskSet

-----------------------------------------------------------------------------
(* The invariant of the sequential mode. *)

JobPlaces == {"exec", "account", "aggregate"}

SequentialTypes ==
  /\ smpc \in {"begin", "measure", "gradient", "returned"} \cup JobPlaces
  /\ next \in Nat \ {0} /\ tasks \in Seq(SeqTask)
  /\ gradient_idx \in 0..Sequential!num_gradients
  /\ response \in Nat /\ failed \in BOOLEAN
  /\ outcome = [g \in 1..MaxGradients |-> outcome[g]]

\* The industrial workloads among the first k of the registry.
Found(k) == Cardinality({i \in 1..k : Registry[i] = "industrial"})

MeasureInv ==
  /\ smpc = "begin" => next = 1 /\ tasks = <<>>
  /\ smpc = "measure" =>
       /\ next <= Len(Registry) + 1 /\ Len(tasks) <= Sequential!num_workloads
       /\ Len(tasks) = Found(next - 1)
  /\ smpc \in {"gradient"} \cup JobPlaces => Len(tasks) = Sequential!Chosen /\ Len(tasks) # 0

TaskSetInv ==
  smpc \in JobPlaces =>
    gradient_idx < Sequential!num_gradients /\ TaskSet(tasks, Len(tasks), Sequential!target_u)

\* The tasks before idx have had all their jobs, those after it none.
JobsInv ==
  smpc \in JobPlaces =>
    /\ stats \in [1..Len(tasks) -> [jobs : Nat, misses : Nat]]
    /\ \A i \in 1..Len(tasks) : stats[i].misses <= stats[i].jobs
    /\ smpc = "aggregate" => \A i \in 1..Len(tasks) : stats[i].jobs = SeqCycles
    /\ smpc # "aggregate" =>
         /\ sidx \in 1..Len(tasks) /\ stats[sidx].jobs < SeqCycles
         /\ \A i \in 1..Len(tasks) : /\ i < sidx => stats[i].jobs = SeqCycles
                                     /\ i > sidx => stats[i].jobs = 0

SequentialInv == SequentialTypes /\ MeasureInv /\ TaskSetInv /\ JobsInv

\* The registry is a sequence of kinds.
LEMMA RegistryFacts ==
  /\ Len(Registry) \in Nat /\ DOMAIN Registry = 1..Len(Registry)
  /\ \A i \in 1..Len(Registry) : Registry[i] \in {"builtin", "excluded", "industrial"}
BY SequentialAssumption

\* No more is found in a part of the registry than in all of it.
LEMMA FoundFacts ==
  ASSUME NEW k \in Nat, k <= Len(Registry)
  PROVE  /\ Found(k) \in Nat
         /\ Found(k) <= Cardinality({i \in DOMAIN Registry : Registry[i] = "industrial"})
         /\ k = Len(Registry) =>
              Found(k) = Cardinality({i \in DOMAIN Registry : Registry[i] = "industrial"})
<1> DEFINE dom == DOMAIN Registry
           part == 1..k
           all == {i \in dom : Registry[i] = "industrial"}
           some == {i \in part : Registry[i] = "industrial"}
<1>1. IsFiniteSet(dom) /\ part \subseteq dom /\ (k = Len(Registry) => part = dom)
  <2>1. IsFiniteSet(dom)
    BY RegistryFacts, FS_Interval
  <2>2. part \subseteq dom
    BY RegistryFacts
  <2>3. k = Len(Registry) => part = dom
    BY RegistryFacts
  <2> QED
    BY <2>1, <2>2, <2>3
<1> HIDE DEF dom, part
<1>2. all \subseteq dom /\ some \subseteq all /\ (k = Len(Registry) => some = all)
  BY <1>1
<1> HIDE DEF all, some
<1>3. IsFiniteSet(all) /\ IsFiniteSet(some)
  BY <1>1, <1>2, FS_Subset
<1>4. Cardinality(some) \in Nat /\ Cardinality(some) <= Cardinality(all)
  BY <1>2, <1>3, FS_CardinalityType, FS_Subset
<1> QED
  BY <1>2, <1>4 DEF Found, all, some, dom, part

\* The next workload is found, or skipped.
LEMMA FoundNext ==
  ASSUME NEW k \in Nat, k < Len(Registry)
  PROVE  Found(k + 1) = Found(k) + (IF Registry[k + 1] = "industrial" THEN 1 ELSE 0)
<1> DEFINE some == {i \in 1..k : Registry[i] = "industrial"}
           more == {i \in 1..(k + 1) : Registry[i] = "industrial"}
<1>1. IsFiniteSet(1..k) /\ k + 1 \notin some /\ some \subseteq 1..k
  BY FS_Interval
<1>2. more = IF Registry[k + 1] = "industrial" THEN some \cup {k + 1} ELSE some
  OBVIOUS
<1> HIDE DEF some, more
<1>3. IsFiniteSet(some)
  BY <1>1, FS_Subset
<1>4. Cardinality(some \cup {k + 1}) = Cardinality(some) + 1 /\ Cardinality(some) \in Nat
  BY <1>1, <1>3, FS_AddElement, FS_CardinalityType
<1>5. Found(k) = Cardinality(some) /\ Found(k + 1) = Cardinality(more)
  BY DEF Found, some, more
<1> QED
  BY <1>2, <1>4, <1>5

\* Nothing is found in nothing.
LEMMA FoundNone == Found(0) = 0
<1>1. {i \in 1..0 : Registry[i] = "industrial"} = {}
  OBVIOUS
<1> QED
  BY <1>1, FS_EmptySet DEF Found

\* Industrial workloads are not builtin.
LEMMA WorkloadFacts ==
  /\ Cardinality({i \in DOMAIN Registry : Registry[i] = "industrial"}) \in Nat
  /\ Cardinality({i \in DOMAIN Registry : Registry[i] # "builtin"}) \in Nat
  /\ Cardinality({i \in DOMAIN Registry : Registry[i] = "industrial"})
       <= Cardinality({i \in DOMAIN Registry : Registry[i] # "builtin"})
<1> DEFINE a == {i \in DOMAIN Registry : Registry[i] = "industrial"}
           b == {i \in DOMAIN Registry : Registry[i] # "builtin"}
<1>1. IsFiniteSet(DOMAIN Registry)
  BY RegistryFacts, FS_Interval
<1>2. b \subseteq DOMAIN Registry /\ a \subseteq b
  OBVIOUS
<1> HIDE DEF a, b
<1>3. IsFiniteSet(b) /\ IsFiniteSet(a)
  BY <1>1, <1>2, FS_Subset
<1>4. Cardinality(a) \in Nat /\ Cardinality(b) \in Nat /\ Cardinality(a) <= Cardinality(b)
  BY <1>2, <1>3, FS_Subset, FS_CardinalityType
<1> QED
  BY <1>4 DEF a, b

\* There is a gradient to run, and room for all.
LEMMA GradientFacts ==
  Sequential!num_gradients \in Nat \ {0} /\ Sequential!num_gradients <= MaxGradients
<1> DEFINE steps == (UtilEnd - UtilStart) \div UtilStep
<1>1. UtilEnd - UtilStart \in Nat
  BY OptionFacts
<1>2. steps \in Nat
  BY <1>1, OptionFacts, DivFacts
<1> HIDE DEF steps
<1> QED
  BY <1>2, OptionFacts DEF Sequential!num_gradients, Sequential!Least, steps

-----------------------------------------------------------------------------

\* The invariant holds at first,
LEMMA SequentialInit == Sequential!Init => SequentialInv
<1> SUFFICES ASSUME Sequential!Init PROVE SequentialInv
  OBVIOUS
<1>1. SequentialTypes
  <2>1. <<>> \in Seq(SeqTask)
    OBVIOUS
  <2>2. outcome = [g \in 1..MaxGradients |-> outcome[g]]
    BY DEF Sequential!Init
  <2>3. 0 \in 0..Sequential!num_gradients
    BY GradientFacts
  <2>4. tasks \in Seq(SeqTask) /\ gradient_idx \in 0..Sequential!num_gradients
    BY <2>1, <2>3 DEF Sequential!Init
  <2>5. smpc = "begin" /\ next = 1 /\ response = 0 /\ failed = FALSE
    BY DEF Sequential!Init
  <2>6. next \in Nat \ {0} /\ response \in Nat /\ failed \in BOOLEAN
    <3>1. 1 \in Nat \ {0} /\ 0 \in Nat /\ FALSE \in BOOLEAN
      OBVIOUS
    <3> QED
      BY <2>5, <3>1, Zenon
  <2>7. smpc \in {"begin", "measure", "gradient", "returned"} \cup JobPlaces
    BY <2>5
  <2> QED
    BY <2>2, <2>4, <2>6, <2>7, Zenon DEF SequentialTypes
<1> QED
  BY <1>1 DEF Sequential!Init, SequentialInv, MeasureInv, TaskSetInv, JobsInv, JobPlaces

\* and whatever the command does: the arrays are allocated,
LEMMA BeginInv == SequentialInv /\ Sequential!Begin => SequentialInv'
<1> SUFFICES ASSUME SequentialInv, Sequential!Begin PROVE SequentialInv'
  OBVIOUS
<1>1. smpc = "begin" /\ smpc' \in {"measure", "returned"}
      /\ UNCHANGED <<next, tasks, gradient_idx, sidx, stats, response, failed, outcome>>
  BY DEF Sequential!Begin, Sequential!jobVars
<1>2. SequentialTypes'
  BY <1>1 DEF SequentialInv, SequentialTypes
<1>3. smpc' = "measure" =>
        /\ Len(tasks) <= Sequential!num_workloads /\ Len(tasks) = Found(next - 1)
        /\ next <= Len(Registry) + 1
  <2>1. next = 1 /\ Len(tasks) = 0
    BY <1>1 DEF SequentialInv, MeasureInv
  <2>2. Sequential!num_workloads \in Nat
    BY SameCount, WorkloadFacts, OptionFacts DEF Sequential!num_workloads, Sequential!Least
  <2> QED
    BY <2>1, <2>2, FoundNone, RegistryFacts
<1>4. MeasureInv'
  BY <1>1, <1>3 DEF MeasureInv, JobPlaces, Found, Sequential!num_workloads
<1> QED
  BY <1>1, <1>2, <1>4 DEF SequentialInv, TaskSetInv, JobsInv, JobPlaces

\* a workload is measured or skipped,
LEMMA MeasureNextInv == SequentialInv /\ Sequential!MeasureNext => SequentialInv'
<1> SUFFICES ASSUME SequentialInv, Sequential!MeasureNext PROVE SequentialInv'
  OBVIOUS
<1>1. /\ smpc = "measure" /\ smpc' = smpc /\ next' = next + 1
      /\ UNCHANGED <<gradient_idx, sidx, stats, response, failed, outcome>>
      /\ next <= Len(Registry) /\ Len(tasks) < Sequential!num_workloads
  BY DEF Sequential!MeasureNext, Sequential!jobVars, Sequential!Scanning
<1>2. /\ next \in Nat \ {0} /\ tasks \in Seq(SeqTask) /\ Len(tasks) \in Nat
      /\ Len(tasks) = Found(next - 1)
  BY <1>1 DEF SequentialInv, SequentialTypes, MeasureInv
<1>3. Found(next) = Found(next - 1) + (IF Registry[next] = "industrial" THEN 1 ELSE 0)
  <2> DEFINE k == next - 1
  <2>1. k \in Nat /\ k < Len(Registry) /\ k + 1 = next
    BY <1>1, <1>2, RegistryFacts
  <2> HIDE DEF k
  <2>2. Found(k + 1) = Found(k) + (IF Registry[k + 1] = "industrial" THEN 1 ELSE 0)
    BY <2>1, FoundNext
  <2> QED
    BY <2>1, <2>2 DEF k
<1>4. /\ tasks' \in Seq(SeqTask) /\ Len(tasks') = Found(next)
      /\ Len(tasks') <= Sequential!num_workloads
  <2>0. Sequential!num_workloads \in Nat
    BY SameCount, WorkloadFacts, OptionFacts DEF Sequential!num_workloads, Sequential!Least
  <2>1. CASE Registry[next] = "industrial"
    <3>1. PICK w \in Durations :
            tasks' = Append(tasks, [wcet |-> w, utilization |-> 0, deadline |-> 0])
      BY <2>1 DEF Sequential!MeasureNext
    <3>2. [wcet |-> w, utilization |-> 0, deadline |-> 0] \in SeqTask
      BY SequentialAssumption, OptionFacts DEF SeqTask
    <3>3. tasks' \in Seq(SeqTask) /\ Len(tasks') = Len(tasks) + 1
      BY <1>2, <3>1, <3>2
    <3> QED
      BY <1>1, <1>2, <1>3, <2>0, <2>1, <3>3
  <2>2. CASE Registry[next] # "industrial"
    <3>1. tasks' = tasks
      BY <2>2 DEF Sequential!MeasureNext
    <3> QED
      BY <1>1, <1>2, <1>3, <2>0, <2>2, <3>1
  <2> QED
    BY <2>1, <2>2
<1>5. SequentialTypes'
  BY <1>1, <1>2, <1>4 DEF SequentialInv, SequentialTypes
<1>6. MeasureInv'
  <2>1. next' - 1 = next /\ next' <= Len(Registry) + 1
    BY <1>1, <1>2, RegistryFacts
  <2> QED
    BY <1>1, <1>4, <2>1 DEF MeasureInv, JobPlaces, Found, Sequential!num_workloads
<1> QED
  BY <1>1, <1>5, <1>6 DEF SequentialInv, TaskSetInv, JobsInv, JobPlaces

\* Lengths are compared with counts: at the end of the loop both are the same.
LEMMA AllChosen ==
  ASSUME next \in Nat \ {0}, next <= Len(Registry) + 1, Len(tasks) \in Nat,
         Len(tasks) <= Sequential!num_workloads, Len(tasks) = Found(next - 1),
         ~Sequential!Scanning
  PROVE  Len(tasks) = Sequential!Chosen
<1> DEFINE k == next - 1
           industrial == Cardinality({i \in DOMAIN Registry : Registry[i] = "industrial"})
           counted == Cardinality({i \in DOMAIN Registry : Registry[i] # "builtin"})
<1>1. k \in Nat /\ k <= Len(Registry) /\ k + 1 = next
  BY RegistryFacts
<1>2. Len(tasks) = Found(k)
  OBVIOUS
<1> HIDE DEF k
<1>3. Found(k) <= industrial /\ (k = Len(Registry) => Found(k) = industrial)
  BY <1>1, FoundFacts
<1>4. industrial \in Nat /\ counted \in Nat /\ industrial <= counted
  BY WorkloadFacts
<1>5. Sequential!num_workloads = Sequential!Least(MaxTasks, counted)
      /\ Sequential!Chosen = Sequential!Least(MaxTasks, industrial)
  BY SameCount DEF Sequential!num_workloads, Sequential!Chosen
<1> HIDE DEF industrial, counted
<1>6. CASE k = Len(Registry)
  BY <1>2, <1>3, <1>4, <1>5, <1>6, OptionFacts DEF Sequential!Least
<1>7. CASE k # Len(Registry)
  <2>1. next <= Len(Registry)
    <3>1. Len(Registry) \in Nat
      BY RegistryFacts
    <3>2. k < Len(Registry)
      BY <1>1, <1>7, <3>1
    <3> QED
      BY <1>1, <3>1, <3>2
  <2>2. Len(tasks) >= Sequential!num_workloads
    <3>1. ~(Len(tasks) < Sequential!num_workloads)
      BY <2>1 DEF Sequential!Scanning
    <3>2. Sequential!num_workloads \in Nat
      BY <1>4, <1>5, OptionFacts DEF Sequential!Least
    <3> QED
      BY <3>1, <3>2
  <2> QED
    BY <1>2, <1>3, <1>4, <1>5, <2>2, OptionFacts DEF Sequential!Least
<1> QED
  BY <1>6, <1>7

\* the tasks are sorted,
LEMMA SortTasksInv == SequentialInv /\ Sequential!SortTasks => SequentialInv'
<1> SUFFICES ASSUME SequentialInv, Sequential!SortTasks PROVE SequentialInv'
  OBVIOUS
<1>1. /\ smpc = "measure" /\ ~Sequential!Scanning
      /\ smpc' = IF tasks = <<>> THEN "returned" ELSE "gradient"
      /\ UNCHANGED <<next, gradient_idx, sidx, stats, response, failed, outcome>>
  BY DEF Sequential!SortTasks, Sequential!jobVars
<1>2. /\ next \in Nat \ {0} /\ tasks \in Seq(SeqTask) /\ Len(tasks) \in Nat
      /\ next <= Len(Registry) + 1 /\ Len(tasks) <= Sequential!num_workloads
      /\ Len(tasks) = Found(next - 1)
  BY <1>1 DEF SequentialInv, SequentialTypes, MeasureInv
<1>3. Len(tasks) = Sequential!Chosen
  BY <1>1, <1>2, AllChosen
<1>4. tasks' \in Seq(SeqTask) /\ Len(tasks') = Len(tasks)
  <2> DEFINE n == Len(tasks)
  <2>1. n \in Nat /\ DOMAIN tasks = 1..n /\ tasks \in [1..n -> SeqTask]
    BY <1>2, SequenceParts
  <2>2. PICK q \in Bijection(1..n, 1..n) : tasks' = [i \in 1..n |-> tasks[q[i]]]
    BY <2>1, SortedFacts DEF Sequential!SortTasks
  <2> HIDE DEF n
  <2>3. q \in [1..n -> 1..n]
    BY DEF Bijection, Injection
  <2>4. tasks' \in [1..n -> SeqTask]
    BY <2>1, <2>2, <2>3
  <2>5. tasks' \in Seq(SeqTask) /\ Len(tasks') = n
    BY <2>1, <2>4, SequenceOf
  <2> QED
    BY <2>5 DEF n
<1>5. smpc' = "gradient" => Len(tasks') # 0
  BY <1>1, <1>2, <1>4
<1>6. SequentialTypes'
  BY <1>1, <1>4 DEF SequentialInv, SequentialTypes
<1>7. MeasureInv'
  BY <1>1, <1>3, <1>4, <1>5 DEF MeasureInv, JobPlaces, Sequential!Chosen
<1> QED
  BY <1>1, <1>6, <1>7 DEF SequentialInv, TaskSetInv, JobsInv, JobPlaces

\* A gradient published is one more, and the others stand.
LEMMA PublishFacts ==
  ASSUME SequentialTypes, gradient_idx < Sequential!num_gradients, NEW o, Sequential!Publish(o)
  PROVE  /\ gradient_idx' \in 0..Sequential!num_gradients /\ gradient_idx' = gradient_idx + 1
         /\ gradient_idx + 1 \in 1..MaxGradients
         /\ outcome' = [g \in 1..MaxGradients |-> outcome'[g]]
         /\ \A g \in 1..MaxGradients :
              outcome'[g] = IF g = gradient_idx + 1 THEN o ELSE outcome[g]
<1>1. outcome' = [outcome EXCEPT ![gradient_idx + 1] = o] /\ gradient_idx' = gradient_idx + 1
  BY DEF Sequential!Publish
<1>2. /\ outcome = [g \in 1..MaxGradients |-> outcome[g]]
      /\ gradient_idx \in 0..Sequential!num_gradients
  BY DEF SequentialTypes
<1>3. gradient_idx + 1 \in 1..MaxGradients /\ gradient_idx + 1 \in 0..Sequential!num_gradients
  BY <1>2, GradientFacts, OptionFacts
<1>4. DOMAIN outcome = 1..MaxGradients
  BY <1>2
<1>5. DOMAIN outcome' = 1..MaxGradients
      /\ outcome' = [g \in DOMAIN outcome |-> IF g = gradient_idx + 1 THEN o ELSE outcome[g]]
  BY <1>1, <1>4
<1> QED
  BY <1>1, <1>3, <1>4, <1>5

\* a task set is generated,
LEMMA StartGradientInv == SequentialInv /\ Sequential!StartGradient => SequentialInv'
<1> SUFFICES ASSUME SequentialInv, Sequential!StartGradient PROVE SequentialInv'
  OBVIOUS
<1> DEFINE n == Len(tasks)
           u == Sequential!target_u
<1>1. smpc = "gradient" /\ gradient_idx < Sequential!num_gradients /\ UNCHANGED next
  BY DEF Sequential!StartGradient
<1>2. /\ SequentialTypes /\ tasks \in Seq(SeqTask) /\ n \in Nat \ {0} /\ n = Sequential!Chosen
      /\ gradient_idx \in Nat
  <2>1. SequentialTypes /\ tasks \in Seq(SeqTask) /\ n # 0 /\ n = Sequential!Chosen
        /\ gradient_idx \in 0..Sequential!num_gradients
    BY <1>1 DEF SequentialInv, SequentialTypes, MeasureInv
  <2> QED
    BY <2>1, SequenceParts
<1>3. u \in Nat /\ u <= Whole
  BY <1>1, <1>2, TargetInRange
<1>4. PICK p \in [1..(n - 1) -> PowResults] :
        LET output_u == Sequential!uunifast(n, u, p)
        IN \E generated_u \in Sequential!Sorted(output_u, output_u) :
             Sequential!AssignPeriods(generated_u)
  BY DEF Sequential!StartGradient
<1>5. PICK g \in Sequential!Sorted(Sequential!uunifast(n, u, p), Sequential!uunifast(n, u, p)) :
        Sequential!AssignPeriods(g)
  BY <1>4
<1>6. TaskSet(tasks', n, u)
  <2> DEFINE out == Sequential!uunifast(n, u, p)
  <2>1. out = Sequential!uunifast(n, u, p) /\ g \in Sequential!Sorted(out, out)
    BY <1>5
  <2>2. Len(tasks) = n
    OBVIOUS
  <2> HIDE DEF out, n, u
  <2> QED
    BY <1>2, <1>3, <1>4, <1>5, <2>1, <2>2, AssignedFacts
<1>7. tasks' \in Seq(SeqTask) /\ Len(tasks') = n
  BY <1>6 DEF TaskSet
<1>8. Len(tasks') = Sequential!Chosen /\ Len(tasks') # 0
  BY <1>2, <1>7
<1>9. CASE /\ smpc' = "exec" /\ sidx' = 1 /\ ssuppress' = TRUE /\ Sequential!ResetStats
           /\ UNCHANGED <<gradient_idx, response, failed, outcome>>
  <2>1. SequentialTypes'
    BY <1>1, <1>2, <1>7, <1>9 DEF SequentialTypes, JobPlaces, Sequential!num_gradients
  <2>2. MeasureInv'
    BY <1>8, <1>9 DEF MeasureInv, JobPlaces, Sequential!Chosen
  <2>3. TaskSetInv'
    BY <1>1, <1>6, <1>7, <1>9 DEF TaskSetInv, Sequential!num_gradients, Sequential!target_u
  <2>4. JobsInv'
    <3> DEFINE m == Len(tasks')
               none == [i \in 1..m |-> [jobs |-> 0, misses |-> 0]]
    <3>1. stats' = none
      <4>1. DOMAIN tasks = 1..n
        BY <1>2, SequenceParts
      <4> QED
        BY <1>7, <1>9, <4>1 DEF Sequential!ResetStats
    <3>2. m \in Nat \ {0}
      BY <1>2, <1>7
    <3>3. smpc' = "exec" /\ sidx' = 1
      BY <1>9
    <3> HIDE DEF m
    <3>4. \A i \in 1..m : none[i].jobs = 0 /\ none[i].misses = 0
      OBVIOUS
    <3>5. none \in [1..m -> [jobs : Nat, misses : Nat]]
      OBVIOUS
    <3>6. SeqCycles > 0 /\ 1 \in 1..m
      BY <3>2, OptionFacts
    <3> HIDE DEF none
    <3>7. \A i \in 1..m : stats'[i].misses <= stats'[i].jobs
      BY <3>1, <3>4
    <3>8. sidx' \in 1..m /\ stats'[sidx'].jobs < SeqCycles
      BY <3>1, <3>3, <3>4, <3>6
    <3>9. \A i \in 1..m : /\ i < sidx' => stats'[i].jobs = SeqCycles
                          /\ i > sidx' => stats'[i].jobs = 0
      BY <3>1, <3>2, <3>3, <3>4
    <3> QED
      BY <3>1, <3>3, <3>5, <3>7, <3>8, <3>9 DEF JobsInv, m
  <2> QED
    BY <2>1, <2>2, <2>3, <2>4 DEF SequentialInv
<1>10. CASE /\ Sequential!Publish([status |-> "failed", jobs |-> 0, misses |-> 0])
            /\ UNCHANGED <<smpc, ssuppress, sidx, stats, response, failed>>
  <2> DEFINE o == [status |-> "failed", jobs |-> 0, misses |-> 0]
  <2>1. Sequential!Publish(o)
    BY <1>10
  <2> HIDE DEF o
  <2>2. gradient_idx' \in 0..Sequential!num_gradients
        /\ outcome' = [g1 \in 1..MaxGradients |-> outcome'[g1]]
    BY <1>1, <1>2, <2>1, PublishFacts
  <2>3. SequentialTypes'
    BY <1>1, <1>2, <1>7, <1>10, <2>2 DEF SequentialTypes, Sequential!num_gradients
  <2>4. MeasureInv'
    BY <1>1, <1>8, <1>10 DEF MeasureInv, Sequential!Chosen, JobPlaces
  <2> QED
    BY <1>1, <1>10, <2>3, <2>4 DEF SequentialInv, TaskSetInv, JobsInv, JobPlaces
<1> QED
  BY <1>9, <1>10 DEF Sequential!StartGradient, Sequential!jobVars

\* a job runs,
LEMMA ExecInv == SequentialInv /\ Sequential!Exec => SequentialInv'
<1> SUFFICES ASSUME SequentialInv, Sequential!Exec PROVE SequentialInv'
  OBVIOUS
<1>1. /\ smpc = "exec" /\ smpc' = "account" /\ response' \in Durations /\ failed' \in BOOLEAN
      /\ UNCHANGED <<next, tasks, gradient_idx, sidx, stats, outcome>>
  BY DEF Sequential!Exec
<1>2. response' \in Nat
  BY <1>1, SequentialAssumption
<1>3. SequentialTypes'
  BY <1>1, <1>2 DEF SequentialInv, SequentialTypes, JobPlaces, Sequential!num_gradients
<1>4. MeasureInv'
  BY <1>1 DEF SequentialInv, MeasureInv, JobPlaces, Sequential!Chosen
<1>5. TaskSetInv'
  BY <1>1 DEF SequentialInv, TaskSetInv, JobPlaces, Sequential!num_gradients, Sequential!target_u
<1>6. JobsInv'
  BY <1>1 DEF SequentialInv, JobsInv, JobPlaces
<1> QED
  BY <1>3, <1>4, <1>5, <1>6 DEF SequentialInv

\* The statistics after a job: those of the task at hand count it.
LEMMA AccountFacts ==
  ASSUME SequentialInv, Sequential!Account
  PROVE  /\ smpc = "account" /\ sidx \in 1..Len(tasks)
         /\ stats \in [1..Len(tasks) -> [jobs : Nat, misses : Nat]]
         /\ stats' \in [1..Len(tasks) -> [jobs : Nat, misses : Nat]]
         /\ stats'[sidx].jobs = stats[sidx].jobs + 1
         /\ stats'[sidx].misses = stats[sidx].misses + (IF Sequential!Missed THEN 1 ELSE 0)
         /\ \A i \in 1..Len(tasks) : i # sidx => stats'[i] = stats[i]
<1>1. smpc = "account"
      /\ stats' = [stats EXCEPT ![sidx].jobs = @ + 1,
                                ![sidx].misses = IF Sequential!Missed THEN @ + 1 ELSE @]
  BY DEF Sequential!Account
<1> DEFINE n == Len(tasks)
<1>2. sidx \in 1..n /\ stats \in [1..n -> [jobs : Nat, misses : Nat]]
  BY <1>1 DEF SequentialInv, JobsInv, JobPlaces
<1> HIDE DEF n
<1> DEFINE j == stats[sidx].jobs
           m == stats[sidx].misses
           more == m + (IF Sequential!Missed THEN 1 ELSE 0)
<1>3. stats[sidx] \in [jobs : Nat, misses : Nat] /\ j \in Nat /\ m \in Nat
  BY <1>2
<1>4. more \in Nat /\ (IF Sequential!Missed THEN m + 1 ELSE m) = more
  BY <1>3
<1>5. stats' = [stats EXCEPT ![sidx] = [jobs |-> j + 1, misses |-> more]]
  <2> DEFINE h == [stats EXCEPT ![sidx].jobs = @ + 1]
             k == IF Sequential!Missed THEN h[sidx].misses + 1 ELSE h[sidx].misses
  <2>1. h = [stats EXCEPT ![sidx] = [stats[sidx] EXCEPT !.jobs = stats[sidx].jobs + 1]]
    OBVIOUS
  <2>2. h[sidx] = [jobs |-> j + 1, misses |-> m] /\ DOMAIN h = 1..n
        /\ \A y \in 1..n : y # sidx => h[y] = stats[y]
    BY <1>2, <1>3, <2>1
  <2>3. stats' = [h EXCEPT ![sidx].misses = k]
    BY <1>1
  <2>4. k = more
    BY <1>4, <2>2
  <2> HIDE DEF h, k
  <2>5. stats' = [h EXCEPT ![sidx] = [h[sidx] EXCEPT !.misses = k]]
    BY <2>3
  <2>6. [h[sidx] EXCEPT !.misses = k] = [jobs |-> j + 1, misses |-> more]
    BY <2>2, <2>4
  <2> HIDE DEF j, more
  <2> QED
    BY <1>2, <2>2, <2>5, <2>6
<1>6. [jobs |-> j + 1, misses |-> more] \in [jobs : Nat, misses : Nat]
  BY <1>3, <1>4
<1>7. /\ stats' \in [1..n -> [jobs : Nat, misses : Nat]]
      /\ stats'[sidx] = [jobs |-> j + 1, misses |-> more]
      /\ \A i \in 1..n : i # sidx => stats'[i] = stats[i]
  BY <1>2, <1>5, <1>6
<1> QED
  BY <1>1, <1>2, <1>7 DEF n

\* a job is counted,
LEMMA AccountInv == SequentialInv /\ Sequential!Account => SequentialInv'
<1> SUFFICES ASSUME SequentialInv, Sequential!Account PROVE SequentialInv'
  OBVIOUS
<1> DEFINE n == Len(tasks)
<1>1. /\ smpc = "account"
      /\ IF stats[sidx].jobs + 1 < SeqCycles
           THEN smpc' = "exec" /\ UNCHANGED sidx
           ELSE /\ smpc' = IF sidx < n THEN "exec" ELSE "aggregate"
                /\ sidx' = IF sidx < n THEN sidx + 1 ELSE 1
      /\ response' = 0 /\ failed' = FALSE
      /\ UNCHANGED <<next, tasks, gradient_idx, outcome>>
  BY DEF Sequential!Account
<1>2. smpc' \in {"exec", "aggregate"}
  BY <1>1
<1>3. SequentialTypes'
  <2>1. response' \in Nat /\ failed' \in BOOLEAN
    <3>1. 0 \in Nat /\ FALSE \in BOOLEAN
      OBVIOUS
    <3> QED
      BY <1>1, <3>1, Zenon
  <2> QED
    BY <1>1, <1>2, <2>1 DEF SequentialInv, SequentialTypes, JobPlaces, Sequential!num_gradients
<1>4. MeasureInv'
  BY <1>1, <1>2 DEF SequentialInv, MeasureInv, JobPlaces, Sequential!Chosen
<1>5. TaskSetInv'
  BY <1>1 DEF SequentialInv, TaskSetInv, JobPlaces, Sequential!num_gradients, Sequential!target_u
<1>6. JobsInv'
  <2>1. /\ n \in Nat /\ sidx \in 1..n
        /\ stats \in [1..n -> [jobs : Nat, misses : Nat]]
        /\ stats' \in [1..n -> [jobs : Nat, misses : Nat]]
        /\ stats'[sidx].jobs = stats[sidx].jobs + 1
        /\ stats'[sidx].misses = stats[sidx].misses + (IF Sequential!Missed THEN 1 ELSE 0)
        /\ \A i \in 1..n : i # sidx => stats'[i] = stats[i]
    <3>1. n \in Nat
      BY SequenceParts DEF SequentialInv, SequentialTypes
    <3> QED
      BY <3>1, AccountFacts
  <2>2. /\ \A i \in 1..n : stats[i].misses <= stats[i].jobs
        /\ stats[sidx].jobs < SeqCycles
        /\ \A i \in 1..n : /\ i < sidx => stats[i].jobs = SeqCycles
                           /\ i > sidx => stats[i].jobs = 0
    BY <1>1 DEF SequentialInv, JobsInv, JobPlaces
  <2>3. Len(tasks') = n
    BY <1>1
  <2> HIDE DEF n
  <2>4. \A i \in 1..n : stats[i].jobs \in Nat /\ stats[i].misses \in Nat
    BY <2>1
  <2>5. \A i \in 1..n : stats'[i].misses <= stats'[i].jobs
    <3> SUFFICES ASSUME NEW i \in 1..n PROVE stats'[i].misses <= stats'[i].jobs
      OBVIOUS
    <3>1. CASE i = sidx
      BY <2>1, <2>2, <2>4, <3>1
    <3>2. CASE i # sidx
      BY <2>1, <2>2, <3>2
    <3> QED
      BY <3>1, <3>2
  <2>6. CASE stats[sidx].jobs + 1 < SeqCycles
    <3>1. smpc' = "exec" /\ sidx' = sidx
      BY <1>1, <2>6
    <3>2. \A i \in 1..n : /\ i < sidx => stats'[i].jobs = SeqCycles
                          /\ i > sidx => stats'[i].jobs = 0
      BY <2>1, <2>2
    <3> QED
      BY <2>1, <2>3, <2>5, <2>6, <3>1, <3>2 DEF JobsInv
  <2>7. CASE ~(stats[sidx].jobs + 1 < SeqCycles)
    <3>1. /\ smpc' = (IF sidx < n THEN "exec" ELSE "aggregate")
          /\ sidx' = (IF sidx < n THEN sidx + 1 ELSE 1)
      BY <1>1, <2>7 DEF n
    <3>2. stats'[sidx].jobs = SeqCycles
      BY <2>1, <2>2, <2>4, <2>7, OptionFacts
    <3>3. CASE sidx < n
      <4>1. smpc' = "exec" /\ sidx' = sidx + 1 /\ sidx' \in 1..n
        BY <2>1, <3>1, <3>3
      <4>2. \A i \in 1..n : i < sidx' => stats'[i].jobs = SeqCycles
        <5> SUFFICES ASSUME NEW i \in 1..n, i < sidx' PROVE stats'[i].jobs = SeqCycles
          OBVIOUS
        <5>1. i = sidx \/ (i # sidx /\ i < sidx)
          BY <2>1, <4>1
        <5> QED
          BY <2>1, <2>2, <3>2, <5>1
      <4>3. \A i \in 1..n : i > sidx' => stats'[i].jobs = 0
        <5> SUFFICES ASSUME NEW i \in 1..n, i > sidx' PROVE stats'[i].jobs = 0
          OBVIOUS
        <5>1. i # sidx /\ i > sidx
          BY <2>1, <4>1
        <5> QED
          BY <2>1, <2>2, <5>1
      <4>4. stats'[sidx'].jobs < SeqCycles
        <5>1. sidx' # sidx /\ sidx' > sidx
          BY <2>1, <4>1
        <5>2. stats'[sidx'].jobs = 0
          BY <2>1, <2>2, <4>1, <5>1
        <5> QED
          BY <5>2, OptionFacts
      <4> QED
        BY <2>1, <2>3, <2>5, <4>1, <4>2, <4>3, <4>4 DEF JobsInv
    <3>4. CASE ~(sidx < n)
      <4>1. smpc' = "aggregate" /\ sidx = n
        BY <2>1, <3>1, <3>4
      <4>2. \A i \in 1..n : stats'[i].jobs = SeqCycles
        <5> SUFFICES ASSUME NEW i \in 1..n PROVE stats'[i].jobs = SeqCycles
          OBVIOUS
        <5>1. i = sidx \/ (i # sidx /\ i < sidx)
          BY <2>1, <4>1
        <5> QED
          BY <2>1, <2>2, <3>2, <5>1
      <4> QED
        BY <2>1, <2>3, <2>5, <4>1, <4>2 DEF JobsInv
    <3> QED
      BY <3>3, <3>4
  <2> QED
    BY <2>6, <2>7
<1> QED
  BY <1>3, <1>4, <1>5, <1>6 DEF SequentialInv

\* a gradient is published,
LEMMA AggregateInv == SequentialInv /\ Sequential!Aggregate => SequentialInv'
<1> SUFFICES ASSUME SequentialInv, Sequential!Aggregate PROVE SequentialInv'
  OBVIOUS
<1>1. /\ smpc = "aggregate" /\ smpc' = "gradient"
      /\ UNCHANGED <<next, tasks, sidx, stats, response, failed>>
      /\ \E o : Sequential!Publish(o)
  BY DEF Sequential!Aggregate, Sequential!jobVars
<1>2. SequentialTypes /\ gradient_idx < Sequential!num_gradients
  BY <1>1 DEF SequentialInv, TaskSetInv, JobPlaces
<1>3. gradient_idx' \in 0..Sequential!num_gradients /\ outcome' = [g \in 1..MaxGradients |-> outcome'[g]]
  BY <1>1, <1>2, PublishFacts
<1>4. SequentialTypes'
  BY <1>1, <1>2, <1>3 DEF SequentialTypes, Sequential!num_gradients
<1>5. MeasureInv'
  BY <1>1 DEF SequentialInv, MeasureInv, JobPlaces, Sequential!Chosen
<1> QED
  BY <1>1, <1>4, <1>5 DEF SequentialInv, TaskSetInv, JobsInv, JobPlaces

\* or the command returns.
LEMMA FinishInv == SequentialInv /\ Sequential!Finish => SequentialInv'
<1> SUFFICES ASSUME SequentialInv, Sequential!Finish PROVE SequentialInv'
  OBVIOUS
<1>1. /\ smpc' = "returned"
      /\ UNCHANGED <<next, tasks, gradient_idx, sidx, stats, response, failed, outcome>>
  BY DEF Sequential!Finish, Sequential!jobVars
<1>2. SequentialTypes'
  BY <1>1 DEF SequentialInv, SequentialTypes, Sequential!num_gradients
<1> QED
  BY <1>1, <1>2 DEF SequentialInv, MeasureInv, TaskSetInv, JobsInv, JobPlaces

\* A budget that expires, and a step of the other build, change nothing the invariant speaks of.
LEMMA SequentialStays ==
  ASSUME SequentialInv,
         UNCHANGED <<smpc, next, tasks, gradient_idx, sidx, stats, response, failed, outcome>>
  PROVE  SequentialInv'
<1>1. SequentialTypes'
  BY DEF SequentialInv, SequentialTypes, Sequential!num_gradients
<1>2. MeasureInv'
  BY DEF SequentialInv, MeasureInv, Found, Sequential!num_workloads, Sequential!Chosen
<1>3. TaskSetInv'
  BY DEF SequentialInv, TaskSetInv, Sequential!num_gradients, Sequential!target_u
<1>4. JobsInv'
  BY DEF SequentialInv, JobsInv
<1> QED
  BY <1>1, <1>2, <1>3, <1>4 DEF SequentialInv

\* What a step of either build is to the sequential mode.
LEMMA SequentialSteps ==
  ASSUME [MCNext]_<<build, vars, seqVars>>
  PROVE  Sequential!Next \/ UNCHANGED seqVars
BY DEF MCNext

\* Every step of either build preserves the invariant.
LEMMA SequentialStep ==
  SequentialInv /\ (Sequential!Next \/ UNCHANGED seqVars) => SequentialInv'
<1> SUFFICES ASSUME SequentialInv, Sequential!Next \/ UNCHANGED seqVars PROVE SequentialInv'
  OBVIOUS
<1>1. CASE Sequential!BudgetExpires \/ UNCHANGED seqVars
  <2>1. UNCHANGED <<smpc, next, tasks, gradient_idx, sidx, stats, response, failed, outcome>>
    BY <1>1 DEF Sequential!BudgetExpires, Sequential!jobVars, seqVars
  <2> QED
    BY <2>1, SequentialStays
<1> QED
  BY <1>1, BeginInv, MeasureNextInv, SortTasksInv, StartGradientInv, ExecInv, AccountInv,
     AggregateInv, FinishInv DEF Sequential!Next

\* The invariant holds of the sequential command.
LEMMA SequentialInvariant == MCSpec => []SequentialInv
<1>1. MCInit => SequentialInv
  BY SequentialInit DEF MCInit
<1>2. SequentialInv /\ [MCNext]_<<build, vars, seqVars>> => SequentialInv'
  BY SequentialSteps, SequentialStep
<1> QED
  BY <1>1, <1>2, PTL DEF MCSpec

\* Every task set that runs shares out the target of its gradient.
LEMMA TaskSetsSumToTarget == SequentialInv => UtilizationsSumToTarget
<1> SUFFICES ASSUME SequentialInv, smpc \in JobPlaces
             PROVE  /\ \A i \in DOMAIN tasks : tasks[i].utilization \in 0..Sequential!target_u
                    /\ Sequential!Total([i \in DOMAIN tasks |-> tasks[i].utilization])
                         = Sequential!target_u
  BY DEF UtilizationsSumToTarget, Sequential!UtilizationsSumToTarget, JobPlaces
<1> DEFINE n == Len(tasks)
<1>1. TaskSet(tasks, n, Sequential!target_u)
  BY DEF SequentialInv, TaskSetInv
<1>2. DOMAIN tasks = 1..n
  BY SequenceParts DEF SequentialInv, SequentialTypes
<1> HIDE DEF n
<1> QED
  BY <1>1, <1>2, SameSum DEF TaskSet

\* Whatever pow returns, however many tasks there are and in whatever order qsort
\* leaves the shares, the utilizations of a task set that runs are within 0..target and
\* sum up to the target (test_schedule.c:1255-1256, uunifast.c:41-48).
THEOREM UtilizationsAreShared == MCSpec => []UtilizationsSumToTarget
BY SequentialInvariant, TaskSetsSumToTarget, PTL

-----------------------------------------------------------------------------

\* A period is as long as the task, unless a bound cuts it.
LEMMA PeriodCovers ==
  ASSUME NEW w \in Nat, NEW u \in 0..Whole, ~(u <= Low /\ w > LongPeriod), w <= MaxPeriod
  PROVE  Sequential!Period(w, u) >= w
<1>1. CASE u > Low
  <2>1. u \in Nat \ {0} /\ u <= Whole
    BY <1>1, OptionFacts
  <2>2. (w * Whole) \div u >= w /\ (w * Whole) \div u \in Nat
    BY <2>1, OptionFacts, WholeOver
  <2> QED
    BY <1>1, <2>2, OptionFacts DEF Sequential!Period, Sequential!Least
<1>2. CASE ~(u > Low)
  BY <1>2, OptionFacts DEF Sequential!Period, Sequential!Least
<1> QED
  BY <1>1, <1>2

\* A job of a task set that is missed without an error was long, or its period cut.
LEMMA MissedIsLong ==
  ASSUME SequentialInv, smpc = "account", Sequential!Missed
  PROVE  failed \/ response > tasks[sidx].wcet \/ Sequential!CutShort(tasks[sidx])
<1> DEFINE w == tasks[sidx].wcet
           u == tasks[sidx].utilization
           d == tasks[sidx].deadline
<1>1. /\ TaskSet(tasks, Len(tasks), Sequential!target_u) /\ sidx \in 1..Len(tasks)
      /\ tasks \in Seq(SeqTask) /\ response \in Nat
  BY DEF SequentialInv, SequentialTypes, TaskSetInv, JobsInv, JobPlaces
<1>2. tasks[sidx] \in SeqTask
  BY <1>1
<1>3. w \in Nat /\ u \in 0..Whole /\ d \in Nat /\ d = Sequential!Period(w, u)
  BY <1>1, <1>2 DEF SeqTask, TaskSet
<1>4. failed \/ response > d
  BY DEF Sequential!Missed
<1>5. Sequential!CutShort(tasks[sidx]) <=> (w > MaxPeriod \/ (u <= Low /\ w > LongPeriod))
  BY DEF Sequential!CutShort
<1> HIDE DEF w, u, d
<1>6. ASSUME ~(u <= Low /\ w > LongPeriod), w <= MaxPeriod PROVE d >= w
  BY <1>3, <1>6, PeriodCovers
<1>7. ASSUME ~(w > MaxPeriod \/ (u <= Low /\ w > LongPeriod)), response > d PROVE response > w
  BY <1>1, <1>3, <1>6, <1>7, OptionFacts
<1> QED
  BY <1>4, <1>5, <1>7 DEF w

\* Only the job that has just run is counted, and only if it was missed.
LEMMA MissesStep ==
  ASSUME SequentialInv, Sequential!Next \/ UNCHANGED seqVars,
         NEW i \in DOMAIN stats, smpc = "account", i \in DOMAIN stats',
         stats'[i].misses > stats[i].misses
  PROVE  failed \/ response > tasks[i].wcet \/ Sequential!CutShort(tasks[i])
<1>1. stats \in [1..Len(tasks) -> [jobs : Nat, misses : Nat]]
  BY DEF SequentialInv, JobsInv, JobPlaces
<1>2. stats[i].misses \in Nat
  BY <1>1
<1>3. stats' # stats
  BY <1>2
<1>4. Sequential!Account
  BY <1>3 DEF Sequential!Next, Sequential!Begin, Sequential!MeasureNext, Sequential!SortTasks,
     Sequential!StartGradient, Sequential!Exec, Sequential!Aggregate, Sequential!Finish,
     Sequential!BudgetExpires, Sequential!jobVars, seqVars
<1>5. i = sidx /\ Sequential!Missed
  <2>1. /\ stats'[sidx].misses = stats[sidx].misses + (IF Sequential!Missed THEN 1 ELSE 0)
        /\ \A k \in 1..Len(tasks) : k # sidx => stats'[k] = stats[k]
    BY <1>4, AccountFacts
  <2>2. i \in 1..Len(tasks)
    BY <1>1
  <2>3. i = sidx
    BY <1>2, <2>1, <2>2
  <2>4. CASE ~Sequential!Missed
    BY <1>2, <2>1, <2>3, <2>4
  <2> QED
    BY <2>3, <2>4
<1> QED
  BY <1>5, MissedIsLong

\* "With period >= WCET this never misses" (test_schedule.c:889-890), for every registry
\* and every bound: a miss has a failure, an execution longer than any measured or a
\* period cut short for its reason.
THEOREM MissesHaveReasons == MCSpec => MissesAreExplained
<1> DEFINE A == \A i \in DOMAIN stats :
             smpc = "account" /\ i \in DOMAIN stats' /\ stats'[i].misses > stats[i].misses =>
               failed \/ response > tasks[i].wcet \/ Sequential!CutShort(tasks[i])
<1>1. SequentialInv /\ [MCNext]_<<build, vars, seqVars>> => [A]_(Sequential!vars)
  <2> SUFFICES ASSUME SequentialInv, [MCNext]_<<build, vars, seqVars>> PROVE A
    OBVIOUS
  <2>1. Sequential!Next \/ UNCHANGED seqVars
    BY SequentialSteps
  <2> QED
    BY <2>1, MissesStep
<1>2. MissesAreExplained <=> [][A]_(Sequential!vars)
  BY DEF MissesAreExplained, Sequential!MissesAreExplained
<1> HIDE DEF A
<1> QED
  BY <1>1, <1>2, SequentialInvariant, PTL DEF MCSpec

\* A gradient published is one step of the sweep.
LEMMA PublishIsSweep ==
  ASSUME SequentialInv, gradient_idx < Sequential!num_gradients,
         smpc # "returned", smpc' # "returned",
         NEW o, Sequential!Publish(o), Sequential!Sweep!Valid(o)
  PROVE  Sequential!Sweep!Publish
<1>1. SequentialTypes
  BY DEF SequentialInv
<1>2. /\ gradient_idx' = gradient_idx + 1 /\ gradient_idx + 1 \in 1..MaxGradients
      /\ \A g \in 1..MaxGradients :
           outcome'[g] = IF g = gradient_idx + 1 THEN o ELSE outcome[g]
  BY <1>1, PublishFacts
<1>3. gradient_idx < MaxGradients
  <2>1. gradient_idx \in Int /\ gradient_idx < Sequential!num_gradients
    BY <1>1 DEF SequentialTypes
  <2> QED
    BY <2>1, GradientFacts, OptionFacts
<1>4. \A g \in 1..MaxGradients : g # gradient_idx' => outcome'[g] = outcome[g]
  BY <1>2
<1>5. outcome'[gradient_idx'] = o
  BY <1>2
<1> QED
  BY <1>3, <1>2, <1>4, <1>5 DEF Sequential!Sweep!Publish

\* What the totals of a gradient are, once all its jobs have run.
LEMMA TotalsFacts ==
  ASSUME SequentialInv, smpc = "aggregate"
  PROVE  /\ Sequential!Total([i \in DOMAIN stats |-> stats[i].jobs]) = Sequential!Chosen * SeqCycles
         /\ Sequential!Total([i \in DOMAIN stats |-> stats[i].misses])
              <= Sequential!Total([i \in DOMAIN stats |-> stats[i].jobs])
<1> DEFINE n == Len(tasks)
           S == 1..n
           finished == [i \in DOMAIN stats |-> stats[i].jobs]
           missed == [i \in DOMAIN stats |-> stats[i].misses]
<1>1. n \in Nat /\ n = Sequential!Chosen
  <2>1. n = Sequential!Chosen
    BY DEF SequentialInv, MeasureInv, JobPlaces
  <2>2. tasks \in Seq(SeqTask)
    BY DEF SequentialInv, SequentialTypes
  <2> QED
    BY <2>1, <2>2, SequenceParts
<1>2. /\ stats \in [S -> [jobs : Nat, misses : Nat]]
      /\ \A i \in S : stats[i].jobs = SeqCycles /\ stats[i].misses <= stats[i].jobs
  BY DEF SequentialInv, JobsInv, JobPlaces
<1> HIDE DEF n
<1>3. IsFiniteSet(S)
  BY <1>1, FS_Interval
<1> HIDE DEF S
<1>4. DOMAIN stats = S /\ \A i \in S : stats[i].jobs \in Int /\ stats[i].misses \in Int
  BY <1>2
<1>5. finished \in [S -> Int] /\ missed \in [S -> Int]
      /\ \A i \in S : finished[i] = SeqCycles /\ missed[i] <= finished[i]
  BY <1>2, <1>4
<1> HIDE DEF finished, missed
<1>6. SumFunction(finished) = n * SeqCycles
  <2>1. finished \in [1..n -> Int] /\ \A i \in 1..n : finished[i] = SeqCycles
    BY <1>5 DEF S
  <2>2. SeqCycles \in Int
    BY OptionFacts
  <2> QED
    BY <1>1, <2>1, <2>2, SumOfEqual
<1>7. SumFunction(missed) <= SumFunction(finished)
  BY <1>3, <1>5, SumMonotone
<1>8. Sequential!Total(finished) = SumFunction(finished) /\ Sequential!Total(missed) = SumFunction(missed)
  BY SameSum
<1>9. Sequential!Total(finished) = Sequential!Chosen * SeqCycles
      /\ Sequential!Total(missed) <= Sequential!Total(finished)
  BY <1>1, <1>6, <1>7, <1>8
<1> QED
  BY <1>9 DEF finished, missed

\* A gradient that is aggregated is published with all its jobs.
LEMMA AggregateIsSweep ==
  ASSUME SequentialInv, Sequential!Aggregate
  PROVE  Sequential!Sweep!Publish
<1> DEFINE o == [status |-> "complete",
                 jobs   |-> Sequential!Total([i \in DOMAIN stats |-> stats[i].jobs]),
                 misses |-> Sequential!Total([i \in DOMAIN stats |-> stats[i].misses])]
<1>1. smpc = "aggregate" /\ smpc' = "gradient" /\ Sequential!Publish(o)
  BY DEF Sequential!Aggregate
<1>2. gradient_idx < Sequential!num_gradients
  BY <1>1 DEF SequentialInv, TaskSetInv, JobPlaces
<1>3. o.status = "complete" /\ o.jobs = Sequential!Chosen * SeqCycles /\ o.misses <= o.jobs
  BY <1>1, TotalsFacts
<1> HIDE DEF o
<1>4. Sequential!Sweep!Valid(o)
  BY <1>3 DEF Sequential!Sweep!Valid
<1>5. PICK p : p = o
  OBVIOUS
<1>6. Sequential!Publish(p) /\ Sequential!Sweep!Valid(p)
  BY <1>1, <1>4, <1>5
<1> QED
  BY <1>1, <1>2, <1>6, PublishIsSweep

\* A gradient that starts is published as failed, or nothing of it is seen yet.
LEMMA StartIsSweep ==
  ASSUME SequentialInv, Sequential!StartGradient
  PROVE  Sequential!Sweep!Publish \/ UNCHANGED Sequential!Sweep!vars
<1>1. smpc = "gradient" /\ gradient_idx < Sequential!num_gradients
  BY DEF Sequential!StartGradient
<1>2. CASE smpc' = "exec" /\ UNCHANGED <<gradient_idx, outcome>>
  BY <1>1, <1>2 DEF Sequential!Sweep!vars
<1>3. CASE Sequential!Publish([status |-> "failed", jobs |-> 0, misses |-> 0]) /\ UNCHANGED smpc
  <2> DEFINE o == [status |-> "failed", jobs |-> 0, misses |-> 0]
  <2>1. Sequential!Publish(o)
    BY <1>3
  <2>2. Sequential!Sweep!Valid(o)
    BY DEF Sequential!Sweep!Valid
  <2> HIDE DEF o
  <2> QED
    BY <1>1, <1>3, <2>1, <2>2, PublishIsSweep
<1> QED
  BY <1>2, <1>3 DEF Sequential!StartGradient

\* Every step is one of the sweep, or unseen by the caller.
LEMMA SweepStep ==
  ASSUME SequentialInv, Sequential!Next \/ UNCHANGED seqVars
  PROVE  [Sequential!Sweep!Next]_(Sequential!Sweep!vars)
<1>1. ASSUME UNCHANGED <<gradient_idx, outcome>>,
             smpc # "returned"
      PROVE  Sequential!Sweep!Finish \/ UNCHANGED Sequential!Sweep!vars
  BY <1>1 DEF Sequential!Sweep!Finish, Sequential!Sweep!vars
<1>2. CASE \/ Sequential!Begin \/ Sequential!MeasureNext \/ Sequential!SortTasks
           \/ Sequential!Exec \/ Sequential!Account \/ Sequential!Finish
  <2>1. UNCHANGED <<gradient_idx, outcome>> /\ smpc # "returned"
    BY <1>2 DEF Sequential!Begin, Sequential!MeasureNext, Sequential!SortTasks, Sequential!Exec,
       Sequential!Account, Sequential!Finish
  <2> QED
    BY <1>1, <2>1 DEF Sequential!Sweep!Next
<1>3. CASE Sequential!BudgetExpires \/ UNCHANGED seqVars
  BY <1>3 DEF Sequential!BudgetExpires, seqVars, Sequential!Sweep!vars
<1>4. CASE Sequential!StartGradient
  BY <1>4, StartIsSweep DEF Sequential!Sweep!Next
<1>5. CASE Sequential!Aggregate
  BY <1>5, AggregateIsSweep DEF Sequential!Sweep!Next
<1> QED
  BY <1>2, <1>3, <1>4, <1>5 DEF Sequential!Next

\* Nothing is published at first.
LEMMA SweepStart == Sequential!Init => Sequential!Sweep!Init
BY DEF Sequential!Init, Sequential!Sweep!Init, Sequential!Sweep!NoOutcome, Sequential!NoOutcome

\* The sequential mode implements ScheduleSweep, for every registry, every sweep of
\* utilizations and every number of cycles.
THEOREM SequentialIsASweep == MCSpec => SequentialImplementsSweep
<1>1. MCInit => Sequential!Sweep!Init
  BY SweepStart DEF MCInit
<1>2. SequentialInv /\ [MCNext]_<<build, vars, seqVars>> => [Sequential!Sweep!Next]_(Sequential!Sweep!vars)
  BY SequentialSteps, SweepStep
<1>3. SequentialImplementsSweep
        <=> Sequential!Sweep!Init /\ [][Sequential!Sweep!Next]_(Sequential!Sweep!vars)
  BY DEF SequentialImplementsSweep, Sequential!ImplementsSweep, Sequential!Sweep!Spec
<1> QED
  BY <1>1, <1>2, <1>3, SequentialInvariant, PTL DEF MCSpec
=============================================================================
