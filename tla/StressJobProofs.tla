--------------------------- MODULE StressJobProofs ---------------------------
(***************************************************************************)
(* Proofs about StressJob, for any number of stressors, instances and      *)
(* operations.  The wait counts releases, not threads: that no thread runs *)
(* when its args are freed follows from a count.  CountInv says that every *)
(* release of this stressor's semaphore is one thread of this stressor     *)
(* that has ended; when finished = spawned the set of threads that ended   *)
(* is as large as the set of threads created, hence the same set.  What    *)
(* follows holds of the job file and of the ring of the context stressor   *)
(* as MCStressJob has them side by side.                                   *)
(***************************************************************************)
EXTENDS MCStressJob, FiniteSetTheorems, TLAPS

States == {"none", "failed", "run", "blocked", "release", "ended", "killed"}

Types ==
  /\ pc \in {"idle", "spawn", "wait", "result", "last", "free"}
  /\ job \in 0..Stressors /\ next \in 1..(Instances + 1)
  /\ spawned \in Nat /\ finished \in Nat
  /\ wst \in [Worker -> States]
  /\ argsOf \in [Worker -> {"none", "live", "freed"}]
  /\ semOf \in [Stressor -> {"none", "live", "freed"}]
  /\ sem \in [Stressor -> Nat]

\* Nothing of the stressors to come exists yet, nor of the instances.
Ahead ==
  /\ \A s \in Stressor, k \in Instance : s > job => wst[<<s, k>>] = "none"
  /\ \A s \in Stressor : s > job => sem[s] = 0
  /\ pc = "spawn" => \A k \in Instance : k >= next => wst[<<job, k>>] = "none"
  /\ pc # "idle" => job > 0

\* The counters of the current stressor are sizes of its sets of threads.
CountInv ==
  job > 0 =>
    /\ spawned = Cardinality(Created(job))
    /\ finished + sem[job] = Cardinality(Ended(job))

\* Memory: what a running thread points to, and the current stressor's own.
MemInv ==
  /\ NoUseAfterFree
  /\ pc # "idle" => semOf[job] = "live"

FreeInv == Types /\ Ahead /\ CountInv /\ MemInv

LEMMA InstanceFinite ==
  IsFiniteSet(Instance) /\ \A S \in SUBSET Instance : IsFiniteSet(S)
<1>1. IsFiniteSet(Instance)
  BY FS_Interval, ConstantsAssumption DEF Instance
<1> QED
  BY <1>1, FS_Subset

\* The threads that ended were created; if there are as many, none is left.
LEMMA AllEnded ==
  ASSUME Types, CountInv, job \in Stressor, finished >= spawned
  PROVE  Created(job) = Ended(job)
<1>1. Ended(job) \subseteq Created(job) /\ IsFiniteSet(Created(job))
  BY InstanceFinite DEF Ended, Created
<1>2. Cardinality(Ended(job)) <= Cardinality(Created(job))
  BY <1>1, FS_Subset
<1>3. sem[job] \in Nat /\ finished \in Nat /\ spawned \in Nat /\ job > 0
  BY DEF Types, Stressor
<1>4. spawned = Cardinality(Created(job)) /\ finished + sem[job] = Cardinality(Ended(job))
  BY <1>3 DEF CountInv
<1>5. Cardinality(Ended(job)) = Cardinality(Created(job))
  BY <1>2, <1>3, <1>4
<1> QED
  BY <1>1, <1>5, FS_Subset

LEMMA FreeInit == Init => FreeInv
<1> SUFFICES ASSUME Init PROVE FreeInv
  OBVIOUS
<1>1. Types
  BY ConstantsAssumption DEF Init, Types, States, Worker, Instance
<1>2. Ahead
  BY DEF Init, Ahead, Stressor, Worker
<1>3. CountInv /\ MemInv
  BY DEF Init, CountInv, MemInv, NoUseAfterFree, Running
<1> QED
  BY <1>1, <1>2, <1>3 DEF FreeInv

\* A step that changes no thread and no counter keeps the count.
LEMMA SameCount ==
  ASSUME CountInv, UNCHANGED <<job, spawned, finished, wst, sem>>
  PROVE  CountInv'
  BY DEF CountInv, Created, Ended

LEMMA BeginKeeps == FreeInv /\ BeginStressor => FreeInv'
<1> SUFFICES ASSUME FreeInv, BeginStressor PROVE FreeInv'
  OBVIOUS
<1> USE DEF workerVars, sumVars
<1>1. job + 1 \in Stressor /\ job \in Nat
  BY ConstantsAssumption DEF BeginStressor, FreeInv, Types, Stressor
<1>2. Types'
  BY <1>1, ConstantsAssumption DEF BeginStressor, FreeInv, Types, Stressor
<1>3. Ahead'
  BY <1>1, ConstantsAssumption DEF BeginStressor, FreeInv, Ahead, Stressor, Instance
<1>4. \A k \in Instance : wst[<<job + 1, k>>] = "none"
  BY <1>1 DEF FreeInv, Ahead
<1>5. CountInv'
  <2>1. Created(job + 1) = {} /\ Ended(job + 1) = {} /\ sem[job + 1] = 0
    BY <1>1, <1>4 DEF FreeInv, Ahead, Created, Ended
  <2>2. Cardinality(Created(job + 1)) = 0 /\ Cardinality(Ended(job + 1)) = 0
    BY <2>1, FS_EmptySet
  <2>3. Created(job)' = Created(job + 1) /\ Ended(job)' = Ended(job + 1)
    BY DEF BeginStressor, Created, Ended
  <2>4. spawned' = 0 /\ finished' + sem'[job'] = 0
    BY <2>1 DEF BeginStressor
  <2> QED
    BY <2>2, <2>3, <2>4 DEF CountInv
<1>6. MemInv'
  <2>1. \A w \in Worker : Running(w) => w[1] # job + 1
    BY <1>4 DEF Running, Worker
  <2>2. \A w \in Worker : w[1] # job + 1 => semOf'[w[1]] = semOf[w[1]]
    BY <1>1 DEF BeginStressor, FreeInv, Types, Worker
  <2>3. NoUseAfterFree'
    BY <2>1, <2>2 DEF BeginStressor, FreeInv, MemInv, NoUseAfterFree, Running
  <2> QED
    BY <1>1, <2>3 DEF BeginStressor, FreeInv, Types, MemInv
<1> QED
  BY <1>2, <1>3, <1>5, <1>6 DEF FreeInv

LEMMA SpawnKeeps == FreeInv /\ SpawnInstance => FreeInv'
<1> SUFFICES ASSUME FreeInv, SpawnInstance PROVE FreeInv'
  OBVIOUS
<1> USE DEF clockVars, stopVars, sumVars
<1> DEFINE w == <<job, next>>
<1>1. job \in Stressor /\ next \in Instance /\ w \in Worker /\ wst[w] = "none"
  BY ConstantsAssumption DEF SpawnInstance, FreeInv, Types, Ahead, Stressor, Instance,
     Worker
<1>2. wst' = [wst EXCEPT ![w] = "run"] \/ wst' = [wst EXCEPT ![w] = "failed"]
  BY DEF SpawnInstance
<1>3. Types'
  BY <1>1, <1>2, ConstantsAssumption
  DEF SpawnInstance, FreeInv, Types, States, Instance
<1>4. Ahead'
  <2>1. \A s \in Stressor, k \in Instance : <<s, k>> # w => wst'[<<s, k>>] = wst[<<s, k>>]
    BY <1>2 DEF FreeInv, Types, Worker
  <2>2. \A s \in Stressor : s > job => s # job
    BY <1>1 DEF Stressor
  <2>3. \A s \in Stressor, k \in Instance : s > job => wst'[<<s, k>>] = "none"
    BY <2>1, <2>2 DEF FreeInv, Ahead
  <2>4. \A k \in Instance : k >= next + 1 => k >= next /\ k # next
    BY <1>1 DEF Instance
  <2>5. \A k \in Instance : k >= next + 1 => wst'[<<job, k>>] = "none"
    BY <1>1, <2>1, <2>4 DEF SpawnInstance, FreeInv, Ahead
  <2> QED
    BY <2>3, <2>5 DEF SpawnInstance, FreeInv, Ahead
<1>5. Ended(job)' = Ended(job)
  BY <1>1, <1>2 DEF SpawnInstance, FreeInv, Types, Ended, Worker
<1>6. CountInv'
  <2>1. IsFiniteSet(Created(job)) /\ next \notin Created(job)
    BY <1>1, InstanceFinite DEF Created
  <2>2. CASE wst' = [wst EXCEPT ![w] = "run"] /\ spawned' = spawned + 1
    <3>1. Created(job)' = Created(job) \cup {next}
      BY <1>1, <2>2 DEF SpawnInstance, FreeInv, Types, Created, Worker
    <3> QED
      BY <2>1, <2>2, <3>1, <1>5, FS_AddElement DEF SpawnInstance, FreeInv, CountInv
  <2>3. CASE wst' = [wst EXCEPT ![w] = "failed"] /\ spawned' = spawned
    <3>1. Created(job)' = Created(job)
      BY <1>1, <2>3 DEF SpawnInstance, FreeInv, Types, Created, Worker
    <3> QED
      BY <2>3, <3>1, <1>5 DEF SpawnInstance, FreeInv, CountInv
  <2> QED
    BY <2>2, <2>3 DEF SpawnInstance
<1>7. MemInv'
  BY <1>1, <1>2 DEF SpawnInstance, FreeInv, Types, MemInv, NoUseAfterFree, Running, Worker
<1> QED
  BY <1>3, <1>4, <1>6, <1>7 DEF FreeInv

\* The steps of the command thread between the spawn loop and the cleanup.
LEMMA WaitKeeps ==
  ASSUME FreeInv,
         SpawnEnds \/ WorkerFinished \/ StopSeen \/ WaitEnds \/ DeleteThreads
         \/ SumResult \/ SumLast
  PROVE  FreeInv'
<1> USE DEF clockVars, stopVars, workerVars, memVars, sumVars, mainVars
<1>1. CASE WorkerFinished
  <2>1. job \in Stressor
    BY <1>1, ConstantsAssumption DEF WorkerFinished, FreeInv, Types, Ahead, Stressor
  <2>2. Types'
    BY <1>1, <2>1 DEF WorkerFinished, FreeInv, Types
  <2>3. Ahead'
    BY <1>1, <2>1 DEF WorkerFinished, FreeInv, Types, Ahead, Stressor
  <2>4. CountInv'
    BY <1>1, <2>1 DEF WorkerFinished, FreeInv, Types, CountInv, Created, Ended
  <2>5. MemInv'
    BY <1>1 DEF WorkerFinished, FreeInv, MemInv, NoUseAfterFree, Running
  <2> QED
    BY <2>2, <2>3, <2>4, <2>5 DEF FreeInv
<1>2. CASE ~WorkerFinished
  <2>1. /\ UNCHANGED <<job, next, spawned, finished, wst, memVars, sem>>
        /\ pc # "idle"
        /\ pc' \in {"wait", "result", "last", "free"}
    BY <1>2 DEF SpawnEnds, StopSeen, WaitEnds, DeleteThreads, SumResult, SumLast
  <2>2. Types' /\ Ahead'
    BY <2>1 DEF FreeInv, Types, Ahead
  <2>3. CountInv'
    BY <2>1, SameCount DEF FreeInv
  <2>4. MemInv'
    BY <2>1 DEF FreeInv, MemInv, NoUseAfterFree, Running
  <2> QED
    BY <2>2, <2>3, <2>4 DEF FreeInv
<1> QED
  BY <1>1, <1>2

\* The cleanup frees only what belongs to threads that have ended.
LEMMA FreeKeeps == FreeInv /\ Free => FreeInv'
<1> SUFFICES ASSUME FreeInv, Free PROVE FreeInv'
  OBVIOUS
<1> USE DEF clockVars, stopVars, workerVars, sumVars
<1>1. job \in Stressor
  BY ConstantsAssumption DEF Free, FreeInv, Types, Ahead, Stressor
<1>2. Types'
  BY <1>1 DEF Free, FreeInv, Types, memVars
<1>3. Ahead' /\ CountInv'
  BY SameCount DEF Free, FreeInv, Ahead
<1>4. CASE Orphans
  BY <1>2, <1>3, <1>4 DEF Free, FreeInv, MemInv, NoUseAfterFree, Running, memVars
<1>5. CASE ~Orphans
  <2>1. Created(job) = Ended(job)
    BY <1>1, <1>5, AllEnded DEF FreeInv, Types, Orphans
  <2>2. ASSUME NEW w \in Worker, Running(w) PROVE w[1] # job
    <3>1. PICK s \in Stressor, k \in Instance : w = <<s, k>>
      BY DEF Worker
    <3>2. CASE s = job
      <4>1. k \in Created(job) /\ k \notin Ended(job)
        BY <2>2, <3>1, <3>2 DEF Running, Created, Ended
      <4> QED
        BY <2>1, <4>1
    <3> QED
      BY <3>1, <3>2
  <2>3. \A w \in Worker : w[1] # job => w \notin Counted
    BY DEF Counted
  <2>4. NoUseAfterFree'
    <3> SUFFICES ASSUME NEW w \in Worker, Running(w)' PROVE (argsOf[w] = "live" /\ semOf[w[1]] = "live")'
      BY DEF NoUseAfterFree
    <3>1. Running(w) /\ w[1] # job /\ w \notin Counted /\ w[1] \in Stressor
      BY <2>2, <2>3 DEF Free, Running, Worker
    <3>2. argsOf'[w] = argsOf[w]
      BY <1>5, <3>1 DEF Free
    <3>3. semOf'[w[1]] = semOf[w[1]]
      BY <1>5, <3>1 DEF Free, FreeInv, Types
    <3> QED
      BY <3>1, <3>2, <3>3 DEF FreeInv, MemInv, NoUseAfterFree
  <2> QED
    BY <1>2, <1>3, <2>4 DEF Free, FreeInv, MemInv
<1> QED
  BY <1>4, <1>5

\* A worker that goes from one state to another of a created, unfinished thread.
LEMMA MoveKeeps ==
  ASSUME FreeInv, NEW w \in Worker, NEW to \in {"run", "blocked", "release", "killed"},
         Running(w), wst' = [wst EXCEPT ![w] = to],
         UNCHANGED <<mainVars, memVars, sem>>
  PROVE  FreeInv'
<1> USE DEF mainVars, memVars
<1>1. Types'
  BY DEF FreeInv, Types, States
<1>2. \A v \in Worker : Running(v)' => Running(v)
  BY DEF Running, FreeInv, Types
<1>3. \A s \in Stressor, k \in Instance :
        /\ wst[<<s, k>>] \in {"none", "failed", "ended"} => wst'[<<s, k>>] = wst[<<s, k>>]
        /\ wst'[<<s, k>>] \in {"none", "failed", "ended"} => wst'[<<s, k>>] = wst[<<s, k>>]
  BY DEF Running, FreeInv, Types, Worker
<1>4. Ahead'
  BY <1>3, ConstantsAssumption DEF FreeInv, Types, Ahead, Stressor, Instance
<1>5. CountInv'
  <2>1. CASE job > 0
    <3>1. job \in Stressor
      BY <2>1, ConstantsAssumption DEF FreeInv, Types, Stressor
    <3>2. Created(job)' = Created(job) /\ Ended(job)' = Ended(job)
      BY <1>3, <3>1 DEF Created, Ended
    <3> QED
      BY <3>2 DEF FreeInv, CountInv
  <2> QED
    BY <2>1 DEF CountInv
<1>6. MemInv'
  BY <1>2 DEF FreeInv, MemInv, NoUseAfterFree
<1> QED
  BY <1>1, <1>4, <1>5, <1>6 DEF FreeInv

LEMMA ReleaseKeeps ==
  ASSUME FreeInv, NEW w \in Worker, Release(w)
  PROVE  FreeInv'
<1> USE DEF mainVars, memVars, clockVars, stopVars, sumVars
<1>0. PICK s \in Stressor, k \in Instance : w = <<s, k>>
  BY DEF Worker
<1>1. Types'
  BY <1>0 DEF Release, FreeInv, Types, States
<1>2. s <= job /\ job \in Stressor /\ s \in Nat
  BY <1>0, ConstantsAssumption DEF Release, FreeInv, Types, Ahead, Stressor
<1>3. Ahead'
  BY <1>0, <1>2 DEF Release, FreeInv, Types, Ahead, Stressor, Worker
<1>4. Created(job)' = Created(job)
  BY <1>0, <1>2 DEF Release, FreeInv, Types, Created, Worker
<1>5. CountInv'
  <2>1. CASE s = job
    <3>1. Ended(job)' = Ended(job) \cup {k} /\ k \notin Ended(job)
      BY <1>0, <2>1 DEF Release, FreeInv, Types, Ended, Worker
    <3>2. IsFiniteSet(Ended(job))
      BY InstanceFinite DEF Ended
    <3>3. Cardinality(Ended(job)') = Cardinality(Ended(job)) + 1
      BY <3>1, <3>2, FS_AddElement
    <3>4. sem'[job] = sem[job] + 1 /\ finished' = finished /\ sem[job] \in Nat /\ finished \in Nat
      BY <1>0, <1>2, <2>1 DEF Release, FreeInv, Types
    <3>5. /\ job > 0 /\ job' = job /\ spawned' = spawned
          /\ spawned = Cardinality(Created(job))
          /\ finished + sem[job] = Cardinality(Ended(job))
      BY <1>2 DEF Release, FreeInv, CountInv, Stressor
    <3>6. finished' + sem'[job'] = Cardinality(Ended(job)')
      BY <3>3, <3>4, <3>5
    <3> QED
      BY <1>4, <3>5, <3>6 DEF CountInv, Created, Ended
  <2>2. CASE s # job
    <3>1. Ended(job)' = Ended(job) /\ sem'[job] = sem[job]
      BY <1>0, <1>2, <2>2 DEF Release, FreeInv, Types, Ended, Worker
    <3> QED
      BY <1>4, <3>1 DEF Release, FreeInv, CountInv
  <2> QED
    BY <2>1, <2>2
<1>6. MemInv'
  BY <1>0 DEF Release, FreeInv, Types, MemInv, NoUseAfterFree, Running
<1> QED
  BY <1>1, <1>3, <1>5, <1>6 DEF FreeInv

LEMMA WorkerKeeps ==
  ASSUME FreeInv, NEW w \in Worker,
         WorkerStep(w) \/ Block(w) \/ Unblock(w) \/ Die(w)
  PROVE  FreeInv'
<1>1. CASE Operate(w)
  BY <1>1, SameCount DEF Operate, FreeInv, Types, Ahead, MemInv, NoUseAfterFree,
     Running, mainVars, memVars
<1>2. CASE StressorReturns(w)
  BY <1>2, MoveKeeps DEF StressorReturns, Running
<1>3. CASE Release(w)
  BY <1>3, ReleaseKeeps
<1>4. CASE Block(w)
  BY <1>4, MoveKeeps DEF Block, Running
<1>5. CASE Unblock(w)
  BY <1>5, MoveKeeps DEF Unblock, Running
<1>6. CASE Die(w)
  BY <1>6, MoveKeeps DEF Die, Running
<1> QED
  BY <1>1, <1>2, <1>3, <1>4, <1>5, <1>6 DEF WorkerStep

LEMMA OtherKeeps ==
  ASSUME FreeInv, TimeIsUp \/ MarginPasses \/ Stop \/ UNCHANGED vars
  PROVE  FreeInv'
<1>1. UNCHANGED <<mainVars, wst, memVars, sem>>
  BY DEF TimeIsUp, MarginPasses, Stop, vars, workerVars
<1> QED
  BY <1>1, SameCount DEF FreeInv, Types, Ahead, MemInv, NoUseAfterFree, Running,
     mainVars, memVars

LEMMA FreeInvariant == Spec => []FreeInv
<1>1. FreeInv /\ [Next]_vars => FreeInv'
  BY BeginKeeps, SpawnKeeps, WaitKeeps, FreeKeeps, WorkerKeeps, OtherKeeps
  DEF Next, MainStep
<1> QED
  BY FreeInit, <1>1, PTL DEF Spec

\* Whatever ended the wait, no thread of a stressor runs on freed args or on a
\* deleted semaphore (stress-ng.c:384-396 against 140-162).
THEOREM ArgsOutliveWorkers == Spec => []NoUseAfterFree
<1>1. FreeInv => NoUseAfterFree
  BY DEF FreeInv, MemInv
<1> QED
  BY <1>1, FreeInvariant, PTL

\* The wait of a stressor counts its own workers and no late one of an earlier
\* stressor (stress-ng.c:192-211).
THEOREM WaitCountsOwnWorkers == Spec => []CountsOwnWorkers
<1>1. FreeInv => CountsOwnWorkers
  BY DEF FreeInv, CountInv, CountsOwnWorkers
<1> QED
  BY <1>1, FreeInvariant, PTL

-----------------------------------------------------------------------------
(* What is reported: a sum over the counters of this stressor's workers, which *)
(* stay as they are once all of them have ended.                               *)

ReportInv ==
  /\ DOMAIN ops = Worker /\ DOMAIN result = Stressor
  /\ ResultIsTotal

\* A step after which neither the report nor a worker of this stressor differs.
LEMMA SameReport ==
  ASSUME ReportInv, job \in Stressor,
         UNCHANGED <<job, spawned, finished, result>>, DOMAIN ops' = Worker,
         pc' \in {"last", "free"} => pc \in {"last", "free"},
         Created(job)' = Created(job),
         pc \in {"last", "free"} /\ ~Orphans => \A k \in Created(job) : ops'[<<job, k>>] = ops[<<job, k>>]
  PROVE  ReportInv'
<1>1. ASSUME pc' \in {"last", "free"}, ~Orphans', Created(job)' = 1..spawned'
      PROVE  result'[job'] = OpsOf(Spawned(job))'
  <2>1. pc \in {"last", "free"} /\ ~Orphans /\ Created(job) = 1..spawned
    BY <1>1 DEF Orphans
  <2>2. result[job] = OpsOf(Spawned(job))
    BY <2>1 DEF ReportInv, ResultIsTotal
  <2>3. Spawned(job)' = Spawned(job)
    BY DEF Spawned
  <2>4. \A w \in Spawned(job) : ops'[w] = ops[w]
    BY <2>1 DEF Spawned
  <2>5. Restrict(ops, Spawned(job))' = Restrict(ops, Spawned(job))
    BY <2>3, <2>4 DEF Restrict
  <2> QED
    BY <2>2, <2>5 DEF OpsOf
<1>2. ResultIsTotal'
  BY <1>1 DEF ResultIsTotal
<1>3. DOMAIN result' = Stressor
  BY DEF ReportInv
<1> QED
  BY <1>2, <1>3 DEF ReportInv

LEMMA ReportInit == Init => ReportInv
  BY DEF Init, ReportInv, ResultIsTotal

LEMMA ReportMain == ASSUME FreeInv, ReportInv, MainStep PROVE ReportInv'
<1> USE DEF clockVars, stopVars, workerVars, memVars, sumVars, mainVars
<1>1. CASE SumResult
  <2>1. job \in Stressor
    BY <1>1, ConstantsAssumption DEF SumResult, FreeInv, Types, Ahead, Stressor
  <2>2. /\ UNCHANGED <<job, spawned, finished, wst, ops>>
        /\ result' = [result EXCEPT ![job] = OpsSum]
    BY <1>1 DEF SumResult
  <2>3. result'[job] = OpsOf(Counted)
    BY <2>1, <2>2 DEF ReportInv, OpsSum
  <2>4. Created(job) = 1..spawned => Counted = Spawned(job)
    BY DEF Counted, Spawned
  <2>5. Created(job)' = Created(job) /\ OpsOf(Spawned(job))' = OpsOf(Spawned(job))
    BY <2>2 DEF Created, Spawned, OpsOf
  <2> QED
    BY <2>2, <2>3, <2>4, <2>5 DEF ReportInv, ResultIsTotal
<1>2. CASE SumLast
  <2>1. job \in Stressor
    BY <1>2, ConstantsAssumption DEF SumLast, FreeInv, Types, Ahead, Stressor
  <2>2. /\ UNCHANGED <<job, spawned, finished, wst, ops, result>> /\ pc = "last"
    BY <1>2 DEF SumLast
  <2> QED
    BY <2>1, <2>2, SameReport DEF Created, ReportInv
<1>3. CASE ~SumResult /\ ~SumLast
  <2>1. pc' \notin {"last", "free"} /\ UNCHANGED <<ops, result>>
    BY <1>3 DEF MainStep, BeginStressor, SpawnInstance, SpawnEnds, WorkerFinished, StopSeen,
       WaitEnds, DeleteThreads, Free
  <2> QED
    BY <2>1 DEF ReportInv, ResultIsTotal
<1> QED
  BY <1>1, <1>2, <1>3

LEMMA ReportWorker ==
  ASSUME FreeInv, ReportInv, NEW w \in Worker,
         WorkerStep(w) \/ Block(w) \/ Unblock(w) \/ Die(w)
  PROVE  ReportInv'
<1> USE DEF clockVars, stopVars, workerVars, memVars, sumVars, mainVars
<1>1. /\ UNCHANGED <<pc, job, spawned, finished, result>> /\ DOMAIN ops' = Worker /\ Running(w)
      /\ \A v \in Worker : v # w => ops'[v] = ops[v]
  BY DEF WorkerStep, Operate, StressorReturns, Release, Block, Unblock, Die, Running, ReportInv
<1>2. wst' = wst \/ \E to \in {"run", "blocked", "release", "ended", "killed"} : wst' = [wst EXCEPT ![w] = to]
  BY DEF WorkerStep, Operate, StressorReturns, Release, Block, Unblock, Die
<1>3. \A s \in Stressor : Created(s)' = Created(s)
  BY <1>1, <1>2 DEF Created, Running, FreeInv, Types, Worker
<1>4. CASE pc \notin {"last", "free"}
  BY <1>1, <1>4 DEF ReportInv, ResultIsTotal
<1>5. CASE pc \in {"last", "free"}
  <2>1. job \in Stressor
    BY <1>5, ConstantsAssumption DEF FreeInv, Types, Ahead, Stressor
  <2>2. ASSUME ~Orphans, NEW k \in Created(job) PROVE w # <<job, k>>
    <3>1. Created(job) = Ended(job)
      BY <2>1, <2>2, AllEnded DEF FreeInv, Types, Orphans
    <3> QED
      BY <3>1, <1>1 DEF Ended, Running
  <2>3. \A k \in Created(job) : <<job, k>> \in Worker
    BY <2>1 DEF Created, Worker
  <2> QED
    BY <1>1, <1>3, <2>1, <2>2, <2>3, SameReport
<1> QED
  BY <1>4, <1>5

LEMMA ReportInvariant == Spec => []ReportInv
<1>1. ASSUME FreeInv, ReportInv, TimeIsUp \/ MarginPasses \/ Stop \/ UNCHANGED vars PROVE ReportInv'
  <2>1. UNCHANGED <<pc, job, spawned, finished, wst, ops, result>>
    BY <1>1 DEF TimeIsUp, MarginPasses, Stop, vars, workerVars, sumVars, mainVars
  <2> QED
    BY <1>1, <2>1 DEF ReportInv, ResultIsTotal, Orphans, OpsOf, Spawned, Created
<1>2. FreeInv /\ ReportInv /\ [Next]_vars => ReportInv'
  BY <1>1, ReportMain, ReportWorker DEF Next
<1> QED
  BY ReportInit, FreeInvariant, <1>2, PTL DEF Spec

\* A stressor whose workers all finished is reported with all their operations
\* (stress-ng.c:350-365), whatever other workers still do.
THEOREM ReportIsTotal == Spec => []ResultIsTotal
<1>1. ReportInv => ResultIsTotal
  BY DEF ReportInv
<1> QED
  BY <1>1, ReportInvariant, PTL

-----------------------------------------------------------------------------
(* A call of the context stressor beside the job file: what is proved of each of *)
(* the two holds of both.                                                        *)

RP == INSTANCE ContextRingProofs WITH pc <- rpc, ops <- rops

LEMMA JobBesideRing == MCSpec => Spec
<1>1. MCInit => Init
  BY DEF MCInit
<1>2. [MCNext]_bothVars => [Next]_vars
  BY DEF MCNext, Of, bothVars, vars
<1> QED
  BY <1>1, <1>2, PTL DEF MCSpec, Spec

LEMMA RingBesideJob == MCSpec => RP!Spec
<1> USE DEF Ring!mainVars, Ring!semVars, Ring!memVars, RP!mainVars, RP!semVars, RP!memVars,
            Ring!Thread, RP!Thread, Ring!Goto, RP!Goto, Ring!Continue, RP!Continue
<1>1. MCInit => RP!Init
  BY DEF MCInit, Ring!Init, RP!Init
<1>2. Ring!Quiet => RP!Quiet
  BY DEF Ring!Quiet, RP!Quiet, Ring!Waiting, RP!Waiting
<1>3. Ring!MainStep => RP!MainStep
  BY <1>2
  DEF Ring!MainStep, Ring!Setup, Ring!Spawn, Ring!FirstTurn, Ring!SeeStop, Ring!Wait,
      Ring!DeleteThreads, Ring!FreeRing, Ring!FreeArgs, Ring!Created,
      RP!MainStep, RP!Setup, RP!Spawn, RP!FirstTurn, RP!SeeStop, RP!Wait,
      RP!DeleteThreads, RP!FreeRing, RP!FreeArgs, RP!Created
<1>4. ASSUME NEW i \in RP!Thread, Ring!ThreadStep(i) \/ Ring!Die(i)
      PROVE  RP!ThreadStep(i) \/ RP!Die(i)
  BY <1>4
  DEF Ring!ThreadStep, Ring!LoopHead, Ring!Take, Ring!Check, Ring!Count, Ring!Pass, Ring!Signal,
      Ring!Die, Ring!Neighbour,
      RP!ThreadStep, RP!LoopHead, RP!Take, RP!Check, RP!Count, RP!Pass, RP!Signal,
      RP!Die, RP!Neighbour
<1>5. Ring!Next => RP!Next
  BY <1>3, <1>4 DEF Ring!Next, RP!Next, Ring!Stop, RP!Stop
<1>6. [MCNext]_bothVars => [RP!Next]_(RP!vars)
  BY <1>5 DEF MCNext, Of, bothVars, ringVars, RP!vars
<1> QED
  BY <1>1, <1>6, PTL DEF MCSpec, RP!Spec

\* Exactly as many operations as were asked for (core-helper.c:26-30), also while
\* the job file runs.
THEOREM LimitIsKept == MCSpec => []OpsWithinLimit
<1>1. RP!OpsWithinLimit => OpsWithinLimit
  BY DEF OpsWithinLimit, RP!OpsWithinLimit, Ring!OpsWithinLimit
<1> QED
  BY RP!RingKeepsLimit, ContextAssumption, RingBesideJob, <1>1, PTL

\* The threads of the ring do not use what is freed (stress-context.c:175-183).
THEOREM RingOutlivesThreads == MCSpec => []NoRingUseAfterFree
<1>1. RP!NoUseAfterFree => NoRingUseAfterFree
  BY DEF NoRingUseAfterFree, RP!NoUseAfterFree, Ring!NoUseAfterFree, RP!Thread, Ring!Thread
<1> QED
  BY RP!RingFreedAfterUse, ContextAssumption, RingBesideJob, <1>1, PTL

\* With up to three threads the stressor comes back before its margin is over
\* (stress-ng.c:186-188 against stress-context.c:155-163).
THEOREM RingComesBackInTime == ASSUME ContextThreads <= 3 PROVE MCSpec => []CleanupWithinMargin
<1>1. RP!CleanupWithinMargin => CleanupWithinMargin
  BY DEF CleanupWithinMargin, RP!CleanupWithinMargin, Ring!CleanupWithinMargin
<1> QED
  BY RP!RingWithinMargin, ContextAssumption, RingBesideJob, <1>1, PTL
=============================================================================
