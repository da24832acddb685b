----------------------- MODULE RealtimeBenchmarkProofs ------------------------
(***************************************************************************)
(* Proofs about the multicore tests of test-realtime, each alone, one      *)
(* after the other (MulticoreInit) and in the whole command, with what an  *)
(* earlier test left behind still running: each step of the whole is a     *)
(* step of one test or leaves it alone, so that the invariants of the      *)
(* tests hold of the whole.                                                *)
(*                                                                         *)
(* The clocks.  In the message-queue and the task test all sons announce   *)
(* on one semaphore that they are prepared and that they are done, so that *)
(* the father cannot tell whose post it takes, nor of which phase.  That   *)
(* its clock stops with the last of them is a matter of counting: it takes *)
(* two posts per son, of which each son makes no more than one in each     *)
(* phase.                                                                  *)
(*                                                                         *)
(* The command.  What RealtimeTestsProofs proves of the single-core tests  *)
(* is carried over the same way: CommandInv puts the invariants of the two *)
(* parts side by side.                                                     *)
(***************************************************************************)
EXTENDS RealtimeBenchmark, FiniteSetTheorems, TLAPS

-----------------------------------------------------------------------------
(* The message-queue test: why the two messages of a turn always fit the     *)
(* queue of their pair, for any number of pairs and turns and whichever      *)
(* threads cannot be created.  The counts of the two semaphores of a pair say *)
(* in which half of a turn the pair is; TurnInv writes down what was sent and *)
(* received in each.                                                         *)

\* A pair that has not started, or whose son is between two turns.
NotStarted(p) ==
  /\ ipc_tmp[p] \in {"none", "wait"}
  /\ sent[p] = 0 /\ received[p] = 0 /\ sturn[p] = 0 /\ tturn[p] = 0
  /\ son_to_tmp[p] = 0 /\ tmp_to_son[p] = 0

BetweenTurns(p) ==
  /\ ipc_tmp[p] \in {"wait", "ended"}
  /\ received[p] = 2 * sturn[p] /\ tturn[p] = sturn[p]
  /\ son_to_tmp[p] = 0 /\ tmp_to_son[p] = 0

\* A turn: the tmp thread has not begun, is receiving, or has answered.
Begun(p) ==
  /\ ipc_tmp[p] = "wait" /\ son_to_tmp[p] = 1 /\ tmp_to_son[p] = 0
  /\ received[p] = 2 * sturn[p] /\ tturn[p] = sturn[p]

Receiving(p) ==
  /\ ipc_tmp[p] = "receive" /\ son_to_tmp[p] = 0 /\ tmp_to_son[p] = 0
  /\ received[p] \in 2 * sturn[p] .. 2 * sturn[p] + 2 /\ tturn[p] = sturn[p]

Answered(p) ==
  /\ ipc_tmp[p] \in {"wait", "ended"} /\ son_to_tmp[p] = 0 /\ tmp_to_son[p] = 1
  /\ received[p] = 2 * sturn[p] + 2 /\ tturn[p] = sturn[p] + 1

TurnInv(p) ==
  /\ ipc_son[p] \in {"none", "start", "ready", "failed"} => NotStarted(p)
  /\ ipc_son[p] \in {"none", "start"} => ipc_tmp[p] = "none"
  /\ ipc_son[p] = "ready" => ipc_tmp[p] = "wait"
  /\ ipc_son[p] \in {"ready", "send", "turn"} => sturn[p] < Turns
  /\ ipc_tmp[p] = "ended" => tturn[p] = Turns
  /\ ipc_son[p] = "send" => BetweenTurns(p) /\ sent[p] \in 2 * sturn[p] .. 2 * sturn[p] + 2
  /\ ipc_son[p] = "turn" => sent[p] = 2 * sturn[p] + 2 /\ (Begun(p) \/ Receiving(p) \/ Answered(p))
  /\ ipc_son[p] \in {"join", "ended"} => BetweenTurns(p) /\ sent[p] = 2 * sturn[p]

IpcInv ==
  /\ IpcTypeOK
  /\ ipc_main \in {"queues", "create"} => ipc_father = "none"
  /\ ipc_father \in {"none", "create"} => \A p \in Number : p >= ipc_i => ipc_son[p] = "none"
  /\ \A p \in Number : TurnInv(p)

-----------------------------------------------------------------------------
LEMMA IpcInitInv == IpcInit => IpcInv
  BY IpcAssumption, MulticoreAssumption DEF IpcInit, IpcInv, IpcTypeOK, TurnInv,
     NotStarted, Number

LEMMA IpcLoopType ==
  ASSUME NEW s, ipc_i \in Number, IpcLoop(s)
  PROVE  /\ ipc_i' \in Number /\ ipc_father' \in {ipc_father, s}
         /\ ipc_father' = ipc_father => ipc_i' = ipc_i + 1 \/ s = ipc_father
  BY IpcAssumption, MulticoreAssumption DEF IpcLoop, Number

\* The father touches no pair but the one whose son it creates.
LEMMA IpcFatherInv == ASSUME IpcInv, IpcFather PROVE IpcInv'
<1> USE DEF IpcInv
<1>0. ipc_main' \notin {"queues", "create"}
  BY DEF IpcFather, IpcCreateSon, IpcAwaitReady, IpcNotify, IpcAwaitDone, IpcJoin
<1>1. CASE IpcCreateSon
  <2>1. ipc_i \in Number /\ ipc_father = "create" /\ ipc_son[ipc_i] = "none"
    BY <1>1 DEF IpcCreateSon, IpcTypeOK, Number
  <2>2. CASE "son" \in MayFail /\ ipc_father' = "returned" /\ UNCHANGED <<ipc_i, ipc_son>>
    <3>1. IpcTypeOK'
      BY <1>1, <2>2 DEF IpcCreateSon, IpcTypeOK, ipcTmpVars, ipcSems
    <3>2. ASSUME NEW p \in Number PROVE TurnInv(p)'
      BY <1>1, <2>2 DEF IpcCreateSon, TurnInv, NotStarted, BetweenTurns, Begun, Receiving,
         Answered, ipcTmpVars, ipcSems
    <3>. QED BY <1>0, <2>2, <3>1, <3>2
  <2>3. CASE ipc_son' = [ipc_son EXCEPT ![ipc_i] = "start"] /\ IpcLoop("ready")
    <3>1. IpcTypeOK'
      BY <1>1, <2>1, <2>3, IpcLoopType DEF IpcCreateSon, IpcTypeOK, ipcTmpVars, ipcSems
    <3>2. ipc_father' \in {"none", "create"} =>
            \A p \in Number : p >= ipc_i' => ipc_son'[p] = "none"
      BY <1>1, <2>1, <2>3 DEF IpcCreateSon, IpcTypeOK, IpcLoop, Number
    <3>3. ASSUME NEW p \in Number PROVE TurnInv(p)'
      BY <1>1, <2>1, <2>3 DEF IpcCreateSon, IpcTypeOK, TurnInv, NotStarted, BetweenTurns,
         Begun,
         Receiving, Answered, ipcTmpVars, ipcSems
    <3>. QED BY <1>0, <3>1, <3>2, <3>3
  <2>. QED BY <1>1, <2>2, <2>3 DEF IpcCreateSon
<1>2. CASE IpcAwaitReady \/ IpcNotify \/ IpcAwaitDone \/ IpcJoin
  <2>1. /\ UNCHANGED <<ipcSonVars, ipcTmpVars, ipcSems>>
        /\ ipc_father' \notin {"none", "create"}
    BY <1>2 DEF IpcAwaitReady, IpcNotify, IpcAwaitDone, IpcJoin, IpcLoop, ipcFatherVars
  <2>2. IpcTypeOK'
    <3>1. CASE IpcAwaitReady
      BY <3>1, IpcLoopType DEF IpcAwaitReady, IpcTypeOK, ipcSonVars, ipcTmpVars, ipcSems
    <3>2. CASE IpcNotify
      BY <3>2, IpcLoopType DEF IpcNotify, IpcTypeOK, ipcSonVars, ipcTmpVars, ipcSems
    <3>3. CASE IpcAwaitDone
      BY <3>3, IpcLoopType DEF IpcAwaitDone, IpcTypeOK, ipcSonVars, ipcTmpVars, ipcSems
    <3>4. CASE IpcJoin
      BY <3>4, IpcLoopType DEF IpcJoin, IpcTypeOK, ipcSonVars, ipcTmpVars, ipcSems
    <3>. QED BY <1>2, <3>1, <3>2, <3>3, <3>4
  <2>3. ASSUME NEW p \in Number PROVE TurnInv(p)'
    BY <2>1 DEF TurnInv, NotStarted, BetweenTurns, Begun, Receiving, Answered,
       ipcSonVars, ipcTmpVars, ipcSems
  <2>. QED BY <1>0, <2>1, <2>2, <2>3
<1>. QED BY <1>1, <1>2 DEF IpcFather

\* What multicore_ipc_bw does: no pair is there when it starts the father, nor
\* touched by it.
LEMMA IpcCallerMoves ==
  ASSUME IpcTypeOK, IpcCaller
  PROVE  /\ IpcTypeOK'
         /\ UNCHANGED <<ipc_i, ipc_clock, ipcSonVars, ipcTmpVars, ipcSems, ipc_to_father,
                        ipc_to_son>>
         /\ ipc_father' = ipc_father \/ (ipc_father' = "create" /\ ipc_main = "create")
<1>1. CASE IpcOpenQueues
  BY <1>1 DEF IpcOpenQueues, IpcTypeOK, ipcSonVars, ipcTmpVars, ipcSems
<1>2. CASE IpcCreateFather
  BY <1>2 DEF IpcCreateFather, IpcTypeOK, ipcSonVars, ipcTmpVars, ipcSems
<1>3. CASE IpcReturn
  BY <1>3 DEF IpcReturn, IpcTypeOK, ipcSonVars, ipcTmpVars, ipcSems
<1>. QED BY <1>1, <1>2, <1>3 DEF IpcCaller

LEMMA IpcCallerInv == ASSUME IpcInv, IpcCaller PROVE IpcInv'
<1>1. /\ IpcTypeOK'
      /\ UNCHANGED <<ipc_i, ipcSonVars, ipcTmpVars, ipcSems>>
      /\ ipc_father' = ipc_father \/ (ipc_father' = "create" /\ ipc_main = "create")
  BY IpcCallerMoves DEF IpcInv
<1>2. ipc_main = "create" => ipc_father = "none"
  BY DEF IpcInv
<1>3. ASSUME NEW p \in Number PROVE TurnInv(p)'
  BY <1>1 DEF IpcInv, TurnInv, NotStarted, BetweenTurns, Begun, Receiving, Answered,
     ipcSonVars, ipcTmpVars, ipcSems
<1>4. ipc_main' \in {"queues", "create"} => ipc_father' = "none"
  BY <1>2 DEF IpcInv, IpcCaller, IpcOpenQueues, IpcCreateFather, IpcReturn
<1>5. ipc_father' \in {"none", "create"} =>
        \A p \in Number : p >= ipc_i' => ipc_son'[p] = "none"
  BY <1>1, <1>2 DEF IpcInv, ipcSonVars
<1>. QED BY <1>1, <1>3, <1>4, <1>5 DEF IpcInv

\* A step of one pair leaves the others as they are.
LEMMA IpcFrame ==
  ASSUME IpcInv, NEW p \in Number, IpcPairStep(p), NEW q \in Number, q # p
  PROVE  TurnInv(q)'
<1>1. /\ ipc_son'[q] = ipc_son[q] /\ sent'[q] = sent[q] /\ sturn'[q] = sturn[q]
      /\ ipc_tmp'[q] = ipc_tmp[q] /\ received'[q] = received[q] /\ tturn'[q] = tturn[q]
      /\ son_to_tmp'[q] = son_to_tmp[q] /\ tmp_to_son'[q] = tmp_to_son[q]
  BY DEF IpcInv, IpcTypeOK, IpcPairStep, IpcPrepare, IpcStarted, IpcSend, IpcStartTmp,
     IpcNextTurn, IpcFinish, IpcBeginTurn,
     IpcReceive, IpcEndTurn, ipcSonVars, ipcTmpVars, ipcSems
<1>. QED BY <1>1 DEF IpcInv, TurnInv, NotStarted, BetweenTurns, Begun, Receiving, Answered

LEMMA IpcPairInv == ASSUME IpcInv, NEW p \in Number, IpcPairStep(p) PROVE IpcInv'
<1>1. IpcTypeOK'
  <2> USE DEF IpcInv, IpcTypeOK, ipcSonVars, ipcTmpVars, ipcSems, ipcFatherVars
  <2>1. CASE IpcPrepare(p) BY <2>1 DEF IpcPrepare
  <2>2. CASE IpcStarted(p) BY <2>2 DEF IpcStarted
  <2>3. CASE IpcSend(p) BY <2>3 DEF IpcSend
  <2>4. CASE IpcStartTmp(p) BY <2>4 DEF IpcStartTmp
  <2>5. CASE IpcNextTurn(p) BY <2>5 DEF IpcNextTurn
  <2>6. CASE IpcFinish(p) BY <2>6 DEF IpcFinish
  <2>7. CASE IpcBeginTurn(p) BY <2>7 DEF IpcBeginTurn
  <2>8. CASE IpcReceive(p) BY <2>8 DEF IpcReceive
  <2>9. CASE IpcEndTurn(p) BY <2>9 DEF IpcEndTurn
  <2>. QED BY <2>1, <2>2, <2>3, <2>4, <2>5, <2>6, <2>7, <2>8, <2>9 DEF IpcPairStep
<1>2. /\ ipc_main' \in {"queues", "create"} => ipc_father' = "none"
      /\ ipc_father' \in {"none", "create"} =>
           \A q \in Number : q >= ipc_i' => ipc_son'[q] = "none"
  <2>1. ipc_father' = ipc_father /\ ipc_i' = ipc_i /\ ipc_main' = ipc_main
    BY DEF IpcPairStep, IpcPrepare, IpcStarted, IpcSend, IpcStartTmp, IpcNextTurn,
       IpcFinish, IpcBeginTurn, IpcReceive,
       IpcEndTurn, ipcFatherVars
  <2>2. \/ ipc_son' = ipc_son
        \/ ipc_son[p] # "none" /\ \A q \in Number : q # p => ipc_son'[q] = ipc_son[q]
    BY DEF IpcInv, IpcTypeOK, IpcPairStep, IpcPrepare, IpcStarted, IpcSend, IpcStartTmp,
       IpcNextTurn, IpcFinish, IpcBeginTurn,
       IpcReceive, IpcEndTurn, ipcSonVars
  <2>. QED BY <2>1, <2>2 DEF IpcInv
<1>3. TurnInv(p)'
  <2> USE IpcAssumption, MulticoreAssumption DEF IpcInv, IpcTypeOK, TurnInv, NotStarted, BetweenTurns
  <2>1. CASE IpcPrepare(p) BY <2>1 DEF IpcPrepare, ipcSems
  <2>2. CASE IpcStarted(p) BY <2>2 DEF IpcStarted, ipcTmpVars, ipcSems
  <2>3. CASE IpcSend(p) BY <2>3 DEF IpcSend, ipcTmpVars, ipcSems
  <2>4. CASE IpcStartTmp(p)
    <3>1. sent[p] \in Nat /\ sturn[p] \in Nat /\ sent'[p] = sent[p] /\ sturn'[p] = sturn[p]
      BY <2>4 DEF IpcStartTmp
    <3>. QED BY <2>4, <3>1 DEF IpcStartTmp, ipcTmpVars, Begun
  <2>5. CASE IpcNextTurn(p)
    <3>1. Answered(p) /\ sent[p] = 2 * sturn[p] + 2
      BY <2>5 DEF IpcNextTurn, Begun, Receiving, Answered
    <3>2. /\ sturn[p] \in Nat /\ Turns \in Nat /\ sturn[p] < Turns
          /\ ipc_tmp'[p] = ipc_tmp[p] /\ sent'[p] = sent[p] /\ sturn'[p] = sturn[p] + 1
          /\ received'[p] = received[p] /\ tturn'[p] = tturn[p]
          /\ son_to_tmp'[p] = son_to_tmp[p] /\ tmp_to_son'[p] = 0
          /\ ipc_son'[p] = IF sturn[p] + 1 = Turns THEN "join" ELSE "send"
          /\ ipc_tmp[p] = "ended" => tturn[p] = Turns
      BY <2>5, <3>1 DEF IpcNextTurn, Answered, ipcTmpVars
    <3>. HIDE DEF IpcTypeOK, IpcInv
    <3>3. CASE sturn[p] + 1 = Turns BY <3>1, <3>2, <3>3 DEF Answered
    <3>4. CASE sturn[p] + 1 # Turns BY <3>1, <3>2, <3>4 DEF Answered
    <3>. QED BY <3>3, <3>4
  <2>6. CASE IpcFinish(p) BY <2>6 DEF IpcFinish, ipcTmpVars, ipcSems
  <2>7. CASE IpcBeginTurn(p)
    BY <2>7 DEF IpcBeginTurn, ipcSonVars, Begun, Receiving, Answered
  <2>8. CASE IpcReceive(p)
    BY <2>8 DEF IpcReceive, ipcSonVars, ipcSems, Begun, Receiving, Answered
  <2>9. CASE IpcEndTurn(p) BY <2>9 DEF IpcEndTurn, ipcSonVars, Begun, Receiving, Answered
  <2>. QED BY <2>1, <2>2, <2>3, <2>4, <2>5, <2>6, <2>7, <2>8, <2>9 DEF IpcPairStep
<1>. QED BY <1>1, <1>2, <1>3, IpcFrame DEF IpcInv

\* A step of the test, or none: IpcInv is inductive.
LEMMA IpcStepInv == ASSUME IpcInv, [IpcNext]_ipcVars PROVE IpcInv'
<1>1. CASE UNCHANGED ipcVars
  BY <1>1 DEF IpcInv, IpcTypeOK, TurnInv, NotStarted, BetweenTurns, Begun, Receiving, Answered,
     ipcVars, ipcFatherVars, ipcSonVars, ipcTmpVars, ipcSems
<1>. QED BY <1>1, IpcCallerInv, IpcFatherInv, IpcPairInv DEF IpcNext

LEMMA IpcInvSafe == IpcInv => SendNeverBlocks
  BY DEF IpcInv, IpcTypeOK, TurnInv, BetweenTurns, SendNeverBlocks, MaxMsg

\* The test alone: mq_send never waits inside the measured time, whatever the
\* numbers of pairs and turns, and whichever threads could not be created.
THEOREM QueueNeverFull == IpcSpec => []SendNeverBlocks
  BY IpcInitInv, IpcStepInv, IpcInvSafe, PTL DEF IpcSpec

-----------------------------------------------------------------------------
(* The task test: why no son can touch a semaphore that was destroyed, for   *)
(* any number of sons and tmp threads and whichever of them cannot be        *)
(* created.  The father returns through its loop of joins, or with no son at *)
(* all; what has to be carried along is which sons exist, and which were     *)
(* joined.                                                                   *)

\* The tmp threads of a son.
ThreadsInv(p) ==
  /\ running[p] + joined[p] <= made[p]
  /\ task_son[p] = "work" => made[p] < Creations
  /\ task_son[p] \in {"none", "start", "ready"} => made[p] = 0
  /\ task_son[p] = "ended" => joined[p] = made[p]

\* Which sons exist, and which are over.
SonsInv ==
  /\ task_father \in {"none", "create"} => success_count = task_i - 1
  /\ \A p \in Number : p > success_count => task_son[p] = "none"
  /\ task_father = "join" => \A p \in Number : p < task_i => task_son[p] = "ended"
  /\ task_father = "returned" => \A p \in Number : p <= success_count => task_son[p] = "ended"
  /\ semaphores = "destroyed" => task_father = "returned"

TaskInv == TaskTypeOK /\ SonsInv /\ \A p \in Number : ThreadsInv(p)

-----------------------------------------------------------------------------
LEMMA TaskInitInv == TaskInit => TaskInv
  BY TaskAssumption, MulticoreAssumption DEF TaskInit, TaskInv, TaskTypeOK, SonsInv,
     ThreadsInv, Number

LEMMA TaskLoopType ==
  ASSUME TaskTypeOK, NEW n \in 0..Concurrency, NEW s, TaskLoop(n, s)
  PROVE  task_i' \in Number /\ task_father' \in {task_father, s}
  BY TaskAssumption, MulticoreAssumption DEF TaskTypeOK, TaskLoop, Number

LEMMA TaskFatherInv == ASSUME TaskInv, TaskFather PROVE TaskInv'
<1> USE TaskAssumption, MulticoreAssumption DEF TaskInv
<1>1. TaskTypeOK'
  <2>1. CASE TaskCreateSon
    <3>1. task_i \in Number /\ success_count = task_i - 1
      BY <2>1 DEF TaskCreateSon, TaskTypeOK, SonsInv
    <3>2. success_count + 1 \in 0..Concurrency BY <3>1 DEF Number
    <3>3. task_i' \in Number /\ task_father' \in {"create", "ready", "release", "returned"}
      BY <2>1, <3>1, TaskLoopType DEF TaskCreateSon, Number
    <3>4. success_count' \in 0..Concurrency /\ task_clock' \in {"before", "running", "stopped", "none"}
      BY <2>1, <3>2 DEF TaskCreateSon, TaskTypeOK
    <3>5. task_son' \in [Number -> {"none", "start", "ready", "work", "join", "clear", "ended"}]
      BY <2>1, <3>1 DEF TaskCreateSon, TaskTypeOK
    <3>. QED BY <2>1, <3>3, <3>4, <3>5 DEF TaskCreateSon, TaskTypeOK
  <2>2. CASE TaskAwaitReady
    BY <2>2, TaskLoopType DEF TaskAwaitReady, TaskTypeOK, taskSonVars
  <2>3. CASE TaskNotify BY <2>3, TaskLoopType DEF TaskNotify, TaskTypeOK, taskSonVars
  <2>4. CASE TaskAwaitDone BY <2>4, TaskLoopType DEF TaskAwaitDone, TaskTypeOK, taskSonVars
  <2>5. CASE TaskRelease BY <2>5, TaskLoopType DEF TaskRelease, TaskTypeOK, taskSonVars
  <2>6. CASE TaskJoin BY <2>6, TaskLoopType DEF TaskJoin, TaskTypeOK, taskSonVars
  <2>7. CASE TaskReturn BY <2>7 DEF TaskReturn, TaskTypeOK, taskSonVars
  <2>8. CASE TaskCreateFather BY <2>8 DEF TaskCreateFather, TaskTypeOK, taskSonVars
  <2>. QED BY <2>1, <2>2, <2>3, <2>4, <2>5, <2>6, <2>7, <2>8 DEF TaskFather
<1>2. SonsInv'
  <2>1. CASE TaskCreateSon
    <3>1. /\ task_i \in Nat /\ Concurrency \in Nat /\ success_count = task_i - 1
          /\ task_father = "create" /\ semaphores = "live" /\ semaphores' = "live"
          /\ \A p \in Number : p > success_count => task_son[p] = "none"
      BY <2>1 DEF TaskCreateSon, TaskTypeOK, SonsInv, Number
    <3>2. CASE TaskLoop(Concurrency, "ready") /\ success_count' = success_count + 1
               /\ task_son' = [task_son EXCEPT ![task_i] = "start"]
      <4>1. task_father' \in {"create", "ready"} /\ (task_father' = "create" => task_i' = task_i + 1)
        BY <3>1, <3>2 DEF TaskLoop
      <4>2. \A p \in Number : p > task_i => task_son'[p] = "none"
        BY <3>1, <3>2 DEF TaskTypeOK, Number
      <4>. QED BY <3>1, <3>2, <4>1, <4>2 DEF SonsInv
    <3>3. CASE /\ UNCHANGED <<task_son, success_count>>
               /\ task_father' = IF success_count = 0 THEN "returned" ELSE "release"
      BY <3>1, <3>3 DEF SonsInv, Number
    <3>. QED BY <2>1, <3>2, <3>3 DEF TaskCreateSon
  <2>2. CASE TaskAwaitReady \/ TaskNotify \/ TaskAwaitDone \/ TaskRelease
    <3>1. /\ task_father \notin {"none", "create", "join", "returned"} /\ semaphores = "live"
          /\ UNCHANGED <<success_count, task_son, semaphores>>
          /\ task_father' = "join" => task_i' = 1
          /\ task_father' \notin {"none", "create", "returned"}
      BY <2>2 DEF TaskAwaitReady, TaskNotify, TaskAwaitDone, TaskRelease, TaskLoop,
         taskSonVars, SonsInv, TaskTypeOK
    <3>. QED BY <3>1 DEF SonsInv, Number
  <2>3. CASE TaskJoin
    <3>1. /\ task_i \in Nat /\ success_count \in Nat /\ task_father = "join" /\ task_son[task_i] = "ended"
          /\ semaphores = "live" /\ UNCHANGED <<success_count, task_son, semaphores>>
          /\ \A p \in Number : p < task_i => task_son[p] = "ended"
      BY <2>3 DEF TaskJoin, SonsInv, TaskTypeOK, Number, taskSonVars
    <3>2. \A p \in Number : p < task_i + 1 => task_son[p] = "ended"
      BY <3>1 DEF Number
    <3>3. CASE task_i < success_count /\ task_i' = task_i + 1 /\ task_father' = task_father
      BY <3>1, <3>2, <3>3 DEF SonsInv
    <3>4. CASE ~(task_i < success_count) /\ task_i' = 1 /\ task_father' = "returned"
      <4>1. \A p \in Number : p <= success_count => task_son[p] = "ended"
        BY <3>1, <3>2, <3>4 DEF Number
      <4>. QED BY <3>1, <3>4, <4>1 DEF SonsInv
    <3>. QED BY <2>3, <3>3, <3>4 DEF TaskJoin, TaskLoop
  <2>4. CASE TaskReturn
    BY <2>4 DEF TaskReturn, SonsInv, taskSonVars
  <2>5. CASE TaskCreateFather
    BY <2>5 DEF TaskCreateFather, SonsInv, taskSonVars
  <2>. QED BY <2>1, <2>2, <2>3, <2>4, <2>5 DEF TaskFather
<1>3. ASSUME NEW p \in Number PROVE ThreadsInv(p)'
  <2>1. CASE TaskCreateSon
    <3>1. task_son[task_i] = "none" /\ task_i \in Number
      BY <2>1 DEF TaskCreateSon, SonsInv, TaskTypeOK, Number
    <3>. QED BY <2>1, <3>1 DEF TaskCreateSon, ThreadsInv, TaskTypeOK
  <2>2. CASE UNCHANGED taskSonVars
    BY <2>2 DEF ThreadsInv, taskSonVars
  <2>. QED
    BY <2>1, <2>2 DEF TaskFather, TaskCreateFather, TaskAwaitReady, TaskNotify,
       TaskAwaitDone, TaskRelease, TaskJoin, TaskReturn
<1>. QED BY <1>1, <1>2, <1>3

LEMMA TaskSonInv == ASSUME TaskInv, NEW p \in Number, TaskSon(p) \/ TaskTmpEnds(p) PROVE TaskInv'
<1> USE TaskAssumption, MulticoreAssumption DEF TaskInv, taskFatherVars
<1>1. /\ made[p] \in 0..Creations /\ running[p] \in 0..Creations /\ joined[p] \in 0..Creations
      /\ ThreadsInv(p)
  BY DEF TaskTypeOK
<1>2. TaskTypeOK'
  <2>1. CASE TaskPrepared(p) BY <2>1 DEF TaskPrepared, TaskTypeOK
  <2>2. CASE TaskStarted(p) BY <2>2 DEF TaskStarted, TaskTypeOK
  <2>3. CASE TaskCreateTmp(p)
    <3>1. made[p] + 1 \in 0..Creations /\ running[p] + 1 \in 0..Creations
      BY <1>1, <2>3 DEF TaskCreateTmp, ThreadsInv
    <3>. QED BY <2>3, <3>1 DEF TaskCreateTmp, TaskTypeOK
  <2>4. CASE TaskCreateTmpFails(p) BY <2>4 DEF TaskCreateTmpFails, TaskTypeOK
  <2>5. CASE TaskTmpEnds(p)
    <3>1. running[p] - 1 \in 0..Creations BY <1>1, <2>5 DEF TaskTmpEnds
    <3>. QED BY <2>5, <3>1 DEF TaskTmpEnds, TaskTypeOK
  <2>6. CASE TaskJoinTmp(p)
    <3>1. joined[p] + 1 \in 0..Creations BY <1>1, <2>6 DEF TaskJoinTmp
    <3>. QED BY <2>6, <3>1 DEF TaskJoinTmp, TaskTypeOK
  <2>7. CASE TaskFinish(p) BY <2>7 DEF TaskFinish, TaskTypeOK
  <2>8. CASE TaskCleared(p) BY <2>8 DEF TaskCleared, TaskTypeOK
  <2>. QED BY <2>1, <2>2, <2>3, <2>4, <2>5, <2>6, <2>7, <2>8 DEF TaskSon
<1>3. SonsInv'
  <2>1. /\ UNCHANGED <<task_father, task_i, success_count, semaphores>>
        /\ task_son' = task_son \/ (task_son[p] \notin {"none", "ended"}
                          /\ \A q \in Number : q # p => task_son'[q] = task_son[q])
    BY DEF TaskTypeOK, TaskSon, TaskPrepared, TaskStarted, TaskCreateTmp,
       TaskCreateTmpFails, TaskJoinTmp, TaskFinish, TaskCleared,
       TaskTmpEnds
  <2>. QED BY <2>1 DEF SonsInv
<1>4. ASSUME NEW q \in Number PROVE ThreadsInv(q)'
  <2>1. CASE q # p
    <3>1. /\ task_son'[q] = task_son[q] /\ made'[q] = made[q] /\ running'[q] = running[q]
          /\ joined'[q] = joined[q]
      BY <2>1 DEF TaskTypeOK, TaskSon, TaskPrepared, TaskStarted, TaskCreateTmp,
         TaskCreateTmpFails, TaskJoinTmp, TaskFinish,
         TaskCleared, TaskTmpEnds
    <3>. QED BY <3>1 DEF ThreadsInv
  <2>2. CASE q = p
    <3>1. CASE TaskPrepared(p) BY <1>1, <2>2, <3>1 DEF TaskPrepared, TaskTypeOK, ThreadsInv
    <3>2. CASE TaskStarted(p) BY <1>1, <2>2, <3>2 DEF TaskStarted, TaskTypeOK, ThreadsInv
    <3>3. CASE TaskCreateTmp(p)
      <4>1. /\ made'[p] = made[p] + 1 /\ running'[p] = running[p] + 1 /\ joined'[p] = joined[p]
            /\ task_son'[p] \in {"work", "join"} /\ (task_son'[p] = "work" => made[p] + 1 # Creations)
            /\ made[p] < Creations
        BY <1>1, <3>3 DEF TaskCreateTmp, TaskTypeOK, ThreadsInv
      <4>. QED BY <1>1, <2>2, <4>1 DEF ThreadsInv
    <3>4. CASE TaskCreateTmpFails(p)
      BY <1>1, <2>2, <3>4 DEF TaskCreateTmpFails, TaskTypeOK, ThreadsInv
    <3>5. CASE TaskTmpEnds(p) BY <1>1, <2>2, <3>5 DEF TaskTmpEnds, TaskTypeOK, ThreadsInv
    <3>6. CASE TaskJoinTmp(p) BY <1>1, <2>2, <3>6 DEF TaskJoinTmp, TaskTypeOK, ThreadsInv
    <3>7. CASE TaskFinish(p) BY <1>1, <2>2, <3>7 DEF TaskFinish, TaskTypeOK, ThreadsInv
    <3>8. CASE TaskCleared(p) BY <1>1, <2>2, <3>8 DEF TaskCleared, TaskTypeOK, ThreadsInv
    <3>. QED BY <3>1, <3>2, <3>3, <3>4, <3>5, <3>6, <3>7, <3>8 DEF TaskSon
  <2>. QED BY <2>1, <2>2
<1>. QED BY <1>2, <1>3, <1>4

\* A step of the test, or none: TaskInv is inductive.
LEMMA TaskStepInv == ASSUME TaskInv, [TaskNext]_taskVars PROVE TaskInv'
<1>1. CASE UNCHANGED taskVars
  BY <1>1 DEF TaskInv, TaskTypeOK, SonsInv, ThreadsInv, taskVars, taskFatherVars, taskSonVars
<1>. QED BY <1>1, TaskFatherInv, TaskSonInv DEF TaskNext

LEMMA TaskInvSafe == TaskInv => SemaphoresOutliveSons
<1> SUFFICES ASSUME TaskInv, semaphores = "destroyed", NEW p \in Number
             PROVE  task_son[p] \in {"none", "ended"} /\ joined[p] = made[p]
  BY DEF SemaphoresOutliveSons
<1>1. task_son[p] \in {"none", "ended"} BY DEF TaskInv, SonsInv, TaskTypeOK, Number
<1>2. /\ made[p] \in 0..Creations /\ running[p] \in 0..Creations
      /\ joined[p] \in 0..Creations /\ ThreadsInv(p)
  BY DEF TaskInv, TaskTypeOK
<1>. QED BY <1>1, <1>2, TaskAssumption, MulticoreAssumption DEF ThreadsInv

\* The test alone: multicore_task_lat destroys the semaphores when every son it
\* created is over and has joined its threads, for any number of sons and
\* creations and whichever of them failed.
THEOREM DestroyedAfterUse == TaskSpec => []SemaphoresOutliveSons
  BY TaskInitInv, TaskStepInv, TaskInvSafe, PTL DEF TaskSpec

-----------------------------------------------------------------------------
(* The clocks. *)

LEMMA NumberCount ==
  ASSUME NEW S, S \subseteq Number
  PROVE  /\ Cardinality(S) \in 0..Concurrency
         /\ Cardinality(S) = Concurrency => S = Number
<1>1. IsFiniteSet(Number) /\ Cardinality(Number) = Concurrency
  BY FS_Interval, MulticoreAssumption DEF Number
<1>2. IsFiniteSet(S) /\ Cardinality(S) <= Cardinality(Number)
  BY <1>1, FS_Subset
<1>3. Cardinality(S) = Cardinality(Number) => S = Number
  BY <1>1, FS_Subset
<1>. QED BY <1>1, <1>2, <1>3, FS_CardinalityType, MulticoreAssumption

LEMMA OneMore ==
  ASSUME NEW S, S \subseteq Number, NEW p \in Number, p \notin S
  PROVE  Cardinality(S \cup {p}) = Cardinality(S) + 1
<1>1. IsFiniteSet(Number)
  BY FS_Interval, MulticoreAssumption DEF Number
<1>2. IsFiniteSet(S)
  BY <1>1, FS_Subset
<1>. QED BY <1>2, FS_AddElement

-----------------------------------------------------------------------------
(* The message-queue test. *)

IpcPrepared == {p \in Number : ipc_son[p] \notin {"none", "start"}}
IpcOver == {p \in Number : ipc_son[p] = "ended"}

\* How many posts the father has taken.
IpcHeard ==
  IF ipc_father \in {"none", "create"} THEN 0
  ELSE IF ipc_father = "ready" THEN ipc_i - 1
  ELSE IF ipc_father = "notify" THEN Concurrency
  ELSE Concurrency + ipc_i - 1

IpcCountInv ==
  ipc_father \in {"none", "create", "ready", "notify", "wait"} =>
    IpcHeard + ipc_to_father = Cardinality(IpcPrepared) + Cardinality(IpcOver)

\* No son starts before the clock, and all are over when it stops.
IpcClockInv ==
  /\ ipc_father \in {"none", "create", "ready"} => ipc_clock = "before"
  /\ ipc_father \in {"notify", "wait"} => ipc_clock = "running"
  /\ ipc_clock = "running" => ipc_father \in {"notify", "wait"}
  /\ ipc_clock = "before" =>
       /\ ipc_to_son = 0
       /\ \A p \in Number : ipc_son[p] \in {"none", "start", "ready", "failed"}
  /\ ipc_clock = "stopped" => IpcOver = Number
  /\ \A p \in Number : ipc_son[p] \in {"join", "ended"} => sturn[p] = Turns

IpcSpanInv == IpcInv /\ IpcCountInv /\ IpcClockInv

LEMMA IpcSpanInit == IpcInit => IpcSpanInv
<1> SUFFICES ASSUME IpcInit PROVE IpcSpanInv
  OBVIOUS
<1>1. IpcPrepared = {} /\ IpcOver = {}
  BY DEF IpcInit, IpcPrepared, IpcOver
<1>2. IpcCountInv
  BY <1>1, FS_EmptySet DEF IpcInit, IpcCountInv, IpcHeard
<1>. QED BY <1>2, IpcInitInv DEF IpcInit, IpcSpanInv, IpcClockInv

LEMMA IpcFatherSpan == ASSUME IpcSpanInv, IpcFather PROVE IpcCountInv' /\ IpcClockInv'
<1>1. /\ IpcTypeOK /\ IpcCountInv /\ IpcClockInv /\ ipc_i \in Number /\ ipc_to_father \in Nat
      /\ Concurrency \in Nat \ {0} /\ ipc_i \in 1..Concurrency
  BY MulticoreAssumption DEF IpcSpanInv, IpcInv, IpcTypeOK, Number
<1>2. CASE IpcCreateSon
  <2>1. ipc_father = "create" /\ ipc_son[ipc_i] = "none"
    BY <1>1, <1>2 DEF IpcCreateSon, IpcSpanInv, IpcInv, Number
  <2>2. \A p \in Number : \/ ipc_son'[p] = ipc_son[p]
                          \/ ipc_son[p] = "none" /\ ipc_son'[p] = "start"
    BY <1>1, <1>2, <2>1 DEF IpcCreateSon, IpcTypeOK
  <2>3. IpcPrepared' = IpcPrepared /\ IpcOver' = IpcOver
    BY <2>2 DEF IpcPrepared, IpcOver
  <2>4. /\ ipc_father' \in {"create", "ready", "returned"}
        /\ ipc_father' = "ready" => ipc_i' = 1
        /\ UNCHANGED <<ipc_clock, ipc_to_father, ipc_to_son, sturn>>
    BY <1>2, <2>1 DEF IpcCreateSon, IpcLoop
  <2>5. IpcCountInv'
    BY <1>1, <2>1, <2>3, <2>4 DEF IpcCountInv, IpcHeard
  <2>. QED BY <1>1, <2>1, <2>2, <2>3, <2>4, <2>5 DEF IpcClockInv
<1>3. CASE IpcAwaitReady
  <2>1. /\ ipc_father = "ready" /\ ipc_to_father > 0 /\ ipc_to_father' = ipc_to_father - 1
        /\ UNCHANGED <<ipc_son, sturn, ipc_to_son>>
        /\ IpcPrepared' = IpcPrepared /\ IpcOver' = IpcOver
    BY <1>3 DEF IpcAwaitReady, ipcSonVars, IpcPrepared, IpcOver
  <2>2. \/ ipc_i < Concurrency /\ ipc_i' = ipc_i + 1 /\ ipc_father' = "ready" /\ ipc_clock' = ipc_clock
        \/ ipc_i = Concurrency /\ ipc_i' = 1 /\ ipc_father' = "notify" /\ ipc_clock' = "running"
    BY <1>1, <1>3 DEF IpcAwaitReady, IpcLoop
  <2>3. IpcCountInv'
    BY <1>1, <2>1, <2>2 DEF IpcCountInv, IpcHeard
  <2>. QED BY <1>1, <2>1, <2>2, <2>3 DEF IpcClockInv
<1>4. CASE IpcNotify
  <2>1. /\ ipc_father = "notify" /\ ipc_father' \in {"notify", "wait"}
        /\ ipc_father' = "wait" => ipc_i' = 1
        /\ UNCHANGED <<ipc_clock, ipc_to_father, ipc_son, sturn>>
        /\ IpcPrepared' = IpcPrepared /\ IpcOver' = IpcOver
    BY <1>4 DEF IpcNotify, IpcLoop, ipcSonVars, IpcPrepared, IpcOver
  <2>2. IpcCountInv'
    BY <1>1, <2>1 DEF IpcCountInv, IpcHeard
  <2>. QED BY <1>1, <2>1, <2>2 DEF IpcClockInv
<1>5. CASE IpcAwaitDone
  <2>1. /\ ipc_father = "wait" /\ ipc_to_father > 0 /\ ipc_to_father' = ipc_to_father - 1
        /\ UNCHANGED <<ipc_son, sturn, ipc_to_son>>
        /\ IpcPrepared' = IpcPrepared /\ IpcOver' = IpcOver
    BY <1>5 DEF IpcAwaitDone, ipcSonVars, IpcPrepared, IpcOver
  <2>2. \/ ipc_i < Concurrency /\ ipc_i' = ipc_i + 1 /\ ipc_father' = "wait" /\ ipc_clock' = ipc_clock
        \/ ipc_i = Concurrency /\ ipc_father' = "join" /\ ipc_clock' = "stopped"
    BY <1>1, <1>5 DEF IpcAwaitDone, IpcLoop
  <2>3. IpcCountInv'
    BY <1>1, <2>1, <2>2 DEF IpcCountInv, IpcHeard
  <2>4. ASSUME ipc_i = Concurrency PROVE IpcOver = Number
    <3>1. Concurrency + Concurrency - 1 + ipc_to_father
            = Cardinality(IpcPrepared) + Cardinality(IpcOver)
      BY <1>1, <2>1, <2>4 DEF IpcCountInv, IpcHeard
    <3>2. Cardinality(IpcPrepared) \in 0..Concurrency /\ Cardinality(IpcOver) \in 0..Concurrency
      BY NumberCount DEF IpcPrepared, IpcOver
    <3>3. Cardinality(IpcOver) = Concurrency
      BY <1>1, <2>1, <3>1, <3>2
    <3>. QED BY <3>3, NumberCount DEF IpcOver
  <2>. QED BY <1>1, <2>1, <2>2, <2>3, <2>4 DEF IpcClockInv
<1>6. CASE IpcJoin
  <2>1. /\ ipc_father \in {"join", "returned"} /\ ipc_father' \in {"join", "returned"}
        /\ UNCHANGED <<ipc_clock, ipc_to_son, ipc_son, sturn>>
        /\ IpcOver' = IpcOver
    BY <1>6 DEF IpcJoin, IpcLoop, ipcSonVars, IpcOver
  <2>. QED BY <1>1, <2>1 DEF IpcClockInv, IpcCountInv
<1>. QED BY <1>2, <1>3, <1>4, <1>5, <1>6 DEF IpcFather

LEMMA IpcCallerSpan == ASSUME IpcSpanInv, IpcCaller PROVE IpcCountInv' /\ IpcClockInv'
<1>1. /\ UNCHANGED <<ipc_i, ipc_clock, ipcSonVars, ipc_to_father, ipc_to_son>>
      /\ ipc_father' = ipc_father \/ (ipc_father' = "create" /\ ipc_father = "none")
  BY IpcCallerMoves DEF IpcSpanInv, IpcInv
<1>2. IpcPrepared' = IpcPrepared /\ IpcOver' = IpcOver
  BY <1>1 DEF IpcPrepared, IpcOver, ipcSonVars
<1>. QED
  BY <1>1, <1>2 DEF IpcSpanInv, IpcCountInv, IpcClockInv, IpcHeard, ipcSonVars

LEMMA IpcPairSpan ==
  ASSUME IpcSpanInv, NEW p \in Number, IpcPairStep(p)
  PROVE  IpcCountInv' /\ IpcClockInv'
<1>1. /\ IpcTypeOK /\ IpcCountInv /\ IpcClockInv /\ TurnInv(p)
      /\ ipc_to_father \in Nat /\ ipc_to_son \in Nat /\ Concurrency \in Nat \ {0}
      /\ ipc_i \in 1..Concurrency
  BY MulticoreAssumption DEF IpcSpanInv, IpcInv, IpcTypeOK, Number
<1>2. /\ UNCHANGED <<ipc_father, ipc_i, ipc_clock>> /\ IpcHeard' = IpcHeard
      /\ \A q \in Number : q # p => ipc_son'[q] = ipc_son[q] /\ sturn'[q] = sturn[q]
  <2>1. /\ UNCHANGED <<ipc_father, ipc_i, ipc_clock>>
        /\ \A q \in Number : q # p => ipc_son'[q] = ipc_son[q] /\ sturn'[q] = sturn[q]
    BY <1>1 DEF IpcTypeOK, IpcPairStep, IpcPrepare, IpcStarted, IpcSend, IpcStartTmp, IpcNextTurn,
       IpcFinish, IpcBeginTurn, IpcReceive, IpcEndTurn, ipcFatherVars, ipcSonVars
  <2>. QED BY <2>1 DEF IpcHeard
<1>3. Cardinality(IpcPrepared) \in Nat /\ Cardinality(IpcOver) \in Nat /\ IpcHeard \in Int
  BY <1>1, NumberCount DEF IpcPrepared, IpcOver, IpcHeard
<1>4. CASE IpcPrepare(p)
  <2>1. /\ ipc_son[p] = "start" /\ ipc_son'[p] \in {"ready", "failed"}
        /\ ipc_to_father' = ipc_to_father + 1 /\ UNCHANGED <<ipc_to_son, sturn>>
    BY <1>1, <1>4 DEF IpcPrepare, IpcTypeOK
  <2>2. IpcPrepared' = IpcPrepared \cup {p} /\ p \notin IpcPrepared /\ IpcOver' = IpcOver
    BY <1>2, <2>1 DEF IpcPrepared, IpcOver
  <2>3. Cardinality(IpcPrepared') = Cardinality(IpcPrepared) + 1
    BY <2>2, OneMore DEF IpcPrepared
  <2>4. IpcCountInv'
    BY <1>1, <1>2, <1>3, <2>1, <2>2, <2>3 DEF IpcCountInv
  <2>. QED BY <1>1, <1>2, <2>1, <2>2, <2>4 DEF IpcClockInv
<1>5. CASE IpcFinish(p)
  <2>1. /\ ipc_son[p] = "join" /\ ipc_son'[p] = "ended"
        /\ ipc_to_father' = ipc_to_father + 1 /\ UNCHANGED <<ipc_to_son, sturn>>
    BY <1>1, <1>5 DEF IpcFinish, IpcTypeOK
  <2>2. IpcPrepared' = IpcPrepared /\ p \notin IpcOver /\ IpcOver' = IpcOver \cup {p}
    BY <1>2, <2>1 DEF IpcPrepared, IpcOver
  <2>3. Cardinality(IpcOver') = Cardinality(IpcOver) + 1
    BY <2>2, OneMore DEF IpcOver
  <2>4. IpcCountInv'
    BY <1>1, <1>2, <1>3, <2>1, <2>2, <2>3 DEF IpcCountInv
  <2>. QED BY <1>1, <1>2, <2>1, <2>2, <2>4 DEF IpcClockInv, IpcOver
<1>6. CASE IpcStarted(p) \/ IpcStartTmp(p) \/ IpcNextTurn(p)
  <2>1. /\ ipc_son[p] \in {"ready", "send", "turn"} /\ ipc_son'[p] \in {"send", "turn", "join"}
        /\ ipc_son[p] = "ready" => ipc_to_son > 0
        /\ ipc_clock # "before" \/ ipc_to_son = 0
        /\ ipc_son'[p] = "join" => sturn'[p] = Turns
        /\ UNCHANGED ipc_to_father
    BY <1>1, <1>6 DEF IpcStarted, IpcStartTmp, IpcNextTurn, IpcTypeOK, IpcClockInv, ipcSonVars
  <2>2. IpcPrepared' = IpcPrepared /\ IpcOver' = IpcOver
    BY <1>2, <2>1 DEF IpcPrepared, IpcOver
  <2>3. ipc_clock = "running"
    BY <1>1, <2>1 DEF IpcClockInv, IpcOver, IpcTypeOK
  <2>4. IpcCountInv'
    BY <1>1, <1>2, <2>1, <2>2 DEF IpcCountInv
  <2>. QED BY <1>1, <1>2, <2>1, <2>2, <2>3, <2>4 DEF IpcClockInv
<1>7. CASE IpcSend(p) \/ IpcBeginTurn(p) \/ IpcReceive(p) \/ IpcEndTurn(p)
  <2>1. /\ UNCHANGED <<ipc_son, sturn, ipc_to_father, ipc_to_son>>
        /\ IpcPrepared' = IpcPrepared /\ IpcOver' = IpcOver
    BY <1>7 DEF IpcSend, IpcBeginTurn, IpcReceive, IpcEndTurn, ipcSonVars, IpcPrepared, IpcOver
  <2>. QED BY <1>1, <1>2, <2>1 DEF IpcCountInv, IpcClockInv
<1>. QED BY <1>4, <1>5, <1>6, <1>7 DEF IpcPairStep

LEMMA IpcSpanStep == ASSUME IpcSpanInv, [IpcNext]_ipcVars PROVE IpcSpanInv'
<1>1. IpcInv'
  BY IpcStepInv DEF IpcSpanInv
<1>2. CASE UNCHANGED ipcVars
  BY <1>1, <1>2 DEF IpcSpanInv, IpcCountInv, IpcClockInv, IpcHeard, IpcPrepared, IpcOver,
     ipcVars, ipcFatherVars, ipcSonVars
<1>. QED BY <1>1, <1>2, IpcCallerSpan, IpcFatherSpan, IpcPairSpan DEF IpcNext, IpcSpanInv

LEMMA IpcSpanSafe == IpcSpanInv => ClockSpansTraffic
<1> SUFFICES ASSUME IpcSpanInv PROVE ClockSpansTraffic
  OBVIOUS
<1>1. IpcClockInv /\ \A p \in Number : TurnInv(p)
  BY DEF IpcSpanInv, IpcInv
<1>2. ASSUME ipc_clock = "before", NEW p \in Number PROVE sent[p] = 0
  BY <1>1, <1>2 DEF IpcClockInv, TurnInv, NotStarted
<1>3. ASSUME ipc_clock = "stopped", NEW p \in Number PROVE received[p] = 2 * Turns
  BY <1>1, <1>3 DEF IpcClockInv, IpcOver, TurnInv, BetweenTurns
<1>. QED BY <1>2, <1>3 DEF ClockSpansTraffic

-----------------------------------------------------------------------------
(* The task test. *)

TaskPreparedSons == {p \in Number : task_son[p] \notin {"none", "start"}}
TaskAnswered == {p \in Number : task_son[p] \in {"clear", "ended"}}

\* How many posts the father has taken.
TaskHeard ==
  IF task_father \in {"none", "create"} THEN 0
  ELSE IF task_father = "ready" THEN task_i - 1
  ELSE IF task_father = "notify" THEN Concurrency
  ELSE Concurrency + task_i - 1

TaskCountInv ==
  task_father \in {"none", "create", "ready", "notify", "wait"} =>
    TaskHeard + task_to_father = Cardinality(TaskPreparedSons) + Cardinality(TaskAnswered)

\* No son starts before the clock, and all have answered when it stops.
TaskClockInv ==
  /\ task_father \in {"none", "create", "ready"} => task_clock = "before"
  /\ task_father \in {"notify", "wait"} => task_clock = "running"
  /\ task_father = "release" => task_clock = "none"
  /\ task_clock = "running" => task_father \in {"notify", "wait"}
  /\ task_clock = "before" =>
       /\ task_to_son = 0
       /\ \A p \in Number : task_son[p] \in {"none", "start", "ready"}
  /\ task_clock = "stopped" => TaskAnswered = Number
  /\ \A p \in Number : task_son[p] = "clear" => made[p] < Creations

TaskSpanInv == TaskInv /\ TaskCountInv /\ TaskClockInv

LEMMA TaskSpanInit == TaskInit => TaskSpanInv
<1> SUFFICES ASSUME TaskInit PROVE TaskSpanInv
  OBVIOUS
<1>1. TaskPreparedSons = {} /\ TaskAnswered = {}
  BY DEF TaskInit, TaskPreparedSons, TaskAnswered
<1>2. TaskCountInv
  BY <1>1, FS_EmptySet DEF TaskInit, TaskCountInv, TaskHeard
<1>. QED BY <1>2, TaskInitInv DEF TaskInit, TaskSpanInv, TaskClockInv

LEMMA TaskFatherSpan == ASSUME TaskSpanInv, TaskFather PROVE TaskCountInv' /\ TaskClockInv'
<1>1. /\ TaskTypeOK /\ SonsInv /\ TaskCountInv /\ TaskClockInv /\ task_i \in Number
      /\ task_to_father \in Nat /\ Concurrency \in Nat \ {0} /\ task_i \in 1..Concurrency
      /\ success_count \in 0..Concurrency
  BY MulticoreAssumption DEF TaskSpanInv, TaskInv, TaskTypeOK, Number
<1>2. CASE TaskCreateSon
  <2>1. task_father = "create" /\ task_son[task_i] = "none" /\ task_clock = "before"
    BY <1>1, <1>2 DEF TaskCreateSon, SonsInv, TaskClockInv, Number
  <2>2. \A p \in Number : \/ task_son'[p] = task_son[p]
                          \/ task_son[p] = "none" /\ task_son'[p] = "start"
    BY <1>1, <1>2, <2>1 DEF TaskCreateSon, TaskTypeOK
  <2>3. TaskPreparedSons' = TaskPreparedSons /\ TaskAnswered' = TaskAnswered
    BY <2>2 DEF TaskPreparedSons, TaskAnswered
  <2>4. /\ \/ task_father' \in {"create", "ready"} /\ task_clock' = "before"
           \/ task_father' \in {"release", "returned"} /\ task_clock' = "none"
        /\ task_father' = "ready" => task_i' = 1
        /\ UNCHANGED <<task_to_father, task_to_son, made>>
    BY <1>2, <2>1 DEF TaskCreateSon, TaskLoop
  <2>5. TaskCountInv'
    BY <1>1, <2>1, <2>3, <2>4 DEF TaskCountInv, TaskHeard
  <2>. QED BY <1>1, <2>1, <2>2, <2>3, <2>4, <2>5 DEF TaskClockInv
<1>3. CASE TaskAwaitReady
  <2>1. /\ task_father = "ready" /\ task_to_father > 0 /\ task_to_father' = task_to_father - 1
        /\ UNCHANGED <<task_son, made, task_to_son>>
        /\ TaskPreparedSons' = TaskPreparedSons /\ TaskAnswered' = TaskAnswered
    BY <1>3 DEF TaskAwaitReady, taskSonVars, TaskPreparedSons, TaskAnswered
  <2>2. \/ task_i < Concurrency /\ task_i' = task_i + 1 /\ task_father' = "ready" /\ task_clock' = task_clock
        \/ task_i = Concurrency /\ task_i' = 1 /\ task_father' = "notify" /\ task_clock' = "running"
    BY <1>1, <1>3 DEF TaskAwaitReady, TaskLoop
  <2>3. TaskCountInv'
    BY <1>1, <2>1, <2>2 DEF TaskCountInv, TaskHeard
  <2>. QED BY <1>1, <2>1, <2>2, <2>3 DEF TaskClockInv
<1>4. CASE TaskNotify
  <2>1. /\ task_father = "notify" /\ task_father' \in {"notify", "wait"}
        /\ task_father' = "wait" => task_i' = 1
        /\ UNCHANGED <<task_clock, task_to_father, task_son, made>>
        /\ TaskPreparedSons' = TaskPreparedSons /\ TaskAnswered' = TaskAnswered
    BY <1>4 DEF TaskNotify, TaskLoop, taskSonVars, TaskPreparedSons, TaskAnswered
  <2>2. TaskCountInv'
    BY <1>1, <2>1 DEF TaskCountInv, TaskHeard
  <2>. QED BY <1>1, <2>1, <2>2 DEF TaskClockInv
<1>5. CASE TaskAwaitDone
  <2>1. /\ task_father = "wait" /\ task_to_father > 0 /\ task_to_father' = task_to_father - 1
        /\ UNCHANGED <<task_son, made, task_to_son>>
        /\ TaskPreparedSons' = TaskPreparedSons /\ TaskAnswered' = TaskAnswered
    BY <1>5 DEF TaskAwaitDone, taskSonVars, TaskPreparedSons, TaskAnswered
  <2>2. \/ task_i < Concurrency /\ task_i' = task_i + 1 /\ task_father' = "wait" /\ task_clock' = task_clock
        \/ task_i = Concurrency /\ task_father' = "join" /\ task_clock' = "stopped"
    BY <1>1, <1>5 DEF TaskAwaitDone, TaskLoop
  <2>3. TaskCountInv'
    BY <1>1, <2>1, <2>2 DEF TaskCountInv, TaskHeard
  <2>4. ASSUME task_i = Concurrency PROVE TaskAnswered = Number
    <3>1. Concurrency + Concurrency - 1 + task_to_father
            = Cardinality(TaskPreparedSons) + Cardinality(TaskAnswered)
      BY <1>1, <2>1, <2>4 DEF TaskCountInv, TaskHeard
    <3>2. Cardinality(TaskPreparedSons) \in 0..Concurrency /\ Cardinality(TaskAnswered) \in 0..Concurrency
      BY NumberCount DEF TaskPreparedSons, TaskAnswered
    <3>3. Cardinality(TaskAnswered) = Concurrency
      BY <1>1, <2>1, <3>1, <3>2
    <3>. QED BY <3>3, NumberCount DEF TaskAnswered
  <2>. QED BY <1>1, <2>1, <2>2, <2>3, <2>4 DEF TaskClockInv
<1>6. CASE TaskRelease \/ TaskJoin \/ TaskReturn
  <2>1. /\ task_father \in {"release", "join", "returned"}
        /\ task_father' \in {"release", "join", "returned"}
        /\ task_father' = "release" => task_father = "release"
        /\ UNCHANGED <<task_clock, task_son, made>>
        /\ task_to_son' = task_to_son \/ task_clock = "none"
        /\ TaskAnswered' = TaskAnswered
    BY <1>1, <1>6 DEF TaskRelease, TaskJoin, TaskReturn, TaskLoop, SonsInv, TaskClockInv,
       taskSonVars, TaskAnswered
  <2>. QED BY <1>1, <2>1 DEF TaskClockInv, TaskCountInv
<1>7. CASE TaskCreateFather
  <2>1. /\ task_father = "none" /\ task_father' \in {"create", "refused"}
        /\ UNCHANGED <<task_i, task_clock, task_son, made, task_to_father, task_to_son>>
        /\ TaskPreparedSons' = TaskPreparedSons /\ TaskAnswered' = TaskAnswered
    BY <1>7 DEF TaskCreateFather, taskSonVars, TaskPreparedSons, TaskAnswered
  <2>. QED BY <1>1, <2>1 DEF TaskClockInv, TaskCountInv, TaskHeard
<1>. QED BY <1>2, <1>3, <1>4, <1>5, <1>6, <1>7 DEF TaskFather

LEMMA TaskSonSpan ==
  ASSUME TaskSpanInv, NEW p \in Number, TaskSon(p) \/ TaskTmpEnds(p)
  PROVE  TaskCountInv' /\ TaskClockInv'
<1>1. /\ TaskTypeOK /\ TaskCountInv /\ TaskClockInv /\ ThreadsInv(p)
      /\ task_to_father \in Nat /\ task_to_son \in Nat /\ Concurrency \in Nat \ {0}
      /\ task_i \in 1..Concurrency
  BY MulticoreAssumption DEF TaskSpanInv, TaskInv, TaskTypeOK, Number
<1>2. /\ UNCHANGED <<task_father, task_i, task_clock>> /\ TaskHeard' = TaskHeard
      /\ \A q \in Number : q # p => task_son'[q] = task_son[q] /\ made'[q] = made[q]
  <2>1. /\ UNCHANGED <<task_father, task_i, task_clock>>
        /\ \A q \in Number : q # p => task_son'[q] = task_son[q] /\ made'[q] = made[q]
    BY <1>1 DEF TaskTypeOK, TaskSon, TaskPrepared, TaskStarted, TaskCreateTmp,
       TaskCreateTmpFails, TaskJoinTmp, TaskFinish, TaskCleared, TaskTmpEnds, taskFatherVars
  <2>. QED BY <2>1 DEF TaskHeard
<1>3. /\ Cardinality(TaskPreparedSons) \in Nat /\ Cardinality(TaskAnswered) \in Nat
      /\ TaskHeard \in Int
  BY <1>1, NumberCount DEF TaskPreparedSons, TaskAnswered, TaskHeard
<1>4. CASE TaskPrepared(p)
  <2>1. /\ task_son[p] = "start" /\ task_son'[p] = "ready"
        /\ task_to_father' = task_to_father + 1 /\ UNCHANGED <<task_to_son, made>>
    BY <1>1, <1>4 DEF TaskPrepared, TaskTypeOK
  <2>2. /\ TaskPreparedSons' = TaskPreparedSons \cup {p} /\ p \notin TaskPreparedSons
        /\ TaskAnswered' = TaskAnswered
    BY <1>2, <2>1 DEF TaskPreparedSons, TaskAnswered
  <2>3. Cardinality(TaskPreparedSons') = Cardinality(TaskPreparedSons) + 1
    BY <2>2, OneMore DEF TaskPreparedSons
  <2>4. TaskCountInv'
    BY <1>1, <1>2, <1>3, <2>1, <2>2, <2>3 DEF TaskCountInv
  <2>. QED BY <1>1, <1>2, <2>1, <2>2, <2>4 DEF TaskClockInv
<1>5. CASE TaskCreateTmpFails(p) \/ TaskFinish(p)
  <2>1. /\ task_son[p] \in {"work", "join"} /\ task_son'[p] \in {"clear", "ended"}
        /\ task_son'[p] = "clear" => made[p] < Creations
        /\ task_to_father' = task_to_father + 1 /\ UNCHANGED <<task_to_son, made>>
    BY <1>1, <1>5 DEF TaskCreateTmpFails, TaskFinish, TaskTypeOK, ThreadsInv
  <2>2. /\ TaskPreparedSons' = TaskPreparedSons
        /\ p \notin TaskAnswered /\ TaskAnswered' = TaskAnswered \cup {p}
    BY <1>2, <2>1 DEF TaskPreparedSons, TaskAnswered
  <2>3. Cardinality(TaskAnswered') = Cardinality(TaskAnswered) + 1
    BY <2>2, OneMore DEF TaskAnswered
  <2>4. TaskCountInv'
    BY <1>1, <1>2, <1>3, <2>1, <2>2, <2>3 DEF TaskCountInv
  <2>. QED BY <1>1, <1>2, <2>1, <2>2, <2>4 DEF TaskClockInv, TaskAnswered
<1>6. CASE TaskStarted(p) \/ TaskCreateTmp(p)
  <2>1. /\ task_son[p] \in {"ready", "work"} /\ task_son'[p] \in {"work", "join"}
        /\ task_son[p] = "ready" => task_to_son > 0
        /\ task_to_son' = task_to_son \/ task_to_son > 0
        /\ UNCHANGED task_to_father
    BY <1>1, <1>6 DEF TaskStarted, TaskCreateTmp, TaskTypeOK
  <2>2. TaskPreparedSons' = TaskPreparedSons /\ TaskAnswered' = TaskAnswered
    BY <1>2, <2>1 DEF TaskPreparedSons, TaskAnswered
  <2>3. task_clock # "before"
    BY <1>1, <2>1 DEF TaskClockInv
  <2>4. TaskCountInv'
    BY <1>1, <1>2, <2>1, <2>2 DEF TaskCountInv
  <2>. QED BY <1>1, <1>2, <2>1, <2>2, <2>3, <2>4 DEF TaskClockInv
<1>7. CASE TaskCleared(p)
  <2>1. /\ task_son[p] = "clear" /\ task_son'[p] = "ended"
        /\ UNCHANGED <<task_to_father, task_to_son, made>>
    BY <1>1, <1>7 DEF TaskCleared, TaskTypeOK
  <2>2. TaskPreparedSons' = TaskPreparedSons /\ TaskAnswered' = TaskAnswered
    BY <1>2, <2>1 DEF TaskPreparedSons, TaskAnswered
  <2>3. TaskCountInv'
    BY <1>1, <1>2, <2>1, <2>2 DEF TaskCountInv
  <2>. QED BY <1>1, <1>2, <2>1, <2>2, <2>3 DEF TaskClockInv
<1>8. CASE TaskJoinTmp(p) \/ TaskTmpEnds(p)
  <2>1. /\ UNCHANGED <<task_son, made, task_to_father, task_to_son>>
        /\ TaskPreparedSons' = TaskPreparedSons /\ TaskAnswered' = TaskAnswered
    BY <1>8 DEF TaskJoinTmp, TaskTmpEnds, TaskPreparedSons, TaskAnswered
  <2>. QED BY <1>1, <1>2, <2>1 DEF TaskCountInv, TaskClockInv
<1>. QED BY <1>4, <1>5, <1>6, <1>7, <1>8 DEF TaskSon

LEMMA TaskSpanStep == ASSUME TaskSpanInv, [TaskNext]_taskVars PROVE TaskSpanInv'
<1>1. TaskInv'
  BY TaskStepInv DEF TaskSpanInv
<1>2. CASE UNCHANGED taskVars
  BY <1>1, <1>2 DEF TaskSpanInv, TaskCountInv, TaskClockInv, TaskHeard, TaskPreparedSons,
     TaskAnswered, taskVars, taskFatherVars, taskSonVars
<1>. QED BY <1>1, <1>2, TaskFatherSpan, TaskSonSpan DEF TaskNext, TaskSpanInv

LEMMA TaskSpanSafe == TaskSpanInv => TaskClockSpansWork
<1> SUFFICES ASSUME TaskSpanInv PROVE TaskClockSpansWork
  OBVIOUS
<1>1. /\ TaskTypeOK /\ TaskClockInv /\ \A p \in Number : ThreadsInv(p)
      /\ \A p \in Number : made[p] \in 0..Creations
  BY DEF TaskSpanInv, TaskInv, TaskTypeOK
<1>2. ASSUME task_clock = "before", NEW p \in Number PROVE made[p] = 0
  BY <1>1, <1>2 DEF TaskClockInv, ThreadsInv
<1>3. ASSUME task_clock = "stopped", NEW p \in Number
      PROVE  \/ joined[p] = Creations
             \/ task_son[p] \in {"clear", "ended"} /\ made[p] < Creations
  BY <1>1, <1>3, TaskAssumption DEF TaskClockInv, TaskAnswered, ThreadsInv
<1>. QED BY <1>2, <1>3 DEF TaskClockSpansWork

-----------------------------------------------------------------------------
(* The memory test: each worker has semaphores of its own. *)

\* The loop of this step, or of one of the later ones, is past worker w.
MemPast(w, step, later) == mem_pc \in later \/ (mem_pc = step /\ w < mem_i)

MemMade(w) == MemPast(w, "create", {"ready", "order", "done", "clean", "returned"})
MemHeardOf(w) == MemPast(w, "ready", {"order", "done", "clean", "returned"})
MemOrdered(w) == MemPast(w, "order", {"done", "clean", "returned"})
MemDoneWith(w) == MemPast(w, "done", {"clean", "returned"})

\* The answers of a worker: one when it is prepared, one when it has worked;
\* a worker that has no buffer makes the first only, and the caller waits for
\* its second for ever.
WorkerInv(w) ==
  /\ ~MemMade(w) => mem_worker[w] = "none"
  /\ mem_worker[w] = "none" =>
       buffer[w] = "none" /\ ~MemHeardOf(w) /\ (MemMade(w) => sem_response[w] = 0)
  /\ mem_worker[w] = "start" =>
       buffer[w] = "none" /\ ~MemHeardOf(w) /\ sem_response[w] = 0
  /\ mem_worker[w] = "ready" =>
       /\ buffer[w] = "live" /\ ~MemDoneWith(w)
       /\ sem_response[w] = IF MemHeardOf(w) THEN 0 ELSE 1
  /\ mem_worker[w] = "work" =>
       buffer[w] = "live" /\ MemOrdered(w) /\ ~MemDoneWith(w) /\ sem_response[w] = 0
  /\ mem_worker[w] = "ended" /\ buffer[w] = "none" =>
       ~MemDoneWith(w) /\ sem_response[w] = IF MemHeardOf(w) THEN 0 ELSE 1
  /\ mem_worker[w] = "ended" /\ buffer[w] # "none" => MemOrdered(w)
  /\ mem_worker[w] \in {"none", "start", "ready"} /\ MemMade(w) =>
       sem_order[w] = IF MemOrdered(w) THEN 1 ELSE 0

MemClockInv ==
  /\ mem_clock = "before" <=> mem_pc \in {"create", "ready"}
  /\ mem_clock = "stopped" <=> mem_pc \in {"clean", "returned"}

MemSpanInv == MemTypeOK /\ MemClockInv /\ \A w \in Number : WorkerInv(w)

LEMMA MemSpanInit == MemInit => MemSpanInv
<1>. USE MulticoreAssumption DEF Number
<1>1. MemInit => MemTypeOK /\ MemClockInv
  BY DEF MemInit, MemTypeOK, MemClockInv
<1>2. ASSUME MemInit, NEW w \in Number PROVE WorkerInv(w)
  BY <1>2 DEF MemInit, WorkerInv, MemMade, MemHeardOf, MemPast
<1>. QED BY <1>1, <1>2 DEF MemSpanInv

LEMMA MemTypeStep == ASSUME MemTypeOK, MemNext PROVE MemTypeOK'
<1>1. \A s : MemLoop(s) => mem_i' \in Number /\ mem_pc' \in {mem_pc, s}
  BY MulticoreAssumption DEF MemLoop, MemTypeOK, Number
<1>2. ASSUME MemCaller PROVE MemTypeOK'
  <2>1. CASE MemCreate BY <1>1, <2>1 DEF MemCreate, MemTypeOK
  <2>2. CASE MemAwaitReady BY <1>1, <2>2 DEF MemAwaitReady, MemTypeOK
  <2>3. CASE MemOrder BY <1>1, <2>3 DEF MemOrder, MemTypeOK
  <2>4. CASE MemAwaitDone BY <1>1, <2>4 DEF MemAwaitDone, MemTypeOK
  <2>5. CASE MemClean BY <1>1, <2>5 DEF MemClean, MemTypeOK
  <2>. QED BY <1>2, <2>1, <2>2, <2>3, <2>4, <2>5 DEF MemCaller
<1>3. ASSUME NEW w \in Number, MemWorkerStep(w) PROVE MemTypeOK'
  <2>1. CASE MemPrepare(w) BY <2>1 DEF MemPrepare, MemTypeOK
  <2>2. CASE MemStarted(w) BY <2>2 DEF MemStarted, MemTypeOK
  <2>3. CASE MemWork(w) BY <2>3 DEF MemWork, MemTypeOK
  <2>. QED BY <1>3, <2>1, <2>2, <2>3 DEF MemWorkerStep
<1>. QED BY <1>2, <1>3 DEF MemNext

LEMMA MemCallerSpan ==
  ASSUME MemSpanInv, MemCaller
  PROVE  MemClockInv' /\ \A w \in Number : WorkerInv(w)'
<1>1. /\ MemTypeOK /\ MemClockInv /\ mem_i \in Number
      /\ \A w \in Number : WorkerInv(w) /\ w \in Int
  BY DEF MemSpanInv, MemTypeOK, Number
<1>2. CASE MemCreate
  <2>1. /\ mem_pc = "create" /\ MemLoop("ready") /\ UNCHANGED <<mem_clock, buffer>>
    BY <1>2 DEF MemCreate
  <2>2. MemClockInv'
    BY <1>1, <2>1 DEF MemClockInv, MemLoop
  <2>3. ASSUME NEW w \in Number PROVE WorkerInv(w)'
    <3>1. /\ ~MemHeardOf(w)' /\ ~MemOrdered(w)' /\ ~MemOrdered(w)
          /\ MemMade(w)' <=> MemMade(w) \/ w = mem_i
          /\ ~MemMade(mem_i) /\ ~MemDoneWith(w)'
      BY <1>1, <2>1, MulticoreAssumption
      DEF MemLoop, MemPast, MemMade, MemHeardOf, MemOrdered, MemDoneWith, Number
    <3>2. /\ w # mem_i => UNCHANGED <<mem_worker[w], sem_order[w], sem_response[w]>>
          /\ w = mem_i => mem_worker'[w] \in {"start", mem_worker[w]} /\ sem_order'[w] = 0 /\ sem_response'[w] = 0
      BY <1>1, <1>2 DEF MemCreate, MemTypeOK
    <3>3. mem_worker[mem_i] = "none" /\ buffer[mem_i] = "none" /\ buffer'[w] = buffer[w]
      BY <1>1, <2>1, <3>1 DEF WorkerInv
    <3>4. CASE w = mem_i
      BY <3>1, <3>2, <3>3, <3>4 DEF WorkerInv
    <3>5. CASE w # mem_i
      <4>1. WorkerInv(w) /\ ~MemHeardOf(w) /\ ~MemDoneWith(w) /\ MemMade(w)' = MemMade(w)
        BY <1>1, <2>1, <3>1, <3>5 DEF MemPast, MemMade, MemHeardOf, MemDoneWith
      <4>. QED BY <3>1, <3>2, <3>3, <3>5, <4>1 DEF WorkerInv
    <3>. QED BY <3>4, <3>5
  <2>. QED BY <2>2, <2>3
<1>3. CASE MemAwaitReady
  <2>1. /\ mem_pc = "ready" /\ sem_response[mem_i] > 0 /\ MemLoop("order")
        /\ UNCHANGED <<mem_worker, sem_order, buffer>>
        /\ mem_clock' = IF mem_i = Concurrency THEN "running" ELSE mem_clock
    BY <1>3 DEF MemAwaitReady
  <2>2. MemClockInv'
    BY <1>1, <2>1, MulticoreAssumption DEF MemClockInv, MemLoop, Number
  <2>3. ASSUME NEW w \in Number PROVE WorkerInv(w)'
    <3>1. /\ MemMade(w) /\ MemMade(w)' /\ ~MemOrdered(w) /\ ~MemOrdered(w)'
          /\ ~MemDoneWith(w) /\ ~MemDoneWith(w)' /\ ~MemHeardOf(mem_i)
          /\ MemHeardOf(w)' <=> MemHeardOf(w) \/ w = mem_i
      BY <1>1, <2>1, MulticoreAssumption
      DEF MemLoop, MemPast, MemMade, MemHeardOf, MemOrdered, MemDoneWith, Number
    <3>2. sem_response'[w] = IF w = mem_i THEN sem_response[w] - 1 ELSE sem_response[w]
      BY <1>1, <1>3 DEF MemAwaitReady, MemTypeOK
    <3>3. WorkerInv(w) /\ UNCHANGED <<mem_worker[w], sem_order[w], buffer[w]>>
      BY <1>1, <2>1
    <3>4. CASE w = mem_i
      BY <2>1, <3>1, <3>2, <3>3, <3>4 DEF WorkerInv
    <3>5. CASE w # mem_i
      <4>1. MemHeardOf(w)' = MemHeardOf(w)
        BY <3>1, <3>5 DEF MemHeardOf, MemPast
      <4>. QED BY <3>1, <3>2, <3>3, <3>5, <4>1 DEF WorkerInv
    <3>. QED BY <3>4, <3>5
  <2>. QED BY <2>2, <2>3
<1>4. CASE MemOrder
  <2>1. /\ mem_pc = "order" /\ MemLoop("done")
        /\ UNCHANGED <<mem_worker, sem_response, buffer, mem_clock>>
    BY <1>4 DEF MemOrder
  <2>2. MemClockInv'
    BY <1>1, <2>1 DEF MemClockInv, MemLoop
  <2>3. ASSUME NEW w \in Number PROVE WorkerInv(w)'
    <3>1. /\ MemMade(w) /\ MemMade(w)' /\ MemHeardOf(w) /\ MemHeardOf(w)'
          /\ ~MemDoneWith(w) /\ ~MemDoneWith(w)' /\ ~MemOrdered(mem_i)
          /\ MemOrdered(w)' <=> MemOrdered(w) \/ w = mem_i
      BY <1>1, <2>1, MulticoreAssumption
      DEF MemLoop, MemPast, MemMade, MemHeardOf, MemOrdered, MemDoneWith, Number
    <3>2. sem_order'[w] = IF w = mem_i THEN sem_order[w] + 1 ELSE sem_order[w]
      BY <1>1, <1>4 DEF MemOrder, MemTypeOK
    <3>3. WorkerInv(w) /\ UNCHANGED <<mem_worker[w], sem_response[w], buffer[w]>>
      BY <1>1, <2>1
    <3>4. CASE w = mem_i
      BY <3>1, <3>2, <3>3, <3>4 DEF WorkerInv
    <3>5. CASE w # mem_i
      <4>1. MemOrdered(w)' = MemOrdered(w)
        BY <3>1, <3>5 DEF MemOrdered, MemPast
      <4>. QED BY <3>1, <3>2, <3>3, <3>5, <4>1 DEF WorkerInv
    <3>. QED BY <3>4, <3>5
  <2>. QED BY <2>2, <2>3
<1>5. CASE MemAwaitDone
  <2>1. /\ mem_pc = "done" /\ sem_response[mem_i] > 0 /\ MemLoop("clean")
        /\ UNCHANGED <<mem_worker, sem_order, buffer>>
        /\ mem_clock' = IF mem_i = Concurrency THEN "stopped" ELSE mem_clock
    BY <1>5 DEF MemAwaitDone
  <2>2. MemClockInv'
    BY <1>1, <2>1, MulticoreAssumption DEF MemClockInv, MemLoop, Number
  <2>3. ASSUME NEW w \in Number PROVE WorkerInv(w)'
    <3>1. /\ MemMade(w) /\ MemMade(w)' /\ MemHeardOf(w) /\ MemHeardOf(w)'
          /\ MemOrdered(w) /\ MemOrdered(w)' /\ ~MemDoneWith(mem_i)
          /\ MemDoneWith(w)' <=> MemDoneWith(w) \/ w = mem_i
      BY <1>1, <2>1, MulticoreAssumption
      DEF MemLoop, MemPast, MemMade, MemHeardOf, MemOrdered, MemDoneWith, Number
    <3>2. w # mem_i => sem_response'[w] = sem_response[w]
      BY <1>1, <1>5 DEF MemAwaitDone, MemTypeOK
    <3>3. /\ WorkerInv(w) /\ UNCHANGED <<mem_worker[w], sem_order[w], buffer[w]>>
          /\ mem_worker[w] \in {"none", "start", "ready", "work", "ended"}
      BY <1>1, <2>1 DEF MemTypeOK
    <3>4. CASE w = mem_i
      <4>1. mem_worker[w] = "ended" /\ buffer[w] # "none"
        BY <2>1, <3>1, <3>3, <3>4 DEF WorkerInv
      <4>. QED BY <3>1, <3>3, <4>1 DEF WorkerInv
    <3>5. CASE w # mem_i
      <4>1. MemDoneWith(w)' = MemDoneWith(w)
        BY <3>1, <3>5 DEF MemDoneWith, MemPast
      <4>. QED BY <3>1, <3>2, <3>3, <3>5, <4>1 DEF WorkerInv
    <3>. QED BY <3>4, <3>5
  <2>. QED BY <2>2, <2>3
<1>6. CASE MemClean
  <2>1. /\ mem_pc = "clean" /\ MemLoop("returned") /\ UNCHANGED <<mem_worker, mem_clock>>
    BY <1>6 DEF MemClean
  <2>2. MemClockInv'
    BY <1>1, <2>1 DEF MemClockInv, MemLoop
  <2>3. ASSUME NEW w \in Number PROVE WorkerInv(w)'
    <3>1. /\ MemMade(w)' /\ MemHeardOf(w) /\ MemOrdered(w)' /\ MemDoneWith(w)
      BY <1>1, <2>1 DEF MemLoop, MemPast, MemMade, MemHeardOf, MemOrdered, MemDoneWith
    <3>2. /\ WorkerInv(w) /\ mem_worker'[w] = mem_worker[w]
          /\ mem_worker[w] \in {"none", "start", "ready", "work", "ended"}
      BY <1>1, <2>1 DEF MemTypeOK
    <3>3. mem_worker[w] = "ended" /\ buffer[w] # "none"
      BY <3>1, <3>2 DEF WorkerInv
    <3>4. buffer'[w] # "none"
      BY <1>1, <1>6, <3>3 DEF MemClean, MemTypeOK
    <3>. QED BY <3>1, <3>2, <3>3, <3>4 DEF WorkerInv
  <2>. QED BY <2>2, <2>3
<1>. QED BY <1>2, <1>3, <1>4, <1>5, <1>6 DEF MemCaller

LEMMA MemWorkerSpan ==
  ASSUME MemSpanInv, NEW v \in Number, MemWorkerStep(v)
  PROVE  MemClockInv' /\ \A w \in Number : WorkerInv(w)'
<1>1. MemTypeOK /\ MemClockInv /\ WorkerInv(v) /\ \A w \in Number : WorkerInv(w)
  BY DEF MemSpanInv
<1>2. UNCHANGED <<mem_pc, mem_i, mem_clock>>
  BY DEF MemWorkerStep, MemPrepare, MemStarted, MemWork
<1>3. /\ MemClockInv'
      /\ \A w \in Number : /\ MemMade(w)' = MemMade(w) /\ MemHeardOf(w)' = MemHeardOf(w)
                           /\ MemOrdered(w)' = MemOrdered(w) /\ MemDoneWith(w)' = MemDoneWith(w)
  BY <1>1, <1>2 DEF MemClockInv, MemMade, MemHeardOf, MemOrdered, MemDoneWith, MemPast
<1>4. \A w \in Number : MemOrdered(w) => MemHeardOf(w)
  BY DEF MemHeardOf, MemOrdered, MemPast
<1>5. \A w \in Number : MemDoneWith(w) => MemHeardOf(w)
  BY DEF MemHeardOf, MemDoneWith, MemPast
<1>6. ASSUME NEW w \in Number, w # v PROVE WorkerInv(w)'
  <2>1. UNCHANGED <<mem_worker[w], sem_order[w], sem_response[w], buffer[w]>>
    BY <1>1, <1>6 DEF MemWorkerStep, MemPrepare, MemStarted, MemWork, MemTypeOK
  <2>. QED BY <1>1, <1>3, <2>1 DEF WorkerInv
<1>7. CASE MemPrepare(v)
  <2>1. /\ mem_worker[v] = "start" /\ sem_response'[v] = sem_response[v] + 1
        /\ sem_order'[v] = sem_order[v]
        /\ \/ mem_worker'[v] = "ready" /\ buffer'[v] = "live"
           \/ mem_worker'[v] = "ended" /\ buffer'[v] = buffer[v]
    BY <1>1, <1>7 DEF MemPrepare, MemTypeOK
  <2>2. WorkerInv(v)'
    BY <1>1, <1>3, <1>5, <2>1 DEF WorkerInv
  <2>. QED BY <1>3, <1>6, <2>2
<1>8. CASE MemStarted(v)
  <2>1. /\ mem_worker[v] = "ready" /\ sem_order[v] > 0 /\ mem_worker'[v] = "work"
        /\ UNCHANGED <<sem_response[v], buffer[v]>>
    BY <1>1, <1>8 DEF MemStarted, MemTypeOK
  <2>2. WorkerInv(v)'
    BY <1>1, <1>3, <1>4, <2>1 DEF WorkerInv
  <2>. QED BY <1>3, <1>6, <2>2
<1>9. CASE MemWork(v)
  <2>1. /\ mem_worker[v] = "work" /\ mem_worker'[v] = "ended" /\ buffer'[v] = buffer[v]
    BY <1>1, <1>9 DEF MemWork, MemTypeOK
  <2>2. WorkerInv(v)'
    BY <1>1, <1>3, <2>1 DEF WorkerInv
  <2>. QED BY <1>3, <1>6, <2>2
<1>. QED BY <1>7, <1>8, <1>9 DEF MemWorkerStep

LEMMA MemSpanStep == ASSUME MemSpanInv, [MemNext]_memVars PROVE MemSpanInv'
<1>1. CASE UNCHANGED memVars
  BY <1>1 DEF MemSpanInv, MemTypeOK, MemClockInv, WorkerInv, MemMade, MemHeardOf, MemOrdered,
     MemDoneWith, MemPast, memVars
<1>2. CASE MemNext
  <2>1. MemTypeOK'
    BY <1>2, MemTypeStep DEF MemSpanInv
  <2>2. MemClockInv' /\ \A w \in Number : WorkerInv(w)'
    BY <1>2, MemCallerSpan, MemWorkerSpan DEF MemNext
  <2>. QED BY <2>1, <2>2 DEF MemSpanInv
<1>. QED BY <1>1, <1>2

LEMMA MemSpanSafe == MemSpanInv => MemClockSpansWork
<1> SUFFICES ASSUME MemSpanInv PROVE MemClockSpansWork
  OBVIOUS
<1>1. /\ MemClockInv
      /\ mem_pc \in {"create", "ready", "order", "done", "clean", "returned"}
      /\ mem_clock \in {"before", "running", "stopped"}
      /\ \A w \in Number : /\ WorkerInv(w)
                           /\ mem_worker[w] \in {"none", "start", "ready", "work", "ended"}
  BY DEF MemSpanInv, MemTypeOK
<1>2. ASSUME NEW w \in Number, mem_worker[w] = "work"
      PROVE  mem_clock = "running" /\ buffer[w] = "live"
  BY <1>1, <1>2 DEF MemClockInv, WorkerInv, MemOrdered, MemDoneWith, MemPast
<1>3. ASSUME NEW w \in Number, mem_clock = "stopped"
      PROVE  buffer[w] # "none" /\ mem_worker[w] = "ended"
  BY <1>1, <1>3 DEF MemClockInv, WorkerInv, MemHeardOf, MemDoneWith, MemPast
<1>. QED BY <1>2, <1>3 DEF MemClockSpansWork

-----------------------------------------------------------------------------
(* The whole. *)

LEMMA StepOfEach ==
  ASSUME [Next]_vars PROVE [IpcNext]_ipcVars /\ [MemNext]_memVars /\ [TaskNext]_taskVars
<1>1. CASE NextTest BY <1>1 DEF NextTest
<1>2. CASE IpcStep BY <1>2 DEF IpcStep, IpcNext
<1>3. CASE MemStep BY <1>3 DEF MemStep, MemNext
<1>4. CASE TaskStep BY <1>4 DEF TaskStep, TaskNext
<1>5. CASE UNCHANGED vars BY <1>5 DEF vars
<1>. QED BY <1>1, <1>2, <1>3, <1>4, <1>5 DEF Next

\* In the whole multicore part: mq_send never waits inside the time that
\* ipc_bw.c measures, for any number of pairs and turns.
THEOREM SendsNeverWait == Spec => []SendNeverBlocks
<1>1. Init => IpcInv
  BY IpcInitInv DEF Init
<1>2. IpcInv /\ [Next]_vars => IpcInv'
  BY IpcStepInv, StepOfEach
<1>. QED BY <1>1, <1>2, IpcInvSafe, PTL DEF Spec

\* In the whole multicore part: task_lt.c destroys its semaphores after their
\* last use, for any number of sons and creations.
THEOREM SemaphoresDestroyedLast == Spec => []SemaphoresOutliveSons
<1>1. Init => TaskInv
  BY TaskInitInv DEF Init
<1>2. TaskInv /\ [Next]_vars => TaskInv'
  BY TaskStepInv, StepOfEach
<1>. QED BY <1>1, <1>2, TaskInvSafe, PTL DEF Spec

\* In the whole multicore part: the clock of each of its tests runs from before
\* the first of the work until after the last of it (ipc_bw.c:158-168,
\* mem_bw.c:244-250, task_lt.c:121-133), for any number of threads, although
\* the sons of two of them share the semaphores they answer on.
THEOREM ClocksSpanTheWork == Spec => []ClocksSpanWork
<1> DEFINE SpanInv == IpcSpanInv /\ MemSpanInv /\ TaskSpanInv
<1>1. Init => SpanInv
  BY IpcSpanInit, MemSpanInit, TaskSpanInit DEF Init
<1>2. SpanInv /\ [Next]_vars => SpanInv'
  BY IpcSpanStep, MemSpanStep, TaskSpanStep, StepOfEach
<1>3. SpanInv => ClocksSpanWork
  BY IpcSpanSafe, MemSpanSafe, TaskSpanSafe DEF ClocksSpanWork
<1>. QED BY <1>1, <1>2, <1>3, PTL DEF Spec

-----------------------------------------------------------------------------
(* The command: the single-core tests, then the multicore ones.  A step of   *)
(* one part leaves the other alone, so that what is proved of each of them   *)
(* holds of the command.                                                     *)

Proved == INSTANCE RealtimeTestsProofs

\* The single-core tests of the command are those the proofs are about: the two
\* instances of their module define the same.
LEMMA SameInit == Single!Init => Proved!Init
  BY DEF Single!Init, Proved!Init, Single!Threads, Proved!Threads, Single!Semaphores,
     Proved!Semaphores

LEMMA SameData ==
  /\ Single!Threads = Proved!Threads
  /\ Single!Semaphores = Proved!Semaphores
  /\ Single!Tests = Proved!Tests
  /\ Single!MaxMsg = Proved!MaxMsg
  /\ \A i : Single!Threaded(i) = Proved!Threaded(i)
  /\ Single!Running = Proved!Running
  /\ Single!Test = Proved!Test
  /\ \A t : Single!Above(t) = Proved!Above(t)
  /\ Single!vars = Proved!vars
  /\ Single!Suspending = Proved!Suspending
  /\ \A i : Single!Prefill(i) = Proved!Prefill(i)
  /\ Single!Misjudged = Proved!Misjudged
  BY DEF Single!Threads, Proved!Threads, Single!Semaphores, Proved!Semaphores,
     Single!Tests, Proved!Tests, Single!MaxMsg, Proved!MaxMsg, Single!Threaded,
     Proved!Threaded, Single!Running, Proved!Running, Single!Test, Proved!Test,
     Single!Above, Proved!Above, Single!vars, Proved!vars, Single!Suspending,
     Proved!Suspending, Single!Prefill, Proved!Prefill, Single!Misjudged,
     Proved!Misjudged, Single!testVars, Proved!testVars, Single!objectVars,
     Proved!objectVars

LEMMA SameCalls ==
  /\ \A f, x : Single!Call(f, x) = Proved!Call(f, x)
  /\ \A s : Single!Post(s) = Proved!Post(s) /\ Single!Wait(s) = Proved!Wait(s)
  /\ Single!Send = Proved!Send /\ Single!Receive = Proved!Receive
  /\ Single!Lock = Proved!Lock /\ Single!Unlock = Proved!Unlock
  BY DEF Single!Call, Proved!Call, Single!Post, Proved!Post, Single!Wait, Proved!Wait,
     Single!Send, Proved!Send, Single!Receive, Proved!Receive, Single!Lock, Proved!Lock,
     Single!Unlock, Proved!Unlock

LEMMA SameTurns ==
  /\ \A c, a : Single!Timed(c, a) = Proved!Timed(c, a)
  /\ \A n, b : Single!Times(n, b) = Proved!Times(n, b)
  /\ Single!Bind = Proved!Bind
  /\ Single!HighCall = Proved!HighCall /\ Single!LowCall = Proved!LowCall
  /\ Single!ReadyingCall = Proved!ReadyingCall
  /\ Single!HighRest = Proved!HighRest /\ Single!LowRest = Proved!LowRest
<1>1. \A c, a : Single!Timed(c, a) = Proved!Timed(c, a)
  BY DEF Single!Timed, Proved!Timed
<1>2. \A n, b : Single!Times(n, b) = Proved!Times(n, b)
  BY DEF Single!Times, Proved!Times
<1>3. Single!Bind = Proved!Bind
  BY SameCalls DEF Single!Bind, Proved!Bind
<1>4. /\ Single!HighCall = Proved!HighCall /\ Single!LowCall = Proved!LowCall
      /\ Single!ReadyingCall = Proved!ReadyingCall
  BY SameData, SameCalls DEF Single!HighCall, Proved!HighCall, Single!LowCall,
     Proved!LowCall, Single!ReadyingCall, Proved!ReadyingCall
<1>5. Single!HighRest = Proved!HighRest /\ Single!LowRest = Proved!LowRest
  BY SameData, SameCalls DEF Single!HighRest, Proved!HighRest, Single!LowRest,
     Proved!LowRest
<1> QED
  BY <1>1, <1>2, <1>3, <1>4, <1>5

LEMMA SamePrograms ==
  /\ \A t : Single!Program(t) = Proved!Program(t)
  /\ \A t : Single!Now(t) = Proved!Now(t)
<1>1. Single!SuspendedProgram = Proved!SuspendedProgram
  BY SameData, SameCalls, SameTurns DEF Single!SuspendedProgram, Proved!SuspendedProgram
<1>2. Single!ResumingProgram = Proved!ResumingProgram
  BY SameData, SameCalls, SameTurns DEF Single!ResumingProgram, Proved!ResumingProgram
<1>3. Single!ReadyingProgram = Proved!ReadyingProgram
  BY SameData, SameCalls, SameTurns DEF Single!ReadyingProgram, Proved!ReadyingProgram
<1>4. Single!MiddleProgram = Proved!MiddleProgram
  BY SameData, SameCalls, SameTurns DEF Single!MiddleProgram, Proved!MiddleProgram
<1>5. Single!AssistProgram = Proved!AssistProgram
  BY SameCalls, SameTurns DEF Single!AssistProgram, Proved!AssistProgram
<1>6. \A t : Single!Program(t) = Proved!Program(t)
  BY <1>1, <1>2, <1>3, <1>4, <1>5, SameData, SameCalls DEF Single!Program, Proved!Program
<1> QED
  BY <1>6 DEF Single!Now, Proved!Now

LEMMA SameGuards ==
  /\ \A t : Single!Active(t) = Proved!Active(t)
  /\ \A t : Single!Runs(t) = Proved!Runs(t)
  /\ \A t : Single!Returns(t) = Proved!Returns(t)
  /\ \A f, a : Single!Suspended(f, a) = Proved!Suspended(f, a)
  /\ \A t, S : Single!Goes(t, S) = Proved!Goes(t, S)
  BY SameData, SameCalls, SameTurns, SamePrograms DEF Single!Active, Proved!Active, Single!Runs,
     Proved!Runs, Single!Returns, Proved!Returns, Single!Suspended, Proved!Suspended,
     Single!Goes, Proved!Goes, Single!testVars, Proved!testVars

LEMMA SameSends ==
  \A t : Single!Sends(t) <=> Proved!Sends(t)
  BY SameData, SameCalls, SameTurns, SamePrograms, SameGuards
  DEF Single!Sends, Proved!Sends, Single!At, Proved!At

LEMMA SameSteps ==
  \A t : Single!Step(t) <=> Proved!Step(t)
<1>1. \A t : Single!Suspend(t) <=> Proved!Suspend(t)
  BY SameData, SameCalls, SameTurns, SamePrograms, SameGuards DEF Single!Suspend, Proved!Suspend,
     Single!At, Proved!At, Single!testVars, Proved!testVars, Single!objectVars,
     Proved!objectVars
<1>2. \A t : Single!Posts(t) <=> Proved!Posts(t)
  BY SameData, SameCalls, SameTurns, SamePrograms, SameGuards DEF Single!Posts, Proved!Posts,
     Single!At, Proved!At, Single!testVars, Proved!testVars, Single!objectVars,
     Proved!objectVars
<1>3. \A t : Single!Waits(t) <=> Proved!Waits(t)
  BY SameData, SameCalls, SameTurns, SamePrograms, SameGuards DEF Single!Waits, Proved!Waits,
     Single!At, Proved!At, Single!testVars, Proved!testVars, Single!objectVars,
     Proved!objectVars
<1>4. \A t : Single!Sends(t) <=> Proved!Sends(t)
  BY SameData, SameCalls, SameTurns, SamePrograms, SameGuards DEF Single!Sends, Proved!Sends,
     Single!At, Proved!At, Single!testVars, Proved!testVars, Single!objectVars,
     Proved!objectVars
<1>5. \A t : Single!Receives(t) <=> Proved!Receives(t)
  BY SameData, SameCalls, SameTurns, SamePrograms, SameGuards DEF Single!Receives, Proved!Receives,
     Single!At, Proved!At, Single!testVars, Proved!testVars, Single!objectVars,
     Proved!objectVars
<1>6. \A t : Single!Locks(t) <=> Proved!Locks(t)
  BY SameData, SameCalls, SameTurns, SamePrograms, SameGuards DEF Single!Locks, Proved!Locks,
     Single!At, Proved!At, Single!testVars, Proved!testVars, Single!objectVars,
     Proved!objectVars
<1>7. \A t : Single!Unlocks(t) <=> Proved!Unlocks(t)
  BY SameData, SameCalls, SameTurns, SamePrograms, SameGuards DEF Single!Unlocks, Proved!Unlocks,
     Single!At, Proved!At, Single!testVars, Proved!testVars, Single!objectVars,
     Proved!objectVars
<1>8. \A t : Single!Joins(t) <=> Proved!Joins(t)
  BY SameData, SameCalls, SameTurns, SamePrograms, SameGuards DEF Single!Joins, Proved!Joins,
     Single!At, Proved!At, Single!testVars, Proved!testVars, Single!objectVars,
     Proved!objectVars
<1>9. \A t : Single!FallsAsleep(t) <=> Proved!FallsAsleep(t)
  BY SameData, SameCalls, SameTurns, SamePrograms, SameGuards DEF Single!FallsAsleep,
     Proved!FallsAsleep, Single!At, Proved!At, Single!testVars, Proved!testVars,
     Single!objectVars, Proved!objectVars
<1>10. \A t : Single!Creates(t) <=> Proved!Creates(t)
  BY SameData, SameCalls, SameTurns, SamePrograms, SameGuards DEF Single!Creates, Proved!Creates,
     Single!At, Proved!At, Single!testVars, Proved!testVars, Single!objectVars,
     Proved!objectVars
<1>11. \A t : Single!Ends(t) <=> Proved!Ends(t)
  BY SameData, SameCalls, SameTurns, SamePrograms, SameGuards DEF Single!Ends, Proved!Ends,
     Single!At, Proved!At, Single!testVars, Proved!testVars, Single!objectVars,
     Proved!objectVars
<1> QED
  BY <1>1, <1>2, <1>3, <1>4, <1>5, <1>6, <1>7, <1>8, <1>9, <1>10, <1>11 DEF Single!Step,
     Proved!Step

LEMMA SameStarts ==
  /\ \A i : Single!Starts(i) <=> Proved!Starts(i)
  /\ \A s : Single!Following(s) = Proved!Following(s)
  BY SameData DEF Single!Starts, Proved!Starts, Single!Following, Proved!Following

LEMMA SameFinish == Single!Finish <=> Proved!Finish
  BY SameData, SameStarts DEF Single!Finish, Proved!Finish

LEMMA SameNext == Single!Next <=> Proved!Next
<1>1. Single!Begin <=> Proved!Begin
  BY SameData, SameStarts DEF Single!Begin, Proved!Begin, Single!testVars,
     Proved!testVars, Single!objectVars, Proved!objectVars
<1>2. Single!Finish <=> Proved!Finish
  BY SameData, SameStarts DEF Single!Finish, Proved!Finish, Single!testVars,
     Proved!testVars, Single!objectVars, Proved!objectVars
<1>3. Single!Probe <=> Proved!Probe
  BY SameData, SameStarts DEF Single!Probe, Proved!Probe, Single!testVars,
     Proved!testVars, Single!objectVars, Proved!objectVars
<1>4. Single!WakesUp <=> Proved!WakesUp
  BY SameData, SameStarts DEF Single!WakesUp, Proved!WakesUp, Single!testVars,
     Proved!testVars, Single!objectVars, Proved!objectVars
<1> QED
  BY SameData, SameSteps, <1>1, <1>2, <1>3, <1>4 DEF Single!Next, Proved!Next

LEMMA SingleStarts ==
  ASSUME CommandInit
  PROVE  Proved!TurnsInv
  BY SameInit, Proved!TurnsInit, RealtimeAssumption DEF CommandInit

\* What a step of the command is for each part.
LEMMA StepOfParts ==
  ASSUME [CommandNext]_commandVars
  PROVE  [Proved!Next]_(Proved!vars) /\ [Next]_vars
<1>1. CASE SingleStep
  BY <1>1, SameNext DEF SingleStep
<1>2. ASSUME UNCHANGED singleVars PROVE UNCHANGED Proved!vars
  BY <1>2 DEF singleVars, Proved!vars, Proved!testVars, Proved!objectVars
<1>3. CASE Multicore(Next)
  BY <1>2, <1>3 DEF Multicore
<1>4. CASE UNCHANGED commandVars
  BY <1>2, <1>4 DEF commandVars
<1>. QED BY <1>1, <1>3, <1>4 DEF CommandNext

LEMMA SingleKeeps ==
  ASSUME Proved!TurnsInv, [CommandNext]_commandVars
  PROVE  Proved!TurnsInv'
  BY StepOfParts, Proved!TurnsKeep, RealtimeAssumption

StageInv ==
  run_multicore \in BOOLEAN /\ stage \in {"ipc", "mem", "task", "over"}

CommandInv ==
  /\ StageInv /\ Proved!TurnsInv
  /\ IpcInv /\ TaskInv
  /\ IpcSpanInv /\ MemSpanInv /\ TaskSpanInv

LEMMA CommandStarts == CommandInit => CommandInv
<1> SUFFICES ASSUME CommandInit PROVE CommandInv
  OBVIOUS
<1>1. Init /\ Proved!TurnsInv
  BY SingleStarts DEF CommandInit
<1>2. run_multicore \in BOOLEAN
  BY DEF CommandInit
<1>3. StageInv
  BY <1>1, <1>2 DEF StageInv, Init
<1>4. IpcInit /\ MemInit /\ TaskInit
  BY <1>1 DEF Init
<1>. QED
  BY <1>1, <1>3, <1>4, IpcInitInv, TaskInitInv, IpcSpanInit, MemSpanInit, TaskSpanInit
  DEF CommandInv

LEMMA StageStep ==
  ASSUME StageInv, [CommandNext]_commandVars
  PROVE  StageInv'
<1>1. run_multicore' = run_multicore
  BY DEF CommandNext, SingleStep, Multicore, commandVars
<1>2. stage' \in {stage, "mem", "task", "over"}
  BY StepOfParts DEF Next, NextTest, IpcStep, MemStep, TaskStep, vars
<1>. QED BY <1>1, <1>2 DEF StageInv

LEMMA CommandKeeps == CommandInv /\ [CommandNext]_commandVars => CommandInv'
<1> SUFFICES ASSUME CommandInv, [CommandNext]_commandVars PROVE CommandInv'
  OBVIOUS
<1>1. [IpcNext]_ipcVars /\ [MemNext]_memVars /\ [TaskNext]_taskVars
  BY StepOfParts, StepOfEach
<1>2. IpcInv' /\ TaskInv'
  BY <1>1, IpcStepInv, TaskStepInv DEF CommandInv
<1>3. IpcSpanInv' /\ MemSpanInv' /\ TaskSpanInv'
  BY <1>1, IpcSpanStep, MemSpanStep, TaskSpanStep DEF CommandInv
<1>. QED BY <1>2, <1>3, SingleKeeps, StageStep DEF CommandInv

\* The invariants of both parts hold of the command from beginning to end.
THEOREM CommandInvariance == CommandSpec => []CommandInv
  BY CommandStarts, CommandKeeps, PTL DEF CommandSpec

LEMMA CommandTyped ==
  ASSUME CommandInv
  PROVE  CommandTypeOK
<1>1. Proved!TypeOK
  BY Proved!TurnsType, RealtimeAssumption DEF CommandInv
<1>2. Single!TypeOK
  BY <1>1, SameData, SamePrograms DEF Single!TypeOK, Proved!TypeOK
<1>3. TypeOK
  BY DEF CommandInv, StageInv, TypeOK, IpcInv, MemSpanInv, TaskInv
<1>. QED BY <1>2, <1>3 DEF CommandInv, StageInv, CommandTypeOK

\* The state of test-realtime keeps its types, that of the tests on one
\* processor and of those on several.
THEOREM CommandTypes == CommandSpec => []CommandTypeOK
  BY CommandInvariance, CommandTyped, PTL

\* In the whole command, with the tests on one processor before them: no send
\* waits inside the time of ipc_bw.c, every clock spans the work of its test,
\* and task_lt.c destroys its semaphores last.
THEOREM CommandSafe ==
  CommandSpec => [](SendNeverBlocks /\ ClocksSpanWork /\ SemaphoresOutliveSons)
<1>1. CommandInv => SendNeverBlocks /\ ClocksSpanWork /\ SemaphoresOutliveSons
  BY IpcInvSafe, TaskInvSafe, IpcSpanSafe, MemSpanSafe, TaskSpanSafe
  DEF CommandInv, ClocksSpanWork
<1>. QED BY <1>1, CommandInvariance, PTL

LEMMA CommandMeasured ==
  ASSUME CommandInv, Proved!Next, ~Single!Misjudged, NEW t \in Single!Threads,
         Single!Running, pc'[t] # pc[t], Single!Now(t).timed # "no"
  PROVE  LET resumed == {u \in Single!Threads : status[u] = "waiting" /\ status'[u] = "woken"}
         IN /\ Single!Now(t).timed = "suspends" => status[t] = "woken"
            /\ Single!Now(t).timed = "resumes higher" => resumed \cap Single!Above(t) # {}
            /\ Single!Now(t).timed = "readies lower" =>
                 resumed # {} /\ \A u \in resumed : t \in Single!Above(u)
<1>1. /\ Proved!TurnsInv /\ ~Proved!Misjudged /\ t \in Proved!Threads
      /\ Proved!Running /\ Proved!Now(t).timed # "no"
  BY SameData, SamePrograms DEF CommandInv
<1>2. LET resumed == {u \in Proved!Threads : status[u] = "waiting" /\ status'[u] = "woken"}
      IN /\ Proved!Now(t).timed = "suspends" => status[t] = "woken"
         /\ Proved!Now(t).timed = "resumes higher" => resumed \cap Proved!Above(t) # {}
         /\ Proved!Now(t).timed = "readies lower" =>
              resumed # {} /\ \A u \in resumed : t \in Proved!Above(u)
  BY <1>1, Proved!TimedAsDocumented, RealtimeAssumption
<1>. QED BY <1>2, SameData, SamePrograms

\* In the whole command a timed call of a single-core test costs what
\* docs/REALTIME.md says it measures, in every turn.
THEOREM CommandMeasures == CommandSpec => MeasuredAsDocumented
<1> DEFINE Good ==
      ~Single!Misjudged => \A t \in Single!Threads :
        LET resumed == {u \in Single!Threads : status[u] = "waiting" /\ status'[u] = "woken"}
        IN /\ Single!Measures(t, "suspends") => status[t] = "woken"
           /\ Single!Measures(t, "resumes higher") => resumed \cap Single!Above(t) # {}
           /\ Single!Measures(t, "readies lower") =>
                resumed # {} /\ \A u \in resumed : t \in Single!Above(u)
<1>1. CommandInv /\ Proved!Next => Good
  BY CommandMeasured DEF Single!Measures
<1>2. UNCHANGED Proved!vars => UNCHANGED Single!vars
  BY DEF Single!vars, Proved!vars, Single!testVars, Proved!testVars,
     Single!objectVars, Proved!objectVars
<1>3. ASSUME CommandInv, [CommandNext]_commandVars PROVE [Good]_(Single!vars)
  <2> HIDE DEF Good
  <2>1. Proved!Next \/ UNCHANGED Proved!vars
    BY <1>3, StepOfParts
  <2>. QED BY <1>1, <1>2, <1>3, <2>1
<1>. QED
  BY <1>3, CommandInvariance, PTL
  DEF CommandSpec, MeasuredAsDocumented, Single!MeasuredAsDocumented

\* In the whole command no message is lost to a full queue that does not
\* block, except where test6_0 has misjudged it.
THEOREM CommandKeepsMessages == CommandSpec => NoMessageIsLost
<1> DEFINE Good ==
      ~Single!Misjudged => \A t \in Single!Threads :
        Single!Sends(t) => messages < Single!MaxMsg
<1>1. CommandInv => Good
  <2> SUFFICES ASSUME CommandInv, ~Single!Misjudged, NEW t \in Single!Threads, Single!Sends(t)
               PROVE  messages < Single!MaxMsg
    OBVIOUS
  <2>1. ~Proved!Misjudged /\ t \in Proved!Threads /\ Proved!Sends(t)
    BY SameData, SameSends
  <2>2. messages < Proved!MaxMsg
    BY <2>1, Proved!RoomForMessage, RealtimeAssumption DEF CommandInv
  <2>. QED BY <2>2, SameData
<1>2. CommandInv /\ [CommandNext]_commandVars => [Good]_(Single!vars)
  BY <1>1
<1>. QED
  BY <1>2, CommandInvariance, PTL
  DEF CommandSpec, NoMessageIsLost, Single!NoMessageIsLost

\* In the whole command a single-core test destroys its objects after its
\* threads have ended, if it could create them.
THEOREM CommandObjects == CommandSpec => ObjectsOutliveThreads
<1> DEFINE Good ==
      Single!Finish /\ ~failed => \A t \in Single!Threads : status[t] \in {"none", "ended"}
<1>1. CommandInv => Good
  <2> SUFFICES ASSUME CommandInv, Single!Finish, ~failed
               PROVE  \A t \in Single!Threads : status[t] \in {"none", "ended"}
    OBVIOUS
  <2>1. Proved!Finish /\ Proved!GeneralInv
    BY SameFinish DEF CommandInv, Proved!TurnsInv
  <2>2. \A t \in Proved!Threads : status[t] \in {"none", "ended"}
    BY <2>1, Proved!FinishedOver, RealtimeAssumption
  <2>. QED BY <2>2, SameData
<1>2. CommandInv /\ [CommandNext]_commandVars => [Good]_(Single!vars)
  BY <1>1
<1>. QED
  BY <1>2, CommandInvariance, PTL
  DEF CommandSpec, ObjectsOutliveThreads, Single!ObjectsOutliveThreads

=============================================================================
