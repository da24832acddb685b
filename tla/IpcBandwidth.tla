---------------------------- MODULE IpcBandwidth ----------------------------
(***************************************************************************)
(* The message-queue bandwidth test                                        *)
(* (generator/realtime_orig/multicore/ipc_bw.c): a father thread starts    *)
(* pairs of threads, waits until all are prepared, starts the clock and    *)
(* the pairs, and stops the clock when all have finished.  The son of a    *)
(* pair sends two messages a turn, its tmp thread receives them.  Father   *)
(* and sons share two semaphores, one in each direction; each pair has two *)
(* more of its own.                                                        *)
(***************************************************************************)
EXTENDS MulticoreTest

CONSTANT Turns     \* TEST_REPETITION

ASSUME IpcAssumption == Turns \in Nat \ {0}

MaxMsg == 2        \* mq_maxmsg, and the messages of a turn

VARIABLES
  ipc_father,       \* where the father is: none, create, ready, notify, wait, join, returned
  ipc_i,            \* the pair its loop is at
  ipc_clock,        \* before, running (t0 taken) or stopped (t1 taken)
  ipc_main,         \* where multicore_ipc_bw is: queues, create, join; or what it came to
  ipc_to_father, ipc_to_son,    \* son_to_father and father_to_son, their counts
  son_to_tmp, tmp_to_son,       \* those of the pairs
  ipc_son,          \* of each pair: none, start, ready, send, turn, join, ended, failed
  ipc_tmp,          \* of each pair: none, wait, receive, ended
  sent, received,   \* messages of each pair so far
  sturn, tturn      \* turns its two loops have done

ipcFatherVars == <<ipc_father, ipc_i, ipc_clock, ipc_main>>
ipcSems   == <<son_to_tmp, tmp_to_son>>
ipcSonVars    == <<ipc_son, sent, sturn>>
ipcTmpVars    == <<ipc_tmp, received, tturn>>
ipcVars == <<ipcFatherVars, ipcSonVars, ipcTmpVars, ipc_to_father, ipc_to_son, ipcSems>>

IpcInit ==
  /\ ipc_father = "none" /\ ipc_i = 1 /\ ipc_clock = "before" /\ ipc_main = "queues"
  /\ ipc_son = [p \in Number |-> "none"] /\ ipc_tmp = [p \in Number |-> "none"]
  /\ ipc_to_father = 0 /\ ipc_to_son = 0
  /\ son_to_tmp = [p \in Number |-> 0] /\ tmp_to_son = [p \in Number |-> 0]
  /\ sent = [p \in Number |-> 0] /\ received = [p \in Number |-> 0]
  /\ sturn = [p \in Number |-> 0] /\ tturn = [p \in Number |-> 0]

-----------------------------------------------------------------------------
(* multicore_ipc_bw *)

\* A queue that cannot be opened: exit(1).
IpcOpenQueues ==
  /\ ipc_main = "queues"
  /\ ipc_main' \in {"create"} \cup (IF "queue" \in MayFail THEN {"exited"} ELSE {})
  /\ UNCHANGED <<ipc_father, ipc_i, ipc_clock, ipcSonVars, ipcTmpVars, ipc_to_father,
                 ipc_to_son, ipcSems>>

\* Without its father it returns 0, and leaves semaphores and queues as they are.
IpcCreateFather ==
  /\ ipc_main = "create"
  /\ \/ ipc_main' = "join" /\ ipc_father' = "create"
     \/ "father" \in MayFail /\ ipc_main' = "refused" /\ UNCHANGED ipc_father
  /\ UNCHANGED <<ipc_i, ipc_clock, ipcSonVars, ipcTmpVars, ipc_to_father, ipc_to_son,
                 ipcSems>>

\* Join the father, destroy the semaphores and the queues, divide by what cycles
\* gives.  A father that did not stop its clock leaves in cycles what an earlier
\* call has measured or, where none has, 0: the division by zero ends the process
\* on a processor that traps it, and gives any number on one that does not.
IpcReturn ==
  /\ ipc_main = "join" /\ ipc_father = "returned"
  /\ ipc_main' \in IF ipc_clock = "stopped" THEN {"measured"} ELSE {"stale", "trapped"}
  /\ UNCHANGED <<ipc_father, ipc_i, ipc_clock, ipcSonVars, ipcTmpVars, ipc_to_father,
                 ipc_to_son, ipcSems>>

IpcCaller == IpcOpenQueues \/ IpcCreateFather \/ IpcReturn

IpcReturned == ipc_main \in {"measured", "stale", "refused"}
IpcEnded == ipc_main \in {"exited", "trapped"}    \* the whole process

-----------------------------------------------------------------------------
(* father_thread *)

\* Mutant: one round too many.
BugIpcLoop(s) ==
  IF ipc_i <= Concurrency
  THEN ipc_i' = ipc_i + 1 /\ UNCHANGED ipc_father
  ELSE ipc_i' = 1 /\ ipc_father' = s

\* The loop over the pairs goes on, or the father goes on to step s.
IpcLoop(s) ==
  IF ipc_i < Concurrency
  THEN ipc_i' = ipc_i + 1 /\ UNCHANGED ipc_father
  ELSE ipc_i' = 1 /\ ipc_father' = s

\* Without a son it returns at once, and leaves the others as they are.
IpcCreateSon ==
  /\ ipc_father = "create"
  /\ \/ ipc_son' = [ipc_son EXCEPT ![ipc_i] = "start"] /\ IpcLoop("ready")
     \/ "son" \in MayFail /\ ipc_father' = "returned" /\ UNCHANGED <<ipc_i, ipc_son>>
  /\ UNCHANGED <<ipc_clock, sent, sturn, ipcTmpVars, ipc_to_father, ipc_to_son, ipcSems,
                 ipc_main>>

\* Mutant: the sons are released before all of them are prepared.
BugIpcAwaitReady ==
  /\ ipc_father = "ready"
  /\ ipc_father' = "notify" /\ ipc_i' = 1 /\ ipc_clock' = "running"
  /\ UNCHANGED <<ipcSonVars, ipcTmpVars, ipc_to_father, ipc_to_son, ipcSems, ipc_main>>

\* t0 is taken after the last wait.
IpcAwaitReady ==
  /\ ipc_father = "ready" /\ ipc_to_father > 0
  /\ ipc_to_father' = ipc_to_father - 1
  /\ IpcLoop("notify")
  /\ ipc_clock' = IF ipc_i = Concurrency THEN "running" ELSE ipc_clock
  /\ UNCHANGED <<ipcSonVars, ipcTmpVars, ipc_to_son, ipcSems, ipc_main>>

IpcNotify ==
  /\ ipc_father = "notify"
  /\ ipc_to_son' = ipc_to_son + 1
  /\ IpcLoop("wait")
  /\ UNCHANGED <<ipc_clock, ipcSonVars, ipcTmpVars, ipc_to_father, ipcSems, ipc_main>>

\* t1 is taken after the last wait.
IpcAwaitDone ==
  /\ ipc_father = "wait" /\ ipc_to_father > 0
  /\ ipc_to_father' = ipc_to_father - 1
  /\ IpcLoop("join")
  /\ ipc_clock' = IF ipc_i = Concurrency THEN "stopped" ELSE ipc_clock
  /\ UNCHANGED <<ipcSonVars, ipcTmpVars, ipc_to_son, ipcSems, ipc_main>>

IpcJoin ==
  /\ ipc_father = "join" /\ ipc_son[ipc_i] \in {"ended", "failed"}
  /\ IpcLoop("returned")
  /\ UNCHANGED <<ipc_clock, ipcSonVars, ipcTmpVars, ipc_to_father, ipc_to_son, ipcSems,
                 ipc_main>>

IpcFather == IpcCreateSon \/ IpcAwaitReady \/ IpcNotify \/ IpcAwaitDone \/ IpcJoin

-----------------------------------------------------------------------------
(* son_thread *)

\* The son posts the same semaphore whether it has its tmp thread or not.
IpcPrepare(p) ==
  /\ ipc_son[p] = "start"
  /\ \/ ipc_son' = [ipc_son EXCEPT ![p] = "ready"] /\ ipc_tmp' = [ipc_tmp EXCEPT ![p] = "wait"]
     \/ "tmp" \in MayFail /\ ipc_son' = [ipc_son EXCEPT ![p] = "failed"] /\ UNCHANGED ipc_tmp
  /\ ipc_to_father' = ipc_to_father + 1
  /\ UNCHANGED <<ipcFatherVars, sent, sturn, received, tturn, ipc_to_son, ipcSems>>

IpcStarted(p) ==
  /\ ipc_son[p] = "ready" /\ ipc_to_son > 0
  /\ ipc_to_son' = ipc_to_son - 1
  /\ ipc_son' = [ipc_son EXCEPT ![p] = "send"]
  /\ UNCHANGED <<ipcFatherVars, sent, sturn, ipcTmpVars, ipc_to_father, ipcSems>>

\* mq_send, twice a turn; it waits while the queue is full.
IpcSend(p) ==
  /\ ipc_son[p] = "send" /\ sent[p] < 2 * (sturn[p] + 1)
  /\ sent[p] - received[p] < MaxMsg
  /\ sent' = [sent EXCEPT ![p] = @ + 1]
  /\ UNCHANGED <<ipcFatherVars, ipc_son, sturn, ipcTmpVars, ipc_to_father, ipc_to_son,
                 ipcSems>>

IpcStartTmp(p) ==
  /\ ipc_son[p] = "send" /\ sent[p] = 2 * (sturn[p] + 1)
  /\ son_to_tmp' = [son_to_tmp EXCEPT ![p] = @ + 1]
  /\ ipc_son' = [ipc_son EXCEPT ![p] = "turn"]
  /\ UNCHANGED <<ipcFatherVars, sent, sturn, ipcTmpVars, ipc_to_father, ipc_to_son,
                 tmp_to_son>>

\* Mutant: the son does not wait for its tmp thread.
BugIpcNextTurn(p) ==
  /\ ipc_son[p] = "turn"
  /\ sturn' = [sturn EXCEPT ![p] = @ + 1]
  /\ ipc_son' = [ipc_son EXCEPT ![p] = IF sturn[p] + 1 = Turns THEN "join" ELSE "send"]
  /\ UNCHANGED <<ipcFatherVars, sent, ipcTmpVars, ipc_to_father, ipc_to_son, ipcSems>>

IpcNextTurn(p) ==
  /\ ipc_son[p] = "turn" /\ tmp_to_son[p] > 0
  /\ tmp_to_son' = [tmp_to_son EXCEPT ![p] = @ - 1]
  /\ sturn' = [sturn EXCEPT ![p] = @ + 1]
  /\ ipc_son' = [ipc_son EXCEPT ![p] = IF sturn[p] + 1 = Turns THEN "join" ELSE "send"]
  /\ UNCHANGED <<ipcFatherVars, sent, ipcTmpVars, ipc_to_father, ipc_to_son, son_to_tmp>>

\* The tmp thread is joined before the father hears of the end.
IpcFinish(p) ==
  /\ ipc_son[p] = "join" /\ ipc_tmp[p] = "ended"
  /\ ipc_to_father' = ipc_to_father + 1
  /\ ipc_son' = [ipc_son EXCEPT ![p] = "ended"]
  /\ UNCHANGED <<ipcFatherVars, sent, sturn, ipcTmpVars, ipc_to_son, ipcSems>>

-----------------------------------------------------------------------------
(* tmp_thread *)

IpcBeginTurn(p) ==
  /\ ipc_tmp[p] = "wait" /\ tturn[p] < Turns /\ son_to_tmp[p] > 0
  /\ son_to_tmp' = [son_to_tmp EXCEPT ![p] = @ - 1]
  /\ ipc_tmp' = [ipc_tmp EXCEPT ![p] = "receive"]
  /\ UNCHANGED <<ipcFatherVars, ipcSonVars, received, tturn, ipc_to_father, ipc_to_son,
                 tmp_to_son>>

\* mq_receive, twice a turn; it waits while the queue is empty.
IpcReceive(p) ==
  /\ ipc_tmp[p] = "receive" /\ received[p] < 2 * (tturn[p] + 1) /\ received[p] < sent[p]
  /\ received' = [received EXCEPT ![p] = @ + 1]
  /\ UNCHANGED <<ipcFatherVars, ipcSonVars, ipc_tmp, tturn, ipc_to_father, ipc_to_son,
                 ipcSems>>

IpcEndTurn(p) ==
  /\ ipc_tmp[p] = "receive" /\ received[p] = 2 * (tturn[p] + 1)
  /\ tmp_to_son' = [tmp_to_son EXCEPT ![p] = @ + 1]
  /\ tturn' = [tturn EXCEPT ![p] = @ + 1]
  /\ ipc_tmp' = [ipc_tmp EXCEPT ![p] = IF tturn[p] + 1 = Turns THEN "ended" ELSE "wait"]
  /\ UNCHANGED <<ipcFatherVars, ipcSonVars, received, ipc_to_father, ipc_to_son,
                 son_to_tmp>>

IpcPairStep(p) ==
  \/ IpcPrepare(p) \/ IpcStarted(p) \/ IpcSend(p) \/ IpcStartTmp(p)
  \/ IpcNextTurn(p) \/ IpcFinish(p)
  \/ IpcBeginTurn(p) \/ IpcReceive(p) \/ IpcEndTurn(p)

\* The sons that were left behind run on beside what follows.
IpcNext ==
  \/ IpcCaller \/ IpcFather
  \/ ~IpcEnded /\ \E p \in Number : IpcPairStep(p)

\* Every thread runs when it can: the priorities of father and sons differ,
\* but none of them waits by spinning.
IpcFairness ==
  /\ WF_ipcVars(IpcCaller \/ IpcFather)
  /\ \A p \in Number : WF_ipcVars(~IpcEnded /\ IpcPairStep(p))

IpcSpec == IpcInit /\ [][IpcNext]_ipcVars /\ IpcFairness

-----------------------------------------------------------------------------
IpcTypeOK ==
  /\ ipc_father \in {"none", "create", "ready", "notify", "wait", "join", "returned"}
  /\ ipc_i \in Number /\ ipc_clock \in {"before", "running", "stopped"}
  /\ ipc_main \in {"queues", "create", "join", "measured", "stale", "refused",
                  "exited", "trapped"}
  /\ ipc_son \in [Number -> {"none", "start", "ready", "send", "turn", "join", "ended", "failed"}]
  /\ ipc_tmp \in [Number -> {"none", "wait", "receive", "ended"}]
  /\ {ipc_to_father, ipc_to_son} \subseteq Nat
  /\ {son_to_tmp, tmp_to_son, sent, received, sturn, tturn} \subseteq [Number -> Nat]

\* No son is held up by a full queue while the clock runs: what is measured
\* is the rendezvous of the turns, whose messages always fit the queue.
SendNeverBlocks ==
  \A p \in Number :
    ipc_son[p] = "send" /\ sent[p] < 2 * (sturn[p] + 1) => sent[p] - received[p] < MaxMsg

\* No message is sent before the clock runs, and all are received before it
\* stops, whichever posts the father counts on the shared semaphore.
ClockSpansTraffic ==
  /\ ipc_clock = "before" => \A p \in Number : sent[p] = 0
  /\ ipc_clock = "stopped" => \A p \in Number : received[p] = 2 * Turns

\* The known hang: the father waits for the end of all sons when one of them has
\* ended without a tmp thread, and no post is left to come.
IpcHangs ==
  /\ ipc_father = "wait" /\ ipc_to_father = 0
  /\ \A p \in Number : ipc_son[p] \in {"ended", "failed"}
  /\ \E p \in Number : ipc_son[p] = "failed"

\* "wait for all": the father comes to an end.
FatherComesBack == <>(ipc_father = "returned")

=============================================================================
