----------------------------- MODULE ContextRing -----------------------------
(***************************************************************************)
(* The context stressor (generator/stress_orig/stressor/stress-context.c): *)
(* threads in a ring hand a turn to one another through semaphores, each   *)
(* turn counts as one operation, until the limit of operations is reached  *)
(* or the stressor is stopped.  A thread that sees the stop at the head of *)
(* its loop leaves without a turn, so that the turn ends with it and the   *)
(* threads behind it wait for ever: the stressor waits for each of them    *)
(* for a limited time, deletes them all and frees the ring.                *)
(*                                                                         *)
(* A wait that times out (2000 ticks) and a sleep of the stressor (50 ms)  *)
(* are longer than what threads that can run need to finish or to block.   *)
(*                                                                         *)
(* Two ways out of a thread's loop are not here, as they cannot be taken:  *)
(* a take without a time limit fails only on a semaphore that is not there *)
(* (stress_osal_sem_take goes on after an interruption), and the ring is   *)
(* live while a thread takes (NoRingUseAfterFree); check0 and check1 are   *)
(* written once, before the threads are created.                           *)
(***************************************************************************)
EXTENDS ContextOptions, FiniteSets

Thread == 1..ContextThreads

VARIABLES
  pc,        \* where stress_context is
  spawns,    \* i of the loop that creates the threads
  waits,     \* i of the loop that waits for them
  timeouts,  \* how many of these waits timed out
  tpc,       \* where each thread is
  turn,      \* count of each semaphore sem_wait
  barrier,   \* count of barrier_sem
  deleted,   \* threads deleted: they end where they block
  ops,       \* args->bogo.current_ops
  stop,      \* global stop, or the time is over
  ring,      \* contexts and its semaphores: none, live, freed
  args       \* of this instance, freed after it has returned: live, freed

mainVars == <<pc, spawns, waits, timeouts>>
semVars  == <<turn, barrier>>
memVars  == <<ring, args>>
vars == <<mainVars, semVars, memVars, tpc, deleted, ops, stop>>

Init ==
  /\ pc = "setup" /\ spawns = 1 /\ waits = 1 /\ timeouts = 0
  /\ tpc = [i \in Thread |-> "none"] /\ deleted = {}
  /\ turn = [i \in Thread |-> 0] /\ barrier = 0
  /\ ops = 0 /\ stop = FALSE /\ ring = "none" /\ args = "live"

\* stress_continue
Continue == ~stop /\ (ContextOps = 0 \/ ops < ContextOps)

-----------------------------------------------------------------------------
(* The threads of the ring. *)

Goto(i, place) == tpc' = [tpc EXCEPT ![i] = place]

\* Mutant: a thread that leaves at the head of its loop does not say so.
BugLoopHead(i) ==
  /\ tpc[i] = "head" /\ Goto(i, IF Continue THEN "take" ELSE "rest")
  /\ UNCHANGED <<mainVars, semVars, memVars, deleted, ops, stop>>

LoopHead(i) ==
  /\ tpc[i] = "head" /\ Goto(i, IF Continue THEN "take" ELSE "signal")
  /\ UNCHANGED <<mainVars, semVars, memVars, deleted, ops, stop>>

Take(i) ==
  /\ tpc[i] = "take" /\ turn[i] > 0
  /\ turn' = [turn EXCEPT ![i] = @ - 1] /\ Goto(i, "check")
  /\ UNCHANGED <<mainVars, barrier, memVars, deleted, ops, stop>>

\* Mutant: the stop is looked at once per round, at the head of the loop.
BugCheck(i) ==
  /\ tpc[i] = "check" /\ Goto(i, "count")
  /\ UNCHANGED <<mainVars, semVars, memVars, deleted, ops, stop>>

Check(i) ==
  /\ tpc[i] = "check" /\ Goto(i, IF Continue THEN "count" ELSE "passLast")
  /\ UNCHANGED <<mainVars, semVars, memVars, deleted, ops, stop>>

Count(i) ==
  /\ tpc[i] = "count" /\ Goto(i, "pass")
  /\ ops' = ops + 1
  /\ UNCHANGED <<mainVars, semVars, memVars, deleted, stop>>

Neighbour(i) == IF i = ContextThreads THEN 1 ELSE i + 1

Pass(i) ==
  /\ tpc[i] \in {"pass", "passLast"}
  /\ turn' = [turn EXCEPT ![Neighbour(i)] = @ + 1]
  /\ Goto(i, IF tpc[i] = "pass" THEN "head" ELSE "signal")
  /\ UNCHANGED <<mainVars, barrier, memVars, deleted, ops, stop>>

\* A thread that has left sleeps until it is deleted.
Signal(i) ==
  /\ tpc[i] = "signal" /\ Goto(i, "rest")
  /\ barrier' = barrier + 1
  /\ UNCHANGED <<mainVars, turn, memVars, deleted, ops, stop>>

\* Deleted threads end where they wait or sleep (on POSIX, a cancellation
\* point).
Die(i) ==
  /\ i \in deleted /\ tpc[i] \in {"take", "rest"} /\ Goto(i, "gone")
  /\ UNCHANGED <<mainVars, semVars, memVars, deleted, ops, stop>>

ThreadStep(i) ==
  LoopHead(i) \/ Take(i) \/ Check(i) \/ Count(i) \/ Pass(i) \/ Signal(i)

Waiting(i) == tpc[i] = "take" /\ turn[i] = 0

\* No thread can move on.
Quiet ==
  \A i \in Thread :
    \/ tpc[i] \in {"none", "gone"}
    \/ i \notin deleted /\ (tpc[i] = "rest" \/ Waiting(i))

-----------------------------------------------------------------------------
(* stress_context. *)

\* The semaphores and contexts, or a return that frees what there was.
Setup ==
  /\ pc = "setup"
  /\ \/ pc' = "spawn" /\ ring' = "live"
     \/ ContextFailures /\ pc' = "returned" /\ UNCHANGED ring
  /\ UNCHANGED <<spawns, waits, timeouts, semVars, args, tpc, deleted, ops, stop>>

Spawn ==
  /\ pc = "spawn" /\ spawns <= ContextThreads
  /\ \/ Goto(spawns, "head")
     \/ ContextFailures /\ UNCHANGED tpc
  /\ spawns' = spawns + 1
  /\ UNCHANGED <<pc, waits, timeouts, semVars, memVars, deleted, ops, stop>>

Created == {i \in Thread : tpc[i] # "none"}

\* The first turn, unless a thread is missing: then nothing is cleaned up.
FirstTurn ==
  /\ pc = "spawn" /\ spawns > ContextThreads
  /\ IF Created = Thread
       THEN turn' = [turn EXCEPT ![1] = @ + 1] /\ pc' = "run"
       ELSE UNCHANGED turn /\ pc' = "leave"
  /\ UNCHANGED <<spawns, waits, timeouts, barrier, memVars, tpc, deleted, ops, stop>>

SeeStop ==
  /\ pc = "run" /\ ~Continue /\ pc' = "wait"
  /\ UNCHANGED <<spawns, waits, timeouts, semVars, memVars, tpc, deleted, ops, stop>>

\* Mutant: the wait has no limit.
BugWait ==
  /\ pc = "wait" /\ waits <= ContextThreads /\ barrier > 0
  /\ barrier' = barrier - 1 /\ waits' = waits + 1
  /\ UNCHANGED <<pc, spawns, timeouts, turn, memVars, tpc, deleted, ops, stop>>

\* One wait for each thread, whichever it is that has left.
Wait ==
  /\ pc = "wait" /\ waits <= ContextThreads
  /\ IF barrier > 0
       THEN barrier' = barrier - 1 /\ UNCHANGED timeouts
       ELSE Quiet /\ timeouts' = timeouts + 1 /\ UNCHANGED barrier
  /\ waits' = waits + 1
  /\ UNCHANGED <<pc, spawns, turn, memVars, tpc, deleted, ops, stop>>

\* Mutant: only the threads that have left are deleted.
BugDeleteThreads ==
  /\ pc = "wait" /\ waits > ContextThreads /\ pc' = "free"
  /\ deleted' = {i \in Thread : tpc[i] = "rest"}
  /\ UNCHANGED <<spawns, waits, timeouts, semVars, memVars, tpc, ops, stop>>

DeleteThreads ==
  /\ pc = "wait" /\ waits > ContextThreads /\ pc' = "free"
  /\ deleted' = Thread
  /\ UNCHANGED <<spawns, waits, timeouts, semVars, memVars, tpc, ops, stop>>

\* After its sleep; a ring that is not complete is left behind.
FreeRing ==
  /\ pc \in {"free", "leave"} /\ Quiet /\ pc' = "returned"
  /\ ring' = IF pc = "free" THEN "freed" ELSE ring
  /\ UNCHANGED <<spawns, waits, timeouts, semVars, args, tpc, deleted, ops, stop>>

\* stress_run_one_job frees the args of instances that have returned.
FreeArgs ==
  /\ pc = "returned" /\ args = "live" /\ args' = "freed"
  /\ UNCHANGED <<mainVars, semVars, ring, tpc, deleted, ops, stop>>

MainStep ==
  \/ Setup \/ Spawn \/ FirstTurn \/ SeeStop \/ Wait \/ DeleteThreads \/ FreeRing \/ FreeArgs

Stop ==
  /\ ContextStops /\ ~stop /\ stop' = TRUE
  /\ UNCHANGED <<mainVars, semVars, memVars, tpc, deleted, ops>>

Next ==
  \/ MainStep
  \/ \E i \in Thread : ThreadStep(i) \/ Die(i)
  \/ Stop

Spec == Init /\ [][Next]_vars

\* Every thread that can run does, deleted threads end, time passes; nobody need
\* stop the stressor.
FairSpec ==
  /\ Spec
  /\ WF_vars(MainStep)
  /\ \A i \in Thread : WF_vars(ThreadStep(i) \/ Die(i))

-----------------------------------------------------------------------------
(* Properties. *)

\* The types of the variables.
TypeOK ==
  /\ pc \in {"setup", "spawn", "run", "wait", "free", "leave", "returned"}
  /\ spawns \in 1..(ContextThreads + 1) /\ waits \in 1..(ContextThreads + 1) /\ timeouts \in Nat
  /\ tpc \in [Thread -> {"none", "head", "take", "check", "count", "pass", "passLast",
                         "signal", "rest", "gone"}]
  /\ turn \in [Thread -> Nat] /\ barrier \in Nat /\ deleted \subseteq Thread
  /\ ops \in Nat /\ stop \in BOOLEAN
  /\ ring \in {"none", "live", "freed"} /\ args \in {"live", "freed"}

Holds(i) == tpc[i] \in {"check", "count", "pass", "passLast"}

\* There is one turn in the ring (:148, 52-68): whoever counts an operation is
\* alone in doing so, though nothing else protects current_ops.
OneTurn ==
  \A i, j \in Thread :
    /\ turn[i] <= 1
    /\ (turn[i] = 1 \/ Holds(i)) /\ (turn[j] = 1 \/ Holds(j)) => i = j

\* With a limit of operations exactly as many are counted (core-helper.c:26-30
\* against :56-66): the check and the increment are two steps, but of one thread.
OpsWithinLimit == ContextOps > 0 => ops <= ContextOps

\* No thread uses the ring or its semaphores once they are freed (:175-183), nor
\* the args that stress_run_one_job frees (stress-ng.c:384-393).
NoUseAfterFree ==
  \A i \in Thread :
    /\ ring = "freed" => tpc[i] \in {"none", "rest", "gone"}
    /\ args = "freed" => tpc[i] \notin {"head", "check", "count"}

\* stress_wait_for_workers allows the stressor 5000 ticks from the end of its time
\* (stress-ng.c:186-188), which spends 2000 for each thread that does not report
\* (:158): with the rings of up to three threads that the stored jobs ask for
\* (stress_stored_job.c:29-101) it comes back before that.
CleanupWithinMargin == timeouts * 2000 < 5000

\* The stressor returns (:155-185) though threads may be left waiting in the ring;
\* and without a stop the turn goes round until the limit of operations is reached.
ContextReturns == ContextOps > 0 \/ <>stop => <>(pc = "returned")
=============================================================================
