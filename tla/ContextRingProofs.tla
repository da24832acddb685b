-------------------------- MODULE ContextRingProofs --------------------------
(***************************************************************************)
(* Proofs about ContextRing, for every number of threads and every limit:  *)
(* there is one turn in the ring, and therefore the operations counted     *)
(* stay within the limit although the check and the increment are two      *)
(* steps that nothing protects.  The end of the stressor rests on the same *)
(* turn: once the stop is seen the thread that has it always reports, so   *)
(* that not every wait for a report runs into its timeout, and a ring is   *)
(* freed only when nothing runs that points to it (CleanupInv).            *)
(***************************************************************************)
EXTENDS ContextRing, TLAPS

HasTurn(i) == turn[i] = 1 \/ Holds(i)

\* The turn: none before FirstTurn, then at most one.
TurnInv ==
  /\ turn \in [Thread -> {0, 1}]
  /\ \A i \in Thread : ~(turn[i] = 1 /\ Holds(i))
  /\ \A i, j \in Thread : HasTurn(i) /\ HasTurn(j) => i = j
  /\ pc \in {"setup", "spawn"} => \A i \in Thread : ~HasTurn(i)

\* The limit, as the holder of the turn has seen it.
CountInv ==
  /\ ops \in Nat
  /\ ContextOps > 0 => ops <= ContextOps
  /\ \A i \in Thread : tpc[i] = "count" => ContextOps = 0 \/ ops < ContextOps

RingInv == TurnInv /\ CountInv /\ DOMAIN tpc = Thread /\ spawns \in Nat \ {0}

LEMMA NeighbourType == \A i \in Thread : Neighbour(i) \in Thread
  BY ContextAssumption DEF Neighbour, Thread

LEMMA RingInvInit == Init => RingInv
  BY ContextAssumption DEF Init, RingInv, TurnInv, CountInv, HasTurn, Holds, Thread

\* A step that leaves the turn with the thread that has it, and the count alone.
LEMMA MoveKeepsInv ==
  ASSUME NEW i \in Thread, RingInv, tpc' = [tpc EXCEPT ![i] = tpc'[i]],
         UNCHANGED <<pc, spawns, turn, ops>>,
         Holds(i)' => Holds(i),
         tpc'[i] = "count" => ContextOps = 0 \/ ops < ContextOps
  PROVE  RingInv'
<1>1. \A j \in Thread : j # i => tpc'[j] = tpc[j]
  BY DEF RingInv
<1>2. \A j \in Thread : HasTurn(j)' => HasTurn(j)
  BY <1>1 DEF HasTurn, Holds
<1>3. TurnInv'
  BY <1>1, <1>2 DEF RingInv, TurnInv, HasTurn, Holds
<1>4. CountInv'
  BY <1>1 DEF RingInv, CountInv
<1> QED
  BY <1>3, <1>4 DEF RingInv

LEMMA RingInvThread == ASSUME RingInv, NEW i \in Thread, ThreadStep(i) \/ Die(i) PROVE RingInv'
<1> USE DEF mainVars, semVars, memVars
<1>1. CASE LoopHead(i)
  BY <1>1, MoveKeepsInv DEF LoopHead, Goto, Holds, RingInv
<1>2. CASE Take(i)
  <2>1. /\ turn[i] = 1 /\ turn' = [turn EXCEPT ![i] = 0]
        /\ tpc' = [tpc EXCEPT ![i] = "check"] /\ UNCHANGED <<pc, spawns, ops>>
    <3>1. turn[i] = 1 /\ turn[i] - 1 = 0
      BY <1>2 DEF Take, RingInv, TurnInv
    <3> QED
      BY <1>2, <3>1 DEF Take, Goto
  <2>2. \A j \in Thread : HasTurn(j)' <=> HasTurn(j)
    BY <2>1 DEF RingInv, TurnInv, HasTurn, Holds
  <2>3. TurnInv'
    BY <2>1, <2>2 DEF RingInv, TurnInv, HasTurn, Holds
  <2>4. CountInv'
    BY <2>1 DEF RingInv, CountInv
  <2> QED
    BY <2>1, <2>3, <2>4 DEF RingInv
<1>3. CASE Check(i)
  <2>1. /\ tpc[i] = "check" /\ tpc' = [tpc EXCEPT ![i] = tpc'[i]]
        /\ UNCHANGED <<pc, spawns, turn, ops>>
        /\ tpc'[i] = "count" => ContextOps = 0 \/ ops < ContextOps
    BY <1>3 DEF Check, Goto, Continue, RingInv
  <2> QED
    BY <2>1, MoveKeepsInv DEF Holds
<1>4. CASE Count(i)
  <2>1. /\ tpc[i] = "count" /\ tpc' = [tpc EXCEPT ![i] = "pass"]
        /\ ops' = ops + 1 /\ UNCHANGED <<pc, spawns, turn>>
    BY <1>4 DEF Count, Goto
  <2>2. \A j \in Thread : HasTurn(j)' <=> HasTurn(j)
    BY <2>1 DEF RingInv, HasTurn, Holds
  <2>3. TurnInv'
    BY <2>1, <2>2 DEF RingInv, TurnInv, HasTurn, Holds
  <2>4. \A j \in Thread : tpc'[j] # "count"
    BY <2>1 DEF RingInv, TurnInv, HasTurn, Holds
  <2>5. CountInv'
    BY <2>1, <2>4, ContextAssumption DEF RingInv, CountInv
  <2> QED
    BY <2>1, <2>3, <2>5 DEF RingInv
<1>5. CASE Pass(i)
  <2> DEFINE n == Neighbour(i)
  <2>1. n \in Thread
    BY NeighbourType
  <2>2. \A j \in Thread : turn[j] = 0 /\ (HasTurn(j) => j = i)
    BY <1>5 DEF Pass, RingInv, TurnInv, HasTurn, Holds
  <2>3. /\ turn' = [turn EXCEPT ![n] = 1] /\ UNCHANGED <<pc, spawns, ops>>
        /\ tpc' = [tpc EXCEPT ![i] = tpc'[i]] /\ tpc'[i] \in {"head", "signal"}
    <3>1. turn[n] + 1 = 1
      BY <2>1, <2>2
    <3>2. turn' = [turn EXCEPT ![n] = turn[n] + 1] /\ UNCHANGED <<pc, spawns, ops>>
      BY <1>5 DEF Pass
    <3>3. PICK place \in {"head", "signal"} : tpc' = [tpc EXCEPT ![i] = place]
      BY <1>5 DEF Pass, Goto
    <3> QED
      BY <3>1, <3>2, <3>3 DEF RingInv
  <2>4. \A j \in Thread : HasTurn(j)' => j = n /\ ~Holds(j)'
    BY <2>2, <2>3 DEF RingInv, TurnInv, HasTurn, Holds
  <2>5. pc \notin {"setup", "spawn"}
    BY <1>5 DEF Pass, RingInv, TurnInv, HasTurn, Holds
  <2>6. turn' \in [Thread -> {0, 1}]
    BY <2>1, <2>3 DEF RingInv, TurnInv
  <2>7. \A j \in Thread : ~(turn'[j] = 1 /\ Holds(j)')
    BY <2>4 DEF HasTurn
  <2>8. TurnInv'
    BY <2>3, <2>4, <2>5, <2>6, <2>7 DEF TurnInv
  <2>9. CountInv'
    BY <2>3 DEF RingInv, CountInv
  <2> QED
    BY <2>3, <2>8, <2>9 DEF RingInv
<1>6. CASE Signal(i)
  BY <1>6, MoveKeepsInv DEF Signal, Goto, Holds, RingInv
<1>7. CASE Die(i)
  BY <1>7, MoveKeepsInv DEF Die, Goto, Holds, RingInv
<1> QED
  BY <1>1, <1>2, <1>3, <1>4, <1>5, <1>6, <1>7 DEF ThreadStep

LEMMA RingInvMain == ASSUME RingInv, MainStep \/ Stop \/ UNCHANGED vars PROVE RingInv'
<1> USE DEF mainVars, semVars, memVars
<1>1. CASE Setup
  BY <1>1 DEF Setup, RingInv, TurnInv, CountInv, HasTurn, Holds
<1>2. CASE Spawn
  <2>1. CASE UNCHANGED tpc
    BY <1>2, <2>1 DEF Spawn, RingInv, TurnInv, CountInv, HasTurn, Holds
  <2>2. CASE Goto(spawns, "head")
    <3>1. /\ spawns \in Thread /\ spawns' = spawns + 1 /\ spawns' \in Nat \ {0}
          /\ UNCHANGED <<pc, turn, ops>> /\ pc = "spawn"
      BY <1>2, ContextAssumption DEF Spawn, RingInv, Thread
    <3>2. tpc' = [tpc EXCEPT ![spawns] = "head"]
      BY <2>2 DEF Goto
    <3>3. \A j \in Thread : ~HasTurn(j) /\ ~HasTurn(j)' /\ (tpc'[j] = "count" => tpc[j] = "count")
      BY <3>1, <3>2 DEF RingInv, TurnInv, HasTurn, Holds
    <3> QED
      BY <3>1, <3>2, <3>3 DEF RingInv, TurnInv, CountInv, HasTurn
  <2> QED
    BY <1>2, <2>1, <2>2 DEF Spawn
<1>3. CASE FirstTurn
  <2>1. CASE turn' = [turn EXCEPT ![1] = @ + 1] /\ pc' = "run"
    <3>1. /\ 1 \in Thread /\ pc = "spawn" /\ UNCHANGED <<spawns, tpc, ops>>
      BY <1>3, ContextAssumption DEF FirstTurn, Thread
    <3>2. \A j \in Thread : ~HasTurn(j)
      BY <3>1 DEF RingInv, TurnInv
    <3>3. turn' = [turn EXCEPT ![1] = 1]
      <4>1. turn[1] = 0 /\ turn[1] + 1 = 1
        BY <3>1, <3>2 DEF RingInv, TurnInv, HasTurn
      <4> QED
        BY <2>1, <4>1
    <3>4. \A j \in Thread : HasTurn(j)' => j = 1 /\ ~Holds(j)'
      BY <3>1, <3>2, <3>3 DEF RingInv, TurnInv, HasTurn, Holds
    <3>5. turn' \in [Thread -> {0, 1}] /\ \A j \in Thread : ~(turn'[j] = 1 /\ Holds(j)')
      BY <3>1, <3>3, <3>4 DEF RingInv, TurnInv, HasTurn
    <3> QED
      BY <2>1, <3>1, <3>4, <3>5 DEF RingInv, TurnInv, CountInv
  <2>2. CASE UNCHANGED turn /\ pc' = "leave"
    BY <1>3, <2>2 DEF FirstTurn, RingInv, TurnInv, CountInv, HasTurn, Holds
  <2> QED
    BY <1>3, <2>1, <2>2 DEF FirstTurn
<1>4. CASE SeeStop \/ Wait \/ DeleteThreads \/ FreeRing \/ FreeArgs \/ Stop \/ UNCHANGED vars
  <2>1. /\ UNCHANGED <<spawns, turn, tpc, ops>>
        /\ pc' \in {"setup", "spawn"} => pc' = pc
    BY <1>4 DEF SeeStop, Wait, DeleteThreads, FreeRing, FreeArgs, Stop, vars
  <2> QED
    BY <2>1 DEF RingInv, TurnInv, CountInv, HasTurn, Holds
<1> QED
  BY <1>1, <1>2, <1>3, <1>4 DEF MainStep

LEMMA RingInvAlways == Spec => []RingInv
<1>1. RingInv /\ [Next]_vars => RingInv'
  BY RingInvThread, RingInvMain DEF Next
<1> QED
  BY RingInvInit, <1>1, PTL DEF Spec

\* Whoever counts an operation is alone in doing so (stress-context.c:52-68).
THEOREM OneTurnInRing == Spec => []OneTurn
<1>1. RingInv => OneTurn
  BY DEF RingInv, TurnInv, OneTurn, HasTurn
<1> QED
  BY RingInvAlways, <1>1, PTL

\* The operations counted stay within the limit (core-helper.c:26-30).
THEOREM RingKeepsLimit == Spec => []OpsWithinLimit
<1>1. RingInv => OpsWithinLimit
  BY DEF RingInv, CountInv, OpsWithinLimit
<1> QED
  BY RingInvAlways, <1>1, PTL

-----------------------------------------------------------------------------
(* The end of the stressor. *)

LEMMA RingTypes == Spec => []TypeOK
<1> USE ContextAssumption
<1>1. ASSUME Init PROVE TypeOK
  <2>1. /\ spawns \in 1..(ContextThreads + 1) /\ waits \in 1..(ContextThreads + 1)
        /\ timeouts \in Nat /\ barrier \in Nat /\ ops \in Nat
    BY <1>1 DEF Init
  <2>2. turn \in [Thread -> Nat] /\ deleted \subseteq Thread
    BY <1>1 DEF Init
  <2> QED
    BY <1>1, <2>1, <2>2 DEF Init, TypeOK
<1>2. ASSUME TypeOK, [Next]_vars PROVE TypeOK'
  <2> USE DEF mainVars, semVars, memVars
  <2>1. CASE Setup
    BY <1>2, <2>1 DEF Setup, TypeOK
  <2>2. CASE Spawn
    <3>1. spawns' \in 1..(ContextThreads + 1) /\ spawns \in Thread
      BY <1>2, <2>2 DEF Spawn, TypeOK, Thread
    <3>2. tpc' = tpc \/ tpc' = [tpc EXCEPT ![spawns] = "head"]
      BY <2>2 DEF Spawn, Goto
    <3> QED
      BY <1>2, <2>2, <3>1, <3>2 DEF Spawn, TypeOK
  <2>3. CASE FirstTurn
    <3>1. turn' = turn \/ turn' = [turn EXCEPT ![1] = turn[1] + 1]
      BY <2>3 DEF FirstTurn
    <3>2. turn' \in [Thread -> Nat]
      BY <1>2, <3>1 DEF TypeOK, Thread
    <3> QED
      BY <1>2, <2>3, <3>2 DEF FirstTurn, TypeOK
  <2>4. CASE SeeStop \/ DeleteThreads \/ FreeRing \/ FreeArgs \/ Stop \/ UNCHANGED vars
    BY <1>2, <2>4 DEF SeeStop, DeleteThreads, FreeRing, FreeArgs, Stop, vars, TypeOK
  <2>5. CASE Wait
    BY <1>2, <2>5 DEF Wait, TypeOK
  <2>6. ASSUME NEW i \in Thread, ThreadStep(i) \/ Die(i) PROVE TypeOK'
    <3>1. CASE LoopHead(i) \/ Check(i) \/ Die(i)
      BY <1>2, <3>1 DEF LoopHead, Check, Die, Goto, TypeOK
    <3>2. CASE Take(i)
      BY <1>2, <3>2 DEF Take, Goto, TypeOK
    <3>3. CASE Count(i)
      BY <1>2, <3>3 DEF Count, Goto, TypeOK
    <3>4. CASE Pass(i)
      BY <1>2, <3>4, NeighbourType DEF Pass, Goto, TypeOK
    <3>5. CASE Signal(i)
      BY <1>2, <3>5 DEF Signal, Goto, TypeOK
    <3> QED
      BY <2>6, <3>1, <3>2, <3>3, <3>4, <3>5 DEF ThreadStep
  <2> QED
    BY <1>2, <2>1, <2>2, <2>3, <2>4, <2>5, <2>6 DEF Next, MainStep
<1> QED
  BY <1>1, <1>2, PTL DEF Spec

\* A thread that will never touch the ring again, whatever the others do.
Parked(i) == tpc[i] \in {"none", "rest", "gone"} \/ Waiting(i)

\* The turn stays in the ring until the threads are deleted.
TurnKept ==
  /\ pc \in {"setup", "spawn", "run", "wait"} => deleted = {} /\ \A i \in Thread : tpc[i] # "gone"
  /\ pc \in {"run", "wait"} =>
       /\ \A i \in Thread : tpc[i] # "none"
       /\ \E i \in Thread : HasTurn(i)

\* The waits: one more was answered than timed out while there is a thread that
\* has left, and none timed out before.
AnswerInv ==
  /\ timeouts < waits
  /\ timeouts > 0 => timeouts < waits - 1
  /\ \A i \in Thread : tpc[i] = "rest" => timeouts < barrier + waits - 1

\* What is freed, and who is left then.
FreedInv ==
  /\ pc = "setup" => \A i \in Thread : tpc[i] = "none"
  /\ pc = "free" => deleted = Thread
  /\ pc = "returned" => \A i \in Thread : Parked(i)
  /\ ring = "freed" => pc = "returned" /\ \A i \in Thread : tpc[i] \in {"none", "gone"}
  /\ args = "freed" => pc = "returned"

CleanupInv == TypeOK /\ TurnKept /\ AnswerInv /\ FreedInv

LEMMA CleanupInvInit == Init => TurnKept /\ AnswerInv /\ FreedInv
<1> SUFFICES ASSUME Init PROVE TurnKept /\ AnswerInv /\ FreedInv
  OBVIOUS
<1>1. TurnKept
  BY DEF Init, TurnKept, HasTurn
<1>2. AnswerInv
  BY DEF Init, AnswerInv
<1>3. FreedInv
  BY DEF Init, FreedInv
<1> QED
  BY <1>1, <1>2, <1>3

\* A thread's step leaves the main thread's variables alone.
LEMMA TurnKeptThread ==
  ASSUME TypeOK, RingInv, TurnKept, NEW i \in Thread, ThreadStep(i) \/ Die(i)
  PROVE  TurnKept'
<1> USE DEF mainVars, semVars, memVars
<1>1. /\ UNCHANGED <<pc, deleted>>
      /\ tpc' = [tpc EXCEPT ![i] = tpc'[i]]
      /\ tpc'[i] # "none"
      /\ tpc'[i] = "gone" => i \in deleted
  BY DEF ThreadStep, LoopHead, Take, Check, Count, Pass, Signal, Die, Goto, TypeOK
<1>2. (\E j \in Thread : HasTurn(j)) => \E j \in Thread : HasTurn(j)'
  <2>1. CASE LoopHead(i) \/ Check(i) \/ Count(i) \/ Signal(i) \/ Die(i)
    <3>1. UNCHANGED turn /\ (Holds(i) => Holds(i)')
      BY <2>1 DEF LoopHead, Check, Count, Signal, Die, Goto, Holds, TypeOK
    <3> QED
      BY <1>1, <3>1 DEF HasTurn, Holds, TypeOK
  <2>2. CASE Take(i)
    <3>1. HasTurn(i)'
      BY <2>2 DEF Take, Goto, HasTurn, Holds, TypeOK
    <3> QED
      BY <3>1
  <2>3. CASE Pass(i)
    <3> DEFINE n == Neighbour(i)
    <3>1. n \in Thread /\ turn[n] = 0
      BY <2>3, NeighbourType DEF Pass, RingInv, TurnInv, HasTurn, Holds
    <3>2. turn'[n] = 1
      BY <2>3, <3>1 DEF Pass, TypeOK
    <3> QED
      BY <3>1, <3>2 DEF HasTurn
  <2> QED
    BY <2>1, <2>2, <2>3 DEF ThreadStep
<1> QED
  BY <1>1, <1>2 DEF TurnKept, TypeOK

LEMMA AnswerInvThread ==
  ASSUME TypeOK, AnswerInv, NEW i \in Thread, ThreadStep(i) \/ Die(i)
  PROVE  AnswerInv'
<1> USE DEF mainVars, semVars, memVars
<1>1. CASE Signal(i)
  BY <1>1 DEF Signal, AnswerInv, TypeOK
<1>2. CASE ~Signal(i)
  <2>1. /\ UNCHANGED <<waits, timeouts, barrier>>
        /\ tpc' = [tpc EXCEPT ![i] = tpc'[i]] /\ tpc'[i] # "rest"
    BY <1>2 DEF ThreadStep, LoopHead, Take, Check, Count, Pass, Signal, Die, Goto, TypeOK
  <2> QED
    BY <2>1 DEF AnswerInv, TypeOK
<1> QED
  BY <1>1, <1>2

\* Whoever steps is not parked, unless it is deleted.
LEMMA FreedInvThread ==
  ASSUME TypeOK, FreedInv, NEW i \in Thread, ThreadStep(i) \/ Die(i)
  PROVE  FreedInv'
<1> USE DEF mainVars, semVars, memVars
<1>1. /\ UNCHANGED <<pc, deleted, ring, args>> /\ tpc' = [tpc EXCEPT ![i] = tpc'[i]]
      /\ tpc[i] # "none"
  BY DEF ThreadStep, LoopHead, Take, Check, Count, Pass, Signal, Die, Goto, TypeOK
<1>2. CASE Die(i)
  <2>1. UNCHANGED turn /\ tpc'[i] = "gone"
    BY <1>2 DEF Die, Goto, TypeOK
  <2> QED
    BY <1>1, <2>1 DEF FreedInv, Parked, Waiting, TypeOK
<1>3. CASE ThreadStep(i)
  <2>1. ~Parked(i)
    BY <1>3 DEF ThreadStep, LoopHead, Take, Check, Count, Pass, Signal, Parked, Waiting, TypeOK
  <2>2. pc # "returned"
    BY <2>1 DEF FreedInv
  <2> QED
    BY <1>1, <2>2 DEF FreedInv
<1> QED
  BY <1>2, <1>3

LEMMA CleanupInvMain ==
  ASSUME CleanupInv, RingInv, MainStep \/ Stop \/ UNCHANGED vars
  PROVE  TurnKept' /\ AnswerInv' /\ FreedInv'
<1> USE DEF mainVars, semVars, memVars, CleanupInv
<1>1. CASE Setup
  BY <1>1 DEF Setup, TurnKept, AnswerInv, FreedInv, Parked, Waiting
<1>2. CASE Spawn
  <2>1. /\ pc = "spawn" /\ UNCHANGED <<pc, waits, timeouts, barrier, deleted, ring, args>>
        /\ spawns \in Thread /\ (tpc' = tpc \/ tpc' = [tpc EXCEPT ![spawns] = "head"])
    BY <1>2, ContextAssumption DEF Spawn, Goto, TypeOK, Thread
  <2> QED
    BY <2>1 DEF TurnKept, AnswerInv, FreedInv, TypeOK
<1>3. CASE FirstTurn
  <2>1. /\ pc = "spawn" /\ pc' \in {"run", "leave"}
        /\ UNCHANGED <<waits, timeouts, barrier, deleted, tpc, ring, args>>
    BY <1>3 DEF FirstTurn
  <2>2. AnswerInv' /\ FreedInv'
    BY <2>1 DEF AnswerInv, FreedInv
  <2>3. CASE pc' = "run"
    <3>1. Created = Thread /\ turn' = [turn EXCEPT ![1] = @ + 1]
      BY <1>3, <2>3 DEF FirstTurn
    <3>2. 1 \in Thread /\ turn[1] = 0
      BY <2>1, ContextAssumption DEF RingInv, TurnInv, HasTurn, Thread
    <3>3. turn'[1] = 1
      BY <3>1, <3>2 DEF TypeOK
    <3>4. HasTurn(1)'
      BY <3>3 DEF HasTurn
    <3>5. \A i \in Thread : tpc[i] # "none"
      BY <3>1 DEF Created
    <3> QED
      BY <2>1, <2>2, <2>3, <3>2, <3>4, <3>5 DEF TurnKept
  <2> QED
    BY <2>1, <2>2, <2>3 DEF TurnKept
<1>4. CASE SeeStop \/ DeleteThreads \/ FreeArgs \/ Stop \/ UNCHANGED vars
  <2>1. /\ UNCHANGED <<waits, timeouts, barrier, tpc, turn, ring>>
        /\ pc' # pc => \/ pc = "run" /\ pc' = "wait" /\ UNCHANGED deleted
                       \/ pc' = "free" /\ pc = "wait" /\ deleted' = Thread
        /\ pc' = pc => UNCHANGED deleted
        /\ args' = "freed" => args = "freed" \/ (pc = "returned" /\ pc' = pc)
    BY <1>4 DEF SeeStop, DeleteThreads, FreeArgs, Stop, vars
  <2>2. AnswerInv' /\ TurnKept'
    BY <2>1 DEF AnswerInv, TurnKept, HasTurn, Holds
  <2>3. FreedInv'
    BY <2>1 DEF FreedInv, Parked, Waiting
  <2> QED
    BY <2>2, <2>3
<1>5. CASE Wait
  <2>1. /\ pc = "wait" /\ waits' = waits + 1
        /\ UNCHANGED <<pc, turn, tpc, deleted, ring, args>>
    BY <1>5 DEF Wait
  <2>2. TurnKept' /\ FreedInv'
    BY <2>1 DEF TurnKept, FreedInv, HasTurn, Holds
  <2>3. CASE barrier > 0
    <3>1. barrier' = barrier - 1 /\ UNCHANGED timeouts
      BY <1>5, <2>3 DEF Wait
    <3>2. barrier' + waits' = barrier + waits
      BY <2>1, <3>1 DEF TypeOK
    <3>3. AnswerInv'
      BY <2>1, <3>1, <3>2 DEF AnswerInv, TypeOK
    <3> QED
      BY <2>2, <3>3
  <2>4. CASE ~(barrier > 0)
    <3>1. /\ barrier = 0 /\ Quiet /\ timeouts' = timeouts + 1 /\ UNCHANGED barrier
      BY <1>5, <2>4 DEF Wait, TypeOK
    <3>2. PICK i \in Thread : HasTurn(i)
      BY <2>1 DEF TurnKept
    <3>3. tpc[i] = "rest"
      BY <2>1, <3>1, <3>2 DEF TurnKept, Quiet, Waiting, HasTurn, Holds
    <3>4. timeouts < waits - 1
      BY <3>1, <3>3 DEF AnswerInv, TypeOK
    <3> QED
      BY <2>1, <2>2, <3>1, <3>4 DEF AnswerInv, TypeOK
  <2> QED
    BY <2>2, <2>3, <2>4
<1>6. CASE FreeRing
  <2>1. /\ pc \in {"free", "leave"} /\ Quiet /\ pc' = "returned"
        /\ ring' = IF pc = "free" THEN "freed" ELSE ring
        /\ UNCHANGED <<waits, timeouts, barrier, turn, tpc, deleted, args>>
    BY <1>6 DEF FreeRing
  <2>2. \A i \in Thread : Parked(i)'
    BY <2>1 DEF Quiet, Parked, Waiting
  <2>3. pc = "free" => \A i \in Thread : tpc'[i] \in {"none", "gone"}
    BY <2>1 DEF Quiet, FreedInv
  <2>4. TurnKept'
    BY <2>1 DEF TurnKept
  <2>5. AnswerInv'
    BY <2>1 DEF AnswerInv
  <2>6. FreedInv'
    <3>1. ring' = "freed" => pc = "free"
      BY <2>1 DEF FreedInv
    <3> QED
      BY <2>1, <2>2, <2>3, <3>1 DEF FreedInv
  <2> QED
    BY <2>4, <2>5, <2>6
<1> QED
  BY <1>1, <1>2, <1>3, <1>4, <1>5, <1>6 DEF MainStep

LEMMA CleanupInvAlways == Spec => []CleanupInv
<1>1. RingInv /\ CleanupInv /\ TypeOK' /\ [Next]_vars => CleanupInv'
  BY TurnKeptThread, AnswerInvThread, FreedInvThread, CleanupInvMain DEF Next, CleanupInv
<1>2. Init /\ TypeOK => CleanupInv
  BY CleanupInvInit DEF CleanupInv
<1> QED
  BY RingTypes, RingInvAlways, <1>1, <1>2, PTL DEF Spec

\* Whatever threads are left, they do not use what is freed (stress-context.c:175-183,
\* stress-ng.c:384-393): deleted ones have ended, others wait for ever.
THEOREM RingFreedAfterUse == Spec => []NoUseAfterFree
<1>1. CleanupInv => NoUseAfterFree
  BY DEF CleanupInv, FreedInv, NoUseAfterFree, Parked, Waiting
<1> QED
  BY CleanupInvAlways, <1>1, PTL

\* Somebody answers before a wait times out: whoever had the turn when it saw the
\* stop (stress-context.c:52-68 against 155-163), in a ring of any size.
THEOREM SomebodyAnswers == Spec => [](timeouts < ContextThreads)
<1>1. CleanupInv => timeouts < ContextThreads
  BY ContextAssumption DEF CleanupInv, AnswerInv, TypeOK
<1> QED
  BY CleanupInvAlways, <1>1, PTL

\* Therefore a ring of up to three threads comes back within the margin.
THEOREM RingWithinMargin == ASSUME ContextThreads <= 3 PROVE Spec => []CleanupWithinMargin
<1>1. CleanupInv => CleanupWithinMargin
  BY ContextAssumption DEF CleanupInv, AnswerInv, TypeOK, CleanupWithinMargin
<1> QED
  BY CleanupInvAlways, <1>1, PTL
=============================================================================
