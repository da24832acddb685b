----------------------------- MODULE RealtimeTests -----------------------------
(***************************************************************************)
(* The tests of test-realtime that hand a semaphore, a message or a mutex  *)
(* from one thread to another on one processor                             *)
(* (generator/realtime_orig/realtime/test4_2.c to test9_3.c), in the order *)
(* of realtime_init (generator/realtime_orig/les/bench_init.c).            *)
(*                                                                         *)
(* All threads of a test are bound to CPU 0 and scheduled SCHED_FIFO at    *)
(* different priorities: what a timed call costs is the cost the document  *)
(* names (docs/REALTIME.md) only if the other threads are where the test   *)
(* expects them when the call is made.  A thread is a program, a sequence  *)
(* of calls, and only the highest thread that can run takes steps.         *)
(*                                                                         *)
(* Not followed: a helper that a test leaves behind when it could not      *)
(* create the next one (its objects are no other test's), and the clock.   *)
(***************************************************************************)
EXTENDS RealtimeOptions, Sequences

VARIABLES
  index,        \* of the test that runs, in Tests
  blocks,       \* whether a full queue blocks on this system
  found,        \* what test6_0 says of it (message_queue_filled_behavior = 0)
  status,       \* of each thread: none, asleep, ready, waiting, woken or ended
  pc,           \* the call it is at
  sleepers,     \* the threads in safe_usleep, in the order they fell asleep
  count,        \* of each semaphore
  holder,       \* of the mutex: a thread or free
  messages,     \* in the queue
  failed        \* a thread of this test could not be created

objectVars == <<count, holder, messages>>
testVars == <<index, blocks, found, failed>>
vars == <<testVars, status, pc, sleepers, objectVars>>

Threads == {"high", "middle", "low"}
Semaphores == {"sem", "to_locker", "to_unlocker", "to_assist", "to_highest", "test_object"}

Tests == <<"4_2", "5_3", "6_3", "6_4", "6_0", "6_2", "7_3", "8_2", "9_3">>
MaxMsg == 1                    \* mq_maxmsg

Threaded(i) == i \in DOMAIN Tests /\ Tests[i] # "6_0"    \* followed call by call
Running == Threaded(index)
Test == IF index \in DOMAIN Tests THEN Tests[index] ELSE "none"

\* BENCHMARK_HIGH_PRIO, BENCHMARK_MIDDLE_PRIO, BENCHMARK_LOW_PRIO.
Above(t) ==
  {u \in Threads : \/ u = "high" /\ t # "high"
                   \/ u = "middle" /\ t = "low"}

-----------------------------------------------------------------------------
(* The programs.  A timed call carries what it is the measurement of. *)

Call(f, arg) == [does |-> f, on |-> arg, timed |-> "no"]
Timed(call, claim) == [call EXCEPT !.timed = claim]

Times(n, body) == [i \in 1..(n * Len(body)) |-> body[((i - 1) % Len(body)) + 1]]

Bind == <<Call("sleep", "cpu 0")>>           \* BIND_THREAD_TO_CPU ends in a sleep
Post(s) == Call("post", s)
Wait(s) == Call("wait", s)
Send == Call("send", "mq")
Receive == Call("receive", "mq")
Lock == Call("lock", "lock")
Unlock == Call("unlock", "lock")

\* 4_2, 6_2, 6_4 and 8_2: the high thread is timed in the first half of the
\* turns, where it is to be suspended in the call; the low one in the second,
\* where it is to be preempted by the thread its call resumes.
Suspending == {"4_2", "6_2", "6_4", "8_2"}

\* The call under test of the high and of the low thread, and what follows it.
HighCall == IF Test = "4_2" THEN Wait("sem") ELSE IF Test = "6_2" THEN Send
            ELSE IF Test = "6_4" THEN Receive ELSE Lock
LowCall == IF Test = "4_2" THEN Post("sem") ELSE IF Test = "6_2" THEN Receive
           ELSE IF Test = "6_4" THEN Send ELSE Unlock

HighRest == IF Test = "8_2" THEN <<Unlock, Post("to_unlocker"), Wait("to_locker")>> ELSE <<>>
LowRest == IF Test = "8_2" THEN <<Wait("to_unlocker"), Lock, Post("to_locker")>> ELSE <<>>

SuspendedProgram ==
  LET start == IF Test = "8_2" THEN <<Wait("to_locker")>> ELSE <<HighCall>>
      turn == <<HighCall>> \o HighRest
  IN Bind \o <<Call("create", "low")>> \o start
       \o Times(Iterations, <<Timed(HighCall, "suspends")>> \o HighRest)
       \o turn \o Times(Iterations, turn) \o <<Call("join", "low")>>


ResumingProgram ==
  LET start == IF Test = "8_2" THEN <<Lock, Post("to_locker")>> ELSE <<LowCall>>
      turn == <<LowCall>> \o LowRest
  IN Bind \o start \o Times(Iterations, turn) \o turn
       \o Times(Iterations, <<Timed(LowCall, "resumes higher")>> \o LowRest)
       \o IF Test = "8_2" THEN <<Unlock>> ELSE <<>>

\* 5_3, 6_3, 7_3 and 9_3: the timed call of the high thread is to make the
\* middle one ready and to keep the processor.  Before it, the high thread
\* gives way until the low thread runs, that is, until the middle one waits.
ReadyingCall == IF Test = "5_3" THEN Post("test_object") ELSE IF Test = "6_3" THEN Send
                ELSE IF Test = "7_3" THEN Receive ELSE Unlock

\* Mutant: the helpers are not waited for.
BugReadyingProgram ==
  Bind \o <<Call("create", "middle"), Call("create", "low")>>
    \o Times(Iterations,
         (IF Test = "9_3" THEN <<Lock>> ELSE <<>>)
           \o <<Post("to_assist"), Wait("to_highest"), Timed(ReadyingCall, "readies lower")>>)

ReadyingProgram ==
  Bind \o <<Call("create", "middle"), Call("create", "low")>>
    \o Times(Iterations,
         (IF Test = "9_3" THEN <<Lock>> ELSE <<>>)
           \o <<Post("to_assist"), Wait("to_highest"), Timed(ReadyingCall, "readies lower")>>)
    \o <<Call("join", "middle"), Call("join", "low")>>

MiddleProgram ==
  Bind \o Times(Iterations,
    IF Test = "5_3" THEN <<Wait("test_object")>> ELSE IF Test = "6_3" THEN <<Receive>>
    ELSE IF Test = "7_3" THEN <<Send>> ELSE <<Lock, Unlock>>)

AssistProgram == Bind \o Times(Iterations, <<Wait("to_assist"), Post("to_highest")>>)

\* Ends with the return of the thread's function.
Program(t) ==
  (IF t = "high" THEN IF Test \in Suspending THEN SuspendedProgram ELSE ReadyingProgram
   ELSE IF t = "middle" THEN MiddleProgram
   ELSE IF Test \in Suspending THEN ResumingProgram ELSE AssistProgram)
    \o <<Call("return", t)>>

Now(t) == Program(t)[pc[t]]

-----------------------------------------------------------------------------
(* The calls *)

\* Mutant: the queue is not filled before the threads start.
BugPrefill(test) == 0

\* The messages a test puts in the queue before it starts its threads.
Prefill(test) == IF test \in {"6_2", "7_3"} THEN 1 ELSE 0

Active(t) == status[t] \in {"ready", "woken"}

\* SCHED_FIFO on one processor.
Runs(t) == Running /\ Active(t) /\ \A u \in Above(t) : ~Active(u)

\* Whether a call returns at once.
Returns(t) ==
  LET call == Now(t)
  IN /\ call.does = "wait" => count[call.on] > 0
     /\ call.does = "lock" => holder \in {"free", t}
     /\ call.does = "receive" => messages > 0
     /\ call.does = "send" => messages < MaxMsg \/ ~blocks
     /\ call.does = "join" => status[call.on] \in {"none", "ended"}

\* The threads suspended in a call on an object.
Suspended(f, arg) ==
  {t \in Threads : status[t] = "waiting" /\ Now(t).does = f /\ Now(t).on = arg}

\* The thread t takes its next call; those in S are made ready by it, no more
\* than one in these programs, and try again when they run.
Goes(t, S) ==
  /\ pc' = [pc EXCEPT ![t] = @ + 1]
  /\ status' = [u \in Threads |->
       IF u \in S THEN "woken" ELSE IF u = t THEN "ready" ELSE status[u]]
  /\ UNCHANGED <<testVars, sleepers>>

Suspend(t) ==
  /\ Runs(t) /\ ~Returns(t)
  /\ status' = [status EXCEPT ![t] = "waiting"]
  /\ UNCHANGED <<testVars, pc, sleepers, objectVars>>

At(t, f) == Runs(t) /\ Returns(t) /\ Now(t).does = f

Posts(t) ==
  /\ At(t, "post")
  /\ count' = [count EXCEPT ![Now(t).on] = @ + 1]
  /\ Goes(t, Suspended("wait", Now(t).on))
  /\ UNCHANGED <<holder, messages>>

Waits(t) ==
  /\ At(t, "wait")
  /\ count' = [count EXCEPT ![Now(t).on] = @ - 1]
  /\ Goes(t, {})
  /\ UNCHANGED <<holder, messages>>

\* Mutant: a sender does not see that the queue is full.
BugSends(t) ==
  /\ At(t, "send")
  /\ messages' = messages + 1
  /\ Goes(t, Suspended("receive", "mq"))
  /\ UNCHANGED <<count, holder>>

\* A queue that does not block refuses a message when it is full, and the
\* tests do not look at the result.
Sends(t) ==
  /\ At(t, "send")
  /\ messages' = IF messages < MaxMsg THEN messages + 1 ELSE messages
  /\ Goes(t, Suspended("receive", "mq"))
  /\ UNCHANGED <<count, holder>>

Receives(t) ==
  /\ At(t, "receive")
  /\ messages' = messages - 1
  /\ Goes(t, Suspended("send", "mq"))
  /\ UNCHANGED <<count, holder>>

Locks(t) ==
  /\ At(t, "lock")
  /\ holder' = t
  /\ Goes(t, {})
  /\ UNCHANGED <<count, messages>>

\* A mutex that is given up is free for whoever asks first, or belongs to the
\* waiting thread at once: systems differ.
Unlocks(t) ==
  /\ At(t, "unlock")
  /\ holder' \in {"free"} \cup Suspended("lock", "lock")
  /\ Goes(t, Suspended("lock", "lock"))
  /\ UNCHANGED <<count, messages>>

Joins(t) == At(t, "join") /\ Goes(t, {}) /\ UNCHANGED objectVars

FallsAsleep(t) ==
  /\ At(t, "sleep")
  /\ pc' = [pc EXCEPT ![t] = @ + 1]
  /\ status' = [status EXCEPT ![t] = "asleep"]
  /\ sleepers' = Append(sleepers, t)
  /\ UNCHANGED <<testVars, objectVars>>

\* All sleep for the same 10 us on the same processor: first in, first out.
WakesUp ==
  /\ Running /\ sleepers # <<>>
  /\ status' = [status EXCEPT ![Head(sleepers)] = "ready"]
  /\ sleepers' = Tail(sleepers)
  /\ UNCHANGED <<testVars, pc, objectVars>>

\* A thread that cannot create its helper returns.
Creates(t) ==
  /\ At(t, "create")
  /\ \/ /\ status' = [status EXCEPT ![Now(t).on] = "ready"]
        /\ pc' = [pc EXCEPT ![t] = @ + 1]
        /\ UNCHANGED failed
     \/ /\ pc' = [pc EXCEPT ![t] = Len(Program(t))]
        /\ failed' = TRUE
        /\ UNCHANGED status
  /\ UNCHANGED <<index, blocks, found, sleepers, objectVars>>

Ends(t) ==
  /\ At(t, "return")
  /\ status' = [u \in Threads |->
       IF u = t THEN "ended" ELSE IF u \in Suspended("join", t) THEN "woken" ELSE status[u]]
  /\ UNCHANGED <<testVars, pc, sleepers, objectVars>>

-----------------------------------------------------------------------------
(* realtime_init and the function that starts each test *)

\* The objects of test i are made and its high thread is created, or not.
Starts(i) ==
  /\ index' = i /\ pc' = [t \in Threads |-> 1] /\ sleepers' = <<>>
  /\ count' = [s \in Semaphores |-> 0] /\ holder' = "free"
  /\ messages' = IF i \in DOMAIN Tests THEN Prefill(Tests[i]) ELSE 0
  /\ \E ok \in {Threaded(i), FALSE} :
       /\ failed' = (Threaded(i) /\ ~ok)
       /\ status' = [t \in Threads |-> IF t = "high" /\ ok THEN "ready" ELSE "none"]

\* Mutant: realtime_init does not look at what test6_0 says.
BugFollowing(says) == index + 1

\* The tests that need a queue that blocks, 6_2 and 7_3, are passed over where
\* test6_0 says it does not.
Following(says) == IF Test = "6_0" /\ ~says THEN index + 3 ELSE index + 1

\* The high thread has been joined and the objects are destroyed.
Finish ==
  /\ Running /\ status["high"] \in {"none", "ended"}
  /\ Starts(Following(found))
  /\ UNCHANGED <<blocks, found>>

\* test6_0 sends to a full queue while a lower thread is about to receive.
\* can_stall is zero until the send has failed: it stays zero when the
\* receiver cannot be created; the sender missing, the test itself fails.
Probe ==
  /\ Test = "6_0"
  /\ \/ found' = blocks
     \/ found' = TRUE
     \/ found' = FALSE
  /\ Starts(Following(found'))
  /\ UNCHANGED blocks

Init ==
  /\ index = 0 /\ blocks \in MqBlocks /\ found = FALSE /\ failed = FALSE
  /\ status = [t \in Threads |-> "none"] /\ pc = [t \in Threads |-> 1] /\ sleepers = <<>>
  /\ count = [s \in Semaphores |-> 0] /\ holder = "free" /\ messages = 0

Begin == index = 0 /\ Starts(1) /\ UNCHANGED <<blocks, found>>

Step(t) ==
  \/ Suspend(t) \/ Posts(t) \/ Waits(t) \/ Sends(t) \/ Receives(t) \/ Locks(t)
  \/ Unlocks(t) \/ Joins(t) \/ FallsAsleep(t) \/ Creates(t) \/ Ends(t)

Next == Begin \/ Finish \/ Probe \/ WakesUp \/ \E t \in Threads : Step(t)

\* The processor is not idle while a thread can run, a sleep ends, and the
\* caller, who only starts and joins the tests, goes on.
Spec == Init /\ [][Next]_vars /\ WF_vars(Next)

-----------------------------------------------------------------------------
TypeOK ==
  /\ index \in 0..(Len(Tests) + 1) /\ {blocks, found, failed} \subseteq BOOLEAN
  /\ status \in [Threads -> {"none", "asleep", "ready", "waiting", "woken", "ended"}]
  /\ \A t \in Threads : Running /\ status[t] # "none" => pc[t] \in DOMAIN Program(t)
  /\ sleepers \in Seq(Threads) /\ Len(sleepers) <= 3
  /\ count \in [Semaphores -> 0..1] /\ holder \in Threads \cup {"free"}
  /\ messages \in 0..MaxMsg

\* test6_0 could not test the queue and says that it blocks (test6_0.c:51).
Misjudged == found /\ ~blocks

\* The thread t returns from a call it times as the given case.
Measures(t, claim) == Running /\ pc'[t] # pc[t] /\ Now(t).timed = claim

\* A timed call costs what docs/REALTIME.md says it measures: a call timed as
\* a suspension has been suspended, one timed as a resumption has put a
\* suspended higher thread ahead of its caller, and one timed as a readying has
\* made a suspended lower thread ready and been preempted by nobody; in every
\* turn, the first and the last included, whoever gets a mutex given up.  (Not
\* on a queue that test6_0 has misjudged.)
MeasuredAsDocumented ==
  [][~Misjudged => \A t \in Threads :
       LET resumed == {u \in Threads : status[u] = "waiting" /\ status'[u] = "woken"}
       IN /\ Measures(t, "suspends") => status[t] = "woken"
          /\ Measures(t, "resumes higher") => resumed \cap Above(t) # {}
          /\ Measures(t, "readies lower") =>
               resumed # {} /\ \A u \in resumed : t \in Above(u)]_vars

\* No test puts a message in a full queue that does not block: 6_3 and 6_4 do
\* without, 6_2 and 7_3 are passed over (bench_init.c:94-107).  The exception
\* is a queue that test6_0 has misjudged.
NoMessageIsLost ==
  [][~Misjudged => \A t \in Threads : Sends(t) => messages < MaxMsg]_vars

\* When a test destroys its objects, the threads it could create have ended.
ObjectsOutliveThreads ==
  [][Finish /\ ~failed => \A t \in Threads : status[t] \in {"none", "ended"}]_vars

\* The known hang: on a queue that test6_0 has misjudged the threads of 6_2 or 7_3
\* all wait for one another, and for nothing else.
Hangs ==
  /\ Misjudged /\ Test \in {"6_2", "7_3"}
  /\ status["high"] = "waiting" /\ sleepers = <<>> /\ \A t \in Threads : ~Active(t)

\* The tests come to their end, whichever threads cannot be created, but for
\* that hang.
TestsReturn == <>(index > Len(Tests) \/ Hangs)
=============================================================================
