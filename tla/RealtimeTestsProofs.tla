-------------------------- MODULE RealtimeTestsProofs --------------------------
(***************************************************************************)
(* Proofs about RealtimeTests, for any number of turns and any behaviour   *)
(* of a full queue: what the calls of test-realtime time is what           *)
(* docs/REALTIME.md says (MeasuredAsTheyShould), no message is lost        *)
(* (MessagesKept), the objects of a test outlive its threads               *)
(* (OutliveThreads), no wakeup is lost and nobody waits for ever           *)
(* (NoWakeupIsLost, NobodyWaitsForEver), and the types (TypeCorrectness).  *)
(*                                                                         *)
(* The argument.  A program is a sequence of some 4 * Iterations calls;    *)
(* its length and each of its calls are worked out once, by place.  From   *)
(* the places where the threads of a test are and from the objects         *)
(* between them one can tell who is in whose turn: there is one invariant  *)
(* of this kind for each shape of test (HandedInv for a semaphore or a     *)
(* queue handed over, LockInv for the mutex of 8_2, AssistInv for the      *)
(* tests with an assisting thread), and they share what holds of any test  *)
(* (GeneralInv).  A call that is timed as a suspension, say, is at a place *)
(* where the invariant knows that its object is not to be had.             *)
(*                                                                         *)
(* The sections: the programs, call by call; what a call is in each        *)
(* place, and what is common to all of them; what holds in every test; the *)
(* steps; then the tests of each shape, their objects, and the theorems;   *)
(* at the end, why nobody waits for ever.                                  *)
(***************************************************************************)
EXTENDS RealtimeTests, SequenceTheorems, TLAPS

-----------------------------------------------------------------------------
(* The programs: lists of calls, how long they are and what is where. *)

Handing == {"4_2", "6_2", "6_4"}    \* the suspending tests with one object
Readying == {"5_3", "6_3", "7_3", "9_3"}

\* The call of the middle thread in 5_3, 6_3 and 7_3.
MiddleCall ==
  IF Test = "5_3" THEN Wait("test_object") ELSE IF Test = "6_3" THEN Receive ELSE Send

\* What a thread can call: a kind of call, on the objects of that kind.
Claims == {"no", "suspends", "resumes higher", "readies lower"}
CallsOf(D, O) == [does : D, on : O, timed : Claims]
Calls ==
       CallsOf({"post", "wait"}, Semaphores)
  \cup CallsOf({"create", "join", "return"}, Threads)
  \cup CallsOf({"send", "receive"}, {"mq"})
  \cup CallsOf({"lock", "unlock"}, {"lock"})
  \cup CallsOf({"sleep"}, {"cpu 0"})

\* Programs, their length and how they are put together; the names keep the
\* provers from expanding sequences.
Sized(s, n) == s \in Seq(Calls) /\ Len(s) = n
One(a) == <<a>>
Nth(s, i) == s[i]
Then(s, t) == s \o t

LEMMA OneCall ==
  ASSUME NEW a \in Calls
  PROVE  Sized(One(a), 1) /\ Nth(One(a), 1) = a
<1>1. One(a) \in Seq(Calls)
  BY DEF One, Nth
<1>2. Len(One(a)) = 1
  BY DEF One, Nth
<1>3. Nth(One(a), 1) = a
  BY DEF One, Nth
<1> QED
  BY <1>1, <1>2, <1>3 DEF Sized

LEMMA ThenCalls ==
  ASSUME NEW s, NEW t, NEW n \in Nat, NEW m \in Nat, Sized(s, n), Sized(t, m)
  PROVE  /\ Sized(Then(s, t), n + m)
         /\ \A i \in 1..n : Nth(Then(s, t), i) = Nth(s, i)
         /\ \A i \in 1..m : Nth(Then(s, t), n + i) = Nth(t, i)
         /\ \A i \in (n + 1)..(n + m) : Nth(Then(s, t), i) = Nth(t, i - n)
<1>1. Then(s, t) \in Seq(Calls)
  BY DEF Sized, Then, Nth
<1>3. Len(Then(s, t)) = n + m
  BY DEF Sized, Then, Nth
<1>4. \A i \in 1..n : Nth(Then(s, t), i) = Nth(s, i)
  BY DEF Sized, Then, Nth
<1>5. \A i \in 1..m : Nth(Then(s, t), n + i) = Nth(t, i)
  BY DEF Sized, Then, Nth
<1>6. \A i \in (n + 1)..(n + m) : Nth(Then(s, t), i) = Nth(t, i - n)
  BY DEF Sized, Then, Nth
<1> QED
  BY <1>1, <1>3, <1>4, <1>5, <1>6 DEF Sized

LEMMA ThenCall ==
  ASSUME NEW s, NEW n \in Nat, NEW a, Sized(s, n), a \in Calls
  PROVE  /\ Sized(Then(s, One(a)), n + 1)
         /\ \A i \in 1..n : Nth(Then(s, One(a)), i) = Nth(s, i)
         /\ Nth(Then(s, One(a)), n + 1) = a
<1>1. Sized(One(a), 1) /\ Nth(One(a), 1) = a
  BY OneCall
<1>2. /\ Sized(Then(s, One(a)), n + 1)
      /\ \A i \in 1..n : Nth(Then(s, One(a)), i) = Nth(s, i)
      /\ \A i \in 1..1 : Nth(Then(s, One(a)), n + i) = Nth(One(a), i)
  BY <1>1, ThenCalls
<1> QED
  BY <1>1, <1>2

LEMMA TwoCalls ==
  ASSUME NEW a \in Calls, NEW b \in Calls
  PROVE  /\ Sized(Then(One(a), One(b)), 2)
         /\ Nth(Then(One(a), One(b)), 1) = a /\ Nth(Then(One(a), One(b)), 2) = b
<1>1. Sized(One(a), 1) /\ Nth(One(a), 1) = a
  BY OneCall
<1>2. /\ Sized(Then(One(a), One(b)), 1 + 1)
      /\ \A i \in 1..1 : Nth(Then(One(a), One(b)), i) = Nth(One(a), i)
      /\ Nth(Then(One(a), One(b)), 1 + 1) = b
  BY <1>1, ThenCall
<1> QED
  BY <1>1, <1>2

\* A call, two, three or four of them again and again.
Again1(n, a) == Times(n, <<a>>)
Again2(n, a, b) == Times(n, <<a, b>>)
Again3(n, a, b, c) == Times(n, <<a, b, c>>)
Again4(n, a, b, c, d) == Times(n, <<a, b, c, d>>)

LEMMA Repeated1 ==
  ASSUME NEW n \in Nat, NEW a \in Calls
  PROVE  /\ Sized(Again1(n, a), n)
         /\ \A i \in 1..n : Nth(Again1(n, a), i) = a
<1>1. Again1(n, a) \in Seq(Calls)
  BY DEF Again1, Times, Nth
<1>2. Len(Again1(n, a)) = n
  BY DEF Again1, Times, Nth
<1>3. \A i \in 1..n : Nth(Again1(n, a), i) = a
  BY DEF Again1, Times, Nth
<1> QED
  BY <1>1, <1>2, <1>3 DEF Sized

LEMMA Repeated2 ==
  ASSUME NEW n \in Nat, NEW a \in Calls, NEW b \in Calls
  PROVE  /\ Sized(Again2(n, a, b), 2 * n)
         /\ \A k \in 0..(n - 1) : Nth(Again2(n, a, b), 2 * k + 1) = a
         /\ \A k \in 0..(n - 1) : Nth(Again2(n, a, b), 2 * k + 2) = b
<1>1. Again2(n, a, b) \in Seq(Calls)
  BY DEF Again2, Times, Nth
<1>2. Len(Again2(n, a, b)) = 2 * n
  BY DEF Again2, Times, Nth
<1>3. \A k \in 0..(n - 1) : Nth(Again2(n, a, b), 2 * k + 1) = a
  BY DEF Again2, Times, Nth
<1>4. \A k \in 0..(n - 1) : Nth(Again2(n, a, b), 2 * k + 2) = b
  BY DEF Again2, Times, Nth
<1> QED
  BY <1>1, <1>2, <1>3, <1>4 DEF Sized

LEMMA Repeated3 ==
  ASSUME NEW n \in Nat, NEW a \in Calls, NEW b \in Calls, NEW c \in Calls
  PROVE  /\ Sized(Again3(n, a, b, c), 3 * n)
         /\ \A k \in 0..(n - 1) : Nth(Again3(n, a, b, c), 3 * k + 1) = a
         /\ \A k \in 0..(n - 1) : Nth(Again3(n, a, b, c), 3 * k + 2) = b
         /\ \A k \in 0..(n - 1) : Nth(Again3(n, a, b, c), 3 * k + 3) = c
<1>1. Again3(n, a, b, c) \in Seq(Calls)
  BY DEF Again3, Times, Nth
<1>2. Len(Again3(n, a, b, c)) = 3 * n
  BY DEF Again3, Times, Nth
<1>3. \A k \in 0..(n - 1) : Nth(Again3(n, a, b, c), 3 * k + 1) = a
  BY DEF Again3, Times, Nth
<1>4. \A k \in 0..(n - 1) : Nth(Again3(n, a, b, c), 3 * k + 2) = b
  BY DEF Again3, Times, Nth
<1>5. \A k \in 0..(n - 1) : Nth(Again3(n, a, b, c), 3 * k + 3) = c
  BY DEF Again3, Times, Nth
<1> QED
  BY <1>1, <1>2, <1>3, <1>4, <1>5 DEF Sized

LEMMA Repeated4 ==
  ASSUME NEW n \in Nat, NEW a \in Calls, NEW b \in Calls, NEW c \in Calls, NEW d \in Calls
  PROVE  /\ Sized(Again4(n, a, b, c, d), 4 * n)
         /\ \A k \in 0..(n - 1) : Nth(Again4(n, a, b, c, d), 4 * k + 1) = a
         /\ \A k \in 0..(n - 1) : Nth(Again4(n, a, b, c, d), 4 * k + 2) = b
         /\ \A k \in 0..(n - 1) : Nth(Again4(n, a, b, c, d), 4 * k + 3) = c
         /\ \A k \in 0..(n - 1) : Nth(Again4(n, a, b, c, d), 4 * k + 4) = d
<1>1. Again4(n, a, b, c, d) \in Seq(Calls)
  BY DEF Again4, Times, Nth
<1>2. Len(Again4(n, a, b, c, d)) = 4 * n
  BY DEF Again4, Times, Nth
<1>3. \A k \in 0..(n - 1) : Nth(Again4(n, a, b, c, d), 4 * k + 1) = a
  BY DEF Again4, Times, Nth
<1>4. \A k \in 0..(n - 1) : Nth(Again4(n, a, b, c, d), 4 * k + 2) = b
  BY DEF Again4, Times, Nth
<1>5. \A k \in 0..(n - 1) : Nth(Again4(n, a, b, c, d), 4 * k + 3) = c
  BY DEF Again4, Times, Nth
<1>6. \A k \in 0..(n - 1) : Nth(Again4(n, a, b, c, d), 4 * k + 4) = d
  BY DEF Again4, Times, Nth
<1> QED
  BY <1>1, <1>2, <1>3, <1>4, <1>5, <1>6 DEF Sized

\* Each of them after a program.
LEMMA ThenAgain1 ==
  ASSUME NEW a, NEW s, NEW n \in Nat,
         Sized(s, n), {a} \subseteq Calls
  PROVE  /\ Sized(Then(s, Again1(Iterations, a)), n + Iterations)
         /\ \A i \in 1..n : Nth(Then(s, Again1(Iterations, a)), i) = Nth(s, i)
         /\ \A k \in 0..(Iterations - 1) :
              /\ Nth(Then(s, Again1(Iterations, a)), n + k + 1) = a
<1>0. Iterations \in Nat
  BY RealtimeAssumption
<1> USE <1>0
<1> DEFINE t == Again1(Iterations, a)
<1>1. Sized(t, Iterations)
  BY Repeated1
<1>2. ASSUME NEW k \in 0..(Iterations - 1)
      PROVE  Nth(t, k + 1) = a
  <2>1. k + 1 \in 1..Iterations
    OBVIOUS
  <2> QED
    BY <2>1, Repeated1
<1> HIDE DEF t
<1> PICK w \in Nat : w = Iterations
  OBVIOUS
<1>3. /\ Sized(Then(s, t), n + w)
      /\ \A i \in 1..n : Nth(Then(s, t), i) = Nth(s, i)
      /\ \A i \in 1..w : Nth(Then(s, t), n + i) = Nth(t, i)
  BY <1>1, ThenCalls
<1>4. ASSUME NEW k \in 0..(Iterations - 1)
      PROVE  /\ Nth(Then(s, t), n + k + 1) = a
  <2>1. Nth(Then(s, t), n + k + 1) = a
    <3>1. k + 1 \in 1..w
      OBVIOUS
    <3>2. Nth(Then(s, t), n + (k + 1)) = Nth(t, k + 1)
      BY <3>1, <1>3
    <3> QED
      BY <3>2, <1>2
  <2> QED
    BY <2>1
<1> QED
  BY <1>3, <1>4 DEF t

LEMMA ThenAgain2 ==
  ASSUME NEW a, NEW b, NEW s, NEW n \in Nat,
         Sized(s, n), {a, b} \subseteq Calls
  PROVE  /\ Sized(Then(s, Again2(Iterations, a, b)), n + 2 * Iterations)
         /\ \A i \in 1..n : Nth(Then(s, Again2(Iterations, a, b)), i) = Nth(s, i)
         /\ \A k \in 0..(Iterations - 1) :
              /\ Nth(Then(s, Again2(Iterations, a, b)), n + 2 * k + 1) = a
              /\ Nth(Then(s, Again2(Iterations, a, b)), n + 2 * k + 2) = b
<1>0. Iterations \in Nat
  BY RealtimeAssumption
<1> USE <1>0
<1> DEFINE t == Again2(Iterations, a, b)
<1>1. Sized(t, 2 * Iterations)
  BY Repeated2
<1>2. ASSUME NEW k \in 0..(Iterations - 1)
      PROVE  Nth(t, 2 * k + 1) = a /\ Nth(t, 2 * k + 2) = b
  BY Repeated2
<1> HIDE DEF t
<1> PICK w \in Nat : w = 2 * Iterations
  OBVIOUS
<1>3. /\ Sized(Then(s, t), n + w)
      /\ \A i \in 1..n : Nth(Then(s, t), i) = Nth(s, i)
      /\ \A i \in 1..w : Nth(Then(s, t), n + i) = Nth(t, i)
  BY <1>1, ThenCalls
<1>4. ASSUME NEW k \in 0..(Iterations - 1)
      PROVE  /\ Nth(Then(s, t), n + 2 * k + 1) = a
             /\ Nth(Then(s, t), n + 2 * k + 2) = b
  <2>1. Nth(Then(s, t), n + 2 * k + 1) = a
    <3>1. 2 * k + 1 \in 1..w
      OBVIOUS
    <3>2. Nth(Then(s, t), n + (2 * k + 1)) = Nth(t, 2 * k + 1)
      BY <3>1, <1>3
    <3> QED
      BY <3>2, <1>2
  <2>2. Nth(Then(s, t), n + 2 * k + 2) = b
    <3>1. 2 * k + 2 \in 1..w
      OBVIOUS
    <3>2. Nth(Then(s, t), n + (2 * k + 2)) = Nth(t, 2 * k + 2)
      BY <3>1, <1>3
    <3> QED
      BY <3>2, <1>2
  <2> QED
    BY <2>1, <2>2
<1> QED
  BY <1>3, <1>4 DEF t

LEMMA ThenAgain3 ==
  ASSUME NEW a, NEW b, NEW c, NEW s, NEW n \in Nat,
         Sized(s, n), {a, b, c} \subseteq Calls
  PROVE  /\ Sized(Then(s, Again3(Iterations, a, b, c)), n + 3 * Iterations)
         /\ \A i \in 1..n : Nth(Then(s, Again3(Iterations, a, b, c)), i) = Nth(s, i)
         /\ \A k \in 0..(Iterations - 1) :
              /\ Nth(Then(s, Again3(Iterations, a, b, c)), n + 3 * k + 1) = a
              /\ Nth(Then(s, Again3(Iterations, a, b, c)), n + 3 * k + 2) = b
              /\ Nth(Then(s, Again3(Iterations, a, b, c)), n + 3 * k + 3) = c
<1>0. Iterations \in Nat
  BY RealtimeAssumption
<1> USE <1>0
<1> DEFINE t == Again3(Iterations, a, b, c)
<1>1. Sized(t, 3 * Iterations)
  BY Repeated3
<1>2. ASSUME NEW k \in 0..(Iterations - 1)
      PROVE  Nth(t, 3 * k + 1) = a /\ Nth(t, 3 * k + 2) = b /\ Nth(t, 3 * k + 3) = c
  BY Repeated3
<1> HIDE DEF t
<1> PICK w \in Nat : w = 3 * Iterations
  OBVIOUS
<1>3. /\ Sized(Then(s, t), n + w)
      /\ \A i \in 1..n : Nth(Then(s, t), i) = Nth(s, i)
      /\ \A i \in 1..w : Nth(Then(s, t), n + i) = Nth(t, i)
  BY <1>1, ThenCalls
<1>4. ASSUME NEW k \in 0..(Iterations - 1)
      PROVE  /\ Nth(Then(s, t), n + 3 * k + 1) = a
             /\ Nth(Then(s, t), n + 3 * k + 2) = b
             /\ Nth(Then(s, t), n + 3 * k + 3) = c
  <2>1. Nth(Then(s, t), n + 3 * k + 1) = a
    <3>1. 3 * k + 1 \in 1..w
      OBVIOUS
    <3>2. Nth(Then(s, t), n + (3 * k + 1)) = Nth(t, 3 * k + 1)
      BY <3>1, <1>3
    <3> QED
      BY <3>2, <1>2
  <2>2. Nth(Then(s, t), n + 3 * k + 2) = b
    <3>1. 3 * k + 2 \in 1..w
      OBVIOUS
    <3>2. Nth(Then(s, t), n + (3 * k + 2)) = Nth(t, 3 * k + 2)
      BY <3>1, <1>3
    <3> QED
      BY <3>2, <1>2
  <2>3. Nth(Then(s, t), n + 3 * k + 3) = c
    <3>1. 3 * k + 3 \in 1..w
      OBVIOUS
    <3>2. Nth(Then(s, t), n + (3 * k + 3)) = Nth(t, 3 * k + 3)
      BY <3>1, <1>3
    <3> QED
      BY <3>2, <1>2
  <2> QED
    BY <2>1, <2>2, <2>3
<1> QED
  BY <1>3, <1>4 DEF t

LEMMA ThenAgain4 ==
  ASSUME NEW a, NEW b, NEW c, NEW d, NEW s, NEW n \in Nat,
         Sized(s, n), {a, b, c, d} \subseteq Calls
  PROVE  /\ Sized(Then(s, Again4(Iterations, a, b, c, d)), n + 4 * Iterations)
         /\ \A i \in 1..n : Nth(Then(s, Again4(Iterations, a, b, c, d)), i) = Nth(s, i)
         /\ \A k \in 0..(Iterations - 1) :
              /\ Nth(Then(s, Again4(Iterations, a, b, c, d)), n + 4 * k + 1) = a
              /\ Nth(Then(s, Again4(Iterations, a, b, c, d)), n + 4 * k + 2) = b
              /\ Nth(Then(s, Again4(Iterations, a, b, c, d)), n + 4 * k + 3) = c
              /\ Nth(Then(s, Again4(Iterations, a, b, c, d)), n + 4 * k + 4) = d
<1>0. Iterations \in Nat
  BY RealtimeAssumption
<1> USE <1>0
<1> DEFINE t == Again4(Iterations, a, b, c, d)
<1>1. Sized(t, 4 * Iterations)
  BY Repeated4
<1>2. ASSUME NEW k \in 0..(Iterations - 1)
      PROVE  Nth(t, 4 * k + 1) = a /\ Nth(t, 4 * k + 2) = b /\ Nth(t, 4 * k + 3) = c /\ Nth(t, 4 * k + 4) = d
  BY Repeated4
<1> HIDE DEF t
<1> PICK w \in Nat : w = 4 * Iterations
  OBVIOUS
<1>3. /\ Sized(Then(s, t), n + w)
      /\ \A i \in 1..n : Nth(Then(s, t), i) = Nth(s, i)
      /\ \A i \in 1..w : Nth(Then(s, t), n + i) = Nth(t, i)
  BY <1>1, ThenCalls
<1>4. ASSUME NEW k \in 0..(Iterations - 1)
      PROVE  /\ Nth(Then(s, t), n + 4 * k + 1) = a
             /\ Nth(Then(s, t), n + 4 * k + 2) = b
             /\ Nth(Then(s, t), n + 4 * k + 3) = c
             /\ Nth(Then(s, t), n + 4 * k + 4) = d
  <2>1. Nth(Then(s, t), n + 4 * k + 1) = a
    <3>1. 4 * k + 1 \in 1..w
      OBVIOUS
    <3>2. Nth(Then(s, t), n + (4 * k + 1)) = Nth(t, 4 * k + 1)
      BY <3>1, <1>3
    <3> QED
      BY <3>2, <1>2
  <2>2. Nth(Then(s, t), n + 4 * k + 2) = b
    <3>1. 4 * k + 2 \in 1..w
      OBVIOUS
    <3>2. Nth(Then(s, t), n + (4 * k + 2)) = Nth(t, 4 * k + 2)
      BY <3>1, <1>3
    <3> QED
      BY <3>2, <1>2
  <2>3. Nth(Then(s, t), n + 4 * k + 3) = c
    <3>1. 4 * k + 3 \in 1..w
      OBVIOUS
    <3>2. Nth(Then(s, t), n + (4 * k + 3)) = Nth(t, 4 * k + 3)
      BY <3>1, <1>3
    <3> QED
      BY <3>2, <1>2
  <2>4. Nth(Then(s, t), n + 4 * k + 4) = d
    <3>1. 4 * k + 4 \in 1..w
      OBVIOUS
    <3>2. Nth(Then(s, t), n + (4 * k + 4)) = Nth(t, 4 * k + 4)
      BY <3>1, <1>3
    <3> QED
      BY <3>2, <1>2
  <2> QED
    BY <2>1, <2>2, <2>3, <2>4
<1> QED
  BY <1>3, <1>4 DEF t

LEMMA CallTypes ==
  /\ {Call("sleep", "cpu 0"), Call("create", "low"), Call("create", "middle")} \subseteq Calls
  /\ {Call("join", "low"), Call("join", "middle")} \subseteq Calls
  /\ {Call("return", "low"), Call("return", "middle"), Call("return", "high")} \subseteq Calls
  /\ \A s \in Semaphores : Post(s) \in Calls /\ Wait(s) \in Calls
  /\ {Send, Receive, Lock, Unlock, HighCall, LowCall, ReadyingCall, MiddleCall} \subseteq Calls
  /\ \A c \in Calls : {Timed(c, "suspends"), Timed(c, "resumes higher"), Timed(c, "readies lower")} \subseteq Calls
<1>1. \A c \in Calls : {Timed(c, "suspends"), Timed(c, "resumes higher"), Timed(c, "readies lower")} \subseteq Calls
  <2>1. ASSUME NEW D, NEW O, NEW c \in CallsOf(D, O), NEW y \in Claims
        PROVE  Timed(c, y) \in CallsOf(D, O)
    BY DEF Timed, CallsOf
  <2>2. ASSUME NEW c \in Calls, NEW y \in Claims
        PROVE  Timed(c, y) \in Calls
    <3>1. CASE c \in CallsOf({"post", "wait"}, Semaphores)
      BY <2>1, <3>1 DEF Calls
    <3>2. CASE c \in CallsOf({"create", "join", "return"}, Threads)
      BY <2>1, <3>2 DEF Calls
    <3>3. CASE c \in CallsOf({"send", "receive"}, {"mq"})
      BY <2>1, <3>3 DEF Calls
    <3>4. CASE c \in CallsOf({"lock", "unlock"}, {"lock"})
      BY <2>1, <3>4 DEF Calls
    <3>5. CASE c \in CallsOf({"sleep"}, {"cpu 0"})
      BY <2>1, <3>5 DEF Calls
    <3> QED
      BY <3>1, <3>2, <3>3, <3>4, <3>5 DEF Calls
  <2> QED
    BY <2>2 DEF Claims
<1>2. \A s \in Semaphores : Post(s) \in Calls /\ Wait(s) \in Calls
  <2>1. ASSUME NEW s \in Semaphores, NEW f \in {"post", "wait"}
        PROVE  Call(f, s) \in CallsOf({"post", "wait"}, Semaphores)
    BY DEF Call, CallsOf, Claims
  <2>2. \A s \in Semaphores : \A f \in {"post", "wait"} : Call(f, s) \in Calls
    BY <2>1 DEF Calls
  <2> QED
    BY <2>2 DEF Post, Wait
<1>3. {Send, Receive, Lock, Unlock} \subseteq Calls
  BY DEF Calls, CallsOf, Claims, Send, Receive, Lock, Unlock, Call
<1>4. {HighCall, LowCall, ReadyingCall, MiddleCall} \subseteq Calls
  BY <1>2, <1>3 DEF HighCall, LowCall, ReadyingCall, MiddleCall, Semaphores
<1>5. /\ {Call("sleep", "cpu 0"), Call("create", "low"), Call("create", "middle")} \subseteq Calls
      /\ {Call("join", "low"), Call("join", "middle")} \subseteq Calls
  BY DEF Calls, CallsOf, Claims, Call, Threads
<1>6. {Call("return", "low"), Call("return", "middle"), Call("return", "high")} \subseteq Calls
  BY DEF Calls, CallsOf, Claims, Call, Threads
<1> QED
  BY <1>1, <1>2, <1>3, <1>4, <1>5, <1>6

\* What a call can be on.
LEMMA CallObjects ==
  ASSUME NEW c \in Calls
  PROVE  /\ c.does \in {"post", "wait"} => c.on \in Semaphores
         /\ c.does \in {"lock", "unlock"} => c.on = "lock"
         /\ c.does \in {"send", "receive"} => c.on = "mq"
         /\ c.does = "join" => c.on \in Threads
  BY DEF Calls, CallsOf

\* The program of the high thread of 4_2, 6_2 and 6_4.
Taking(n, a, b, c, d, e, f) ==
  Then(Then(Then(Then(Then(Then(Then(One(a), One(b)), One(c)), Again1(n, d)),
    One(c)), Again1(n, c)), One(e)), One(f))

LEMMA TakingCalls ==
  ASSUME NEW a, NEW b, NEW c, NEW d, NEW e, NEW f, NEW n \in Nat,
         {a, b, c, d, e, f} \subseteq Calls
  PROVE  /\ Sized(Taking(n, a, b, c, d, e, f), 2 * n + 6)
         /\ Nth(Taking(n, a, b, c, d, e, f), 1) = a /\ Nth(Taking(n, a, b, c, d, e, f), 2) = b
         /\ \A i \in 3..(2 * n + 4) : Nth(Taking(n, a, b, c, d, e, f), i) = IF i \in 4..(n + 3) THEN d ELSE c
         /\ Nth(Taking(n, a, b, c, d, e, f), 2 * n + 5) = e /\ Nth(Taking(n, a, b, c, d, e, f), 2 * n + 6) = f
<1>0. a \in Calls /\ b \in Calls /\ c \in Calls /\ d \in Calls /\ e \in Calls /\ f \in Calls
  OBVIOUS
<1> USE <1>0
<1> DEFINE s2 == Then(One(a), One(b))
           s3 == Then(s2, One(c))
           s4 == Then(s3, Again1(n, d))
           s5 == Then(s4, One(c))
           s6 == Then(s5, Again1(n, c))
           s7 == Then(s6, One(e))
           s8 == Then(s7, One(f))
<1>1. Sized(s2, 2) /\ Nth(s2, 1) = a /\ Nth(s2, 2) = b
  BY TwoCalls
<1> HIDE DEF s2
<1>2. Sized(s3, 3) /\ Nth(s3, 1) = a /\ Nth(s3, 2) = b /\ Nth(s3, 3) = c
  BY <1>1, ThenCall
<1> HIDE DEF s3
<1> PICK n4 \in Nat : n4 = n + 3
  OBVIOUS
<1>3. /\ Sized(s4, n4)
      /\ Nth(s4, 1) = a /\ Nth(s4, 2) = b /\ Nth(s4, 3) = c /\ \A i \in 4..n4 : Nth(s4, i) = d
  <2>1. /\ Sized(Again1(n, d), n)
        /\ \A i \in 1..n : Nth(Again1(n, d), i) = d
    BY Repeated1
  <2>2. /\ Sized(s4, 3 + n)
        /\ \A i \in 1..3 : Nth(s4, i) = Nth(s3, i)
        /\ \A i \in (3 + 1)..(3 + n) : Nth(s4, i) = Nth(Again1(n, d), i - 3)
    BY <1>2, <2>1, ThenCalls
  <2> QED
    BY <1>2, <2>1, <2>2
<1> HIDE DEF s4
<1> PICK n5 \in Nat : n5 = n4 + 1
  OBVIOUS
<1>4. /\ Sized(s5, n5)
      /\ \A i \in 1..n4 : Nth(s5, i) = Nth(s4, i) 
      /\ Nth(s5, n5) = c
  BY <1>3, ThenCall
<1> HIDE DEF s5
<1> PICK n6 \in Nat : n6 = n5 + n
  OBVIOUS
<1>5. /\ Sized(s6, n6)
      /\ \A i \in 1..n5 : Nth(s6, i) = Nth(s5, i) 
      /\ \A i \in (n5 + 1)..n6 : Nth(s6, i) = c
  BY <1>4, Repeated1, ThenCalls
<1> HIDE DEF s6
<1> PICK n7 \in Nat : n7 = n6 + 1
  OBVIOUS
<1>6. /\ Sized(s7, n7) /\ Nth(s7, n7) = e
      /\ \A i \in 1..n6 : Nth(s7, i) = Nth(s6, i)
  BY <1>5, ThenCall
<1> HIDE DEF s7
<1> PICK n8 \in Nat : n8 = n7 + 1
  OBVIOUS
<1>7. /\ Sized(s8, n8) /\ Nth(s8, n8) = f
      /\ \A i \in 1..n7 : Nth(s8, i) = Nth(s7, i)
  BY <1>6, ThenCall
<1> HIDE DEF s8
<1>9. Sized(s8, 2 * n + 6) /\ Nth(s8, 2 * n + 6) = f /\ Nth(s8, 2 * n + 5) = e
  BY <1>6, <1>7
<1>10. \A i \in 1..n4 : Nth(s8, i) = Nth(s4, i)
  BY <1>4, <1>5, <1>6, <1>7
<1>11. \A i \in n5..n6 : Nth(s8, i) = c
  BY <1>4, <1>5, <1>6, <1>7
<1>12. \A i \in 3..(2 * n + 4) : Nth(s8, i) = IF i \in 4..(n + 3) THEN d ELSE c
  BY <1>3, <1>10, <1>11
<1>13. Nth(s8, 1) = a /\ Nth(s8, 2) = b
  BY <1>3, <1>10
<1> QED
  BY <1>9, <1>12, <1>13 DEF s8, s7, s6, s5, s4, s3, s2, Taking

LEMMA HandingHigh ==
  ASSUME Test \in {"4_2", "6_2", "6_4"}
  PROVE  LET p == Program("high") IN
    /\ p \in Seq(Calls) /\ Len(p) = 2 * Iterations + 6
    /\ Nth(p, 1) = Call("sleep", "cpu 0") /\ Nth(p, 2) = Call("create", "low")
    /\ \A i \in 3..(2 * Iterations + 4) :
         Nth(p, i) = IF i \in 4..(Iterations + 3) THEN Timed(HighCall, "suspends") ELSE HighCall
    /\ Nth(p, 2 * Iterations + 5) = Call("join", "low")
    /\ Nth(p, 2 * Iterations + 6) = Call("return", "high")
<1> DEFINE a == Call("sleep", "cpu 0")
           b == Call("create", "low")
           c == HighCall
           d == Timed(HighCall, "suspends")
           e == Call("join", "low")
           f == Call("return", "high")
           s == Taking(Iterations, a, b, c, d, e, f)
<1>1. Program("high") = s
  <2>1. <<c>> \o <<>> = <<c>> /\ <<d>> \o <<>> = <<d>>
    OBVIOUS
  <2>2. Test # "8_2" /\ Test \in Suspending
    BY DEF Suspending
  <2> HIDE DEF c, d
  <2>3. HighRest = <<>>
    BY <2>2 DEF HighRest
  <2> QED
    BY <2>1, <2>2, <2>3, Zenon DEF Program, SuspendedProgram, Bind, One, Again1, Then, Taking, c, d
<1>2. a \in Calls /\ b \in Calls /\ c \in Calls /\ d \in Calls /\ e \in Calls /\ f \in Calls
  BY CallTypes
<1>5. Iterations \in Nat
  BY RealtimeAssumption
<1>3. Sized(s, 2 * Iterations + 6) => s \in Seq(Calls) /\ Len(s) = 2 * Iterations + 6
  BY DEF Sized
<1> HIDE DEF a, b, c, d, e, f
<1>4. /\ Sized(s, 2 * Iterations + 6)
      /\ Nth(s, 1) = a /\ Nth(s, 2) = b
      /\ \A i \in 3..(2 * Iterations + 4) : Nth(s, i) = IF i \in 4..(Iterations + 3) THEN d ELSE c
      /\ Nth(s, 2 * Iterations + 5) = e /\ Nth(s, 2 * Iterations + 6) = f
  BY <1>2, <1>5, TakingCalls
<1> HIDE DEF s
<1> QED
  BY <1>1, <1>3, <1>4 DEF a, b, c, d, e, f

\* The program of the low thread of 4_2, 6_2 and 6_4.
Giving(a, c, d, f) ==
  Then(Then(Then(Then(Then(One(a), One(c)), Again1(Iterations, c)), One(c)), Again1(Iterations, d)), One(f))

LEMMA GivingCalls ==
  ASSUME NEW a, NEW c, NEW d, NEW f,
         {a, c, d, f} \subseteq Calls
  PROVE  /\ Sized(Giving(a, c, d, f), 2 * Iterations + 4)
         /\ Nth(Giving(a, c, d, f), 1) = a
         /\ \A i \in 2..(2 * Iterations + 3) : Nth(Giving(a, c, d, f), i) = IF i >= Iterations + 4 THEN d ELSE c
         /\ Nth(Giving(a, c, d, f), 2 * Iterations + 4) = f
<1>0. a \in Calls /\ c \in Calls /\ d \in Calls /\ f \in Calls
  OBVIOUS
<1>i. Iterations \in Nat
  BY RealtimeAssumption
<1> USE <1>0, <1>i
<1> DEFINE s2 == Then(One(a), One(c))
           s3 == Then(s2, Again1(Iterations, c))
           s4 == Then(s3, One(c))
           s5 == Then(s4, Again1(Iterations, d))
           s6 == Then(s5, One(f))
<1>1. Sized(s2, 2) /\ Nth(s2, 1) = a /\ Nth(s2, 2) = c
  BY TwoCalls
<1> HIDE DEF s2
<1> PICK n3 \in Nat : n3 = Iterations + 2
  OBVIOUS
<1>2. /\ Sized(s3, n3) /\ \A i \in 1..2 : Nth(s3, i) = Nth(s2, i)
      /\ \A i \in 3..n3 : Nth(s3, i) = c
  <2>1. /\ Sized(s3, 2 + Iterations)
        /\ \A i \in 1..2 : Nth(s3, i) = Nth(s2, i)
        /\ \A k \in 0..(Iterations - 1) : Nth(s3, 2 + k + 1) = c
    BY <1>1, ThenAgain1
  <2>2. ASSUME NEW i \in 3..n3
        PROVE  Nth(s3, i) = c
    <3>1. i - 3 \in 0..(Iterations - 1) /\ i = 2 + (i - 3) + 1
      OBVIOUS
    <3> QED
      BY <2>1, <3>1
  <2> QED
    BY <2>1, <2>2
<1> HIDE DEF s3
<1> PICK n4 \in Nat : n4 = n3 + 1
  OBVIOUS
<1>3. /\ Sized(s4, n4) /\ \A i \in 1..n3 : Nth(s4, i) = Nth(s3, i)
      /\ Nth(s4, n4) = c
  BY <1>2, ThenCall
<1> HIDE DEF s4
<1> PICK n5 \in Nat : n5 = n4 + Iterations
  OBVIOUS
<1>4. /\ Sized(s5, n5) /\ \A i \in 1..n4 : Nth(s5, i) = Nth(s4, i)
      /\ \A i \in (n4 + 1)..n5 : Nth(s5, i) = d
  <2>1. /\ Sized(s5, n4 + Iterations)
        /\ \A i \in 1..n4 : Nth(s5, i) = Nth(s4, i)
        /\ \A k \in 0..(Iterations - 1) : Nth(s5, n4 + k + 1) = d
    BY <1>3, ThenAgain1
  <2>2. ASSUME NEW i \in (n4 + 1)..n5
        PROVE  Nth(s5, i) = d
    <3>1. i - n4 - 1 \in 0..(Iterations - 1) /\ i = n4 + (i - n4 - 1) + 1
      OBVIOUS
    <3> QED
      BY <2>1, <3>1
  <2> QED
    BY <2>1, <2>2
<1> HIDE DEF s5
<1> PICK n6 \in Nat : n6 = n5 + 1
  OBVIOUS
<1>5. /\ Sized(s6, n6) /\ \A i \in 1..n5 : Nth(s6, i) = Nth(s5, i)
      /\ Nth(s6, n6) = f
  BY <1>4, ThenCall
<1> HIDE DEF s6
<1>6. /\ Sized(s6, 2 * Iterations + 4) /\ Nth(s6, 2 * Iterations + 4) = f
  BY <1>5
<1>7. Nth(s6, 1) = a
  BY <1>1, <1>2, <1>3, <1>4, <1>5
<1>8. \A i \in 2..(2 * Iterations + 3) : Nth(s6, i) = IF i >= Iterations + 4 THEN d ELSE c
  BY <1>1, <1>2, <1>3, <1>4, <1>5
<1> QED
  BY <1>6, <1>7, <1>8 DEF s6, s5, s4, s3, s2, Giving

\* The program of the middle thread of 5_3, 6_3 and 7_3.
Serving1(a, c, r) ==
  Then(Then(One(a), Again1(Iterations, c)), One(r))

LEMMA Serving1Calls ==
  ASSUME NEW a, NEW c, NEW r,
         {a, c, r} \subseteq Calls
  PROVE  /\ Sized(Serving1(a, c, r), Iterations + 2)
         /\ Nth(Serving1(a, c, r), 1) = a /\ Nth(Serving1(a, c, r), Iterations + 2) = r
         /\ \A k \in 0..(Iterations - 1) : Nth(Serving1(a, c, r), k + 2) = c
<1>0. a \in Calls /\ c \in Calls /\ r \in Calls
  OBVIOUS
<1>i. Iterations \in Nat
  BY RealtimeAssumption
<1> USE <1>0, <1>i
<1> DEFINE s1 == One(a)
           s2 == Then(s1, Again1(Iterations, c))
           s3 == Then(s2, One(r))
<1> PICK n1 \in Nat : n1 = 1
  OBVIOUS
<1>1. Sized(s1, n1) /\ Nth(s1, 1) = a
  BY OneCall
<1> HIDE DEF s1
<1> PICK n2 \in Nat : n2 = n1 + Iterations
  OBVIOUS
<1>2. /\ Sized(s2, n2)
      /\ \A i \in 1..n1 : Nth(s2, i) = Nth(s1, i)
      /\ \A k \in 0..(Iterations - 1) :
           /\ Nth(s2, n1 + k + 1) = c
  BY <1>1, ThenAgain1
<1> HIDE DEF s2
<1> PICK n3 \in Nat : n3 = n2 + 1
  OBVIOUS
<1>3. /\ Sized(s3, n3)
      /\ \A i \in 1..n2 : Nth(s3, i) = Nth(s2, i)
      /\ Nth(s3, n3) = r
  BY <1>2, ThenCall
<1> HIDE DEF s3
<1>4. \A i \in Nat : /\ i \in 1..n1 => Nth(s3, i) = Nth(s1, i)
                     /\ i \in 1..n2 => Nth(s3, i) = Nth(s2, i)
  BY <1>2, <1>3
<1>5. Sized(s3, Iterations + 2)
  BY <1>1, <1>2, <1>3, <1>4
<1>6. Nth(s3, 1) = a /\ Nth(s3, Iterations + 2) = r
  BY <1>1, <1>2, <1>3, <1>4
<1>7. \A k \in 0..(Iterations - 1) : Nth(s3, k + 2) = c
  BY <1>1, <1>2, <1>3, <1>4
<1> QED
  BY <1>3, <1>5, <1>6, <1>7 DEF s1, s2, s3, Serving1

\* The program of the low thread of 5_3 to 9_3 and of the middle one of 9_3.
Serving2(a, c, d, r) ==
  Then(Then(One(a), Again2(Iterations, c, d)), One(r))

LEMMA Serving2Calls ==
  ASSUME NEW a, NEW c, NEW d, NEW r,
         {a, c, d, r} \subseteq Calls
  PROVE  /\ Sized(Serving2(a, c, d, r), 2 * Iterations + 2)
         /\ Nth(Serving2(a, c, d, r), 1) = a /\ Nth(Serving2(a, c, d, r), 2 * Iterations + 2) = r
         /\ \A k \in 0..(Iterations - 1) : Nth(Serving2(a, c, d, r), 2 * k + 2) = c /\ Nth(Serving2(a, c, d, r), 2 * k + 3) = d
<1>0. a \in Calls /\ c \in Calls /\ d \in Calls /\ r \in Calls
  OBVIOUS
<1>i. Iterations \in Nat
  BY RealtimeAssumption
<1> USE <1>0, <1>i
<1> DEFINE s1 == One(a)
           s2 == Then(s1, Again2(Iterations, c, d))
           s3 == Then(s2, One(r))
<1> PICK n1 \in Nat : n1 = 1
  OBVIOUS
<1>1. Sized(s1, n1) /\ Nth(s1, 1) = a
  BY OneCall
<1> HIDE DEF s1
<1> PICK n2 \in Nat : n2 = n1 + 2 * Iterations
  OBVIOUS
<1>2. /\ Sized(s2, n2)
      /\ \A i \in 1..n1 : Nth(s2, i) = Nth(s1, i)
      /\ \A k \in 0..(Iterations - 1) :
           /\ Nth(s2, n1 + 2 * k + 1) = c
           /\ Nth(s2, n1 + 2 * k + 2) = d
  BY <1>1, ThenAgain2
<1> HIDE DEF s2
<1> PICK n3 \in Nat : n3 = n2 + 1
  OBVIOUS
<1>3. /\ Sized(s3, n3)
      /\ \A i \in 1..n2 : Nth(s3, i) = Nth(s2, i)
      /\ Nth(s3, n3) = r
  BY <1>2, ThenCall
<1> HIDE DEF s3
<1>4. \A i \in Nat : /\ i \in 1..n1 => Nth(s3, i) = Nth(s1, i)
                     /\ i \in 1..n2 => Nth(s3, i) = Nth(s2, i)
  BY <1>2, <1>3
<1>5. Sized(s3, 2 * Iterations + 2)
  BY <1>1, <1>2, <1>3, <1>4
<1>6. Nth(s3, 1) = a /\ Nth(s3, 2 * Iterations + 2) = r
  BY <1>1, <1>2, <1>3, <1>4
<1>7. \A k \in 0..(Iterations - 1) : Nth(s3, 2 * k + 2) = c /\ Nth(s3, 2 * k + 3) = d
  BY <1>1, <1>2, <1>3, <1>4
<1> QED
  BY <1>3, <1>5, <1>6, <1>7 DEF s1, s2, s3, Serving2

\* The program of the high thread of 5_3, 6_3 and 7_3.
Leading3(a, b, c, x, y, z, j, l, r) ==
  Then(Then(Then(Then(Then(Then(One(a), One(b)), One(c)), Again3(Iterations, x, y, z)), One(j)), One(l)), One(r))

LEMMA Leading3Calls ==
  ASSUME NEW a, NEW b, NEW c, NEW x, NEW y, NEW z, NEW j, NEW l, NEW r,
         {a, b, c, x, y, z, j, l, r} \subseteq Calls
  PROVE  /\ Sized(Leading3(a, b, c, x, y, z, j, l, r), 3 * Iterations + 6)
         /\ Nth(Leading3(a, b, c, x, y, z, j, l, r), 1) = a /\ Nth(Leading3(a, b, c, x, y, z, j, l, r), 2) = b /\ Nth(Leading3(a, b, c, x, y, z, j, l, r), 3) = c
         /\ \A k \in 0..(Iterations - 1) : Nth(Leading3(a, b, c, x, y, z, j, l, r), 3 * k + 4) = x /\ Nth(Leading3(a, b, c, x, y, z, j, l, r), 3 * k + 5) = y /\ Nth(Leading3(a, b, c, x, y, z, j, l, r), 3 * k + 6) = z
         /\ Nth(Leading3(a, b, c, x, y, z, j, l, r), 3 * Iterations + 4) = j /\ Nth(Leading3(a, b, c, x, y, z, j, l, r), 3 * Iterations + 5) = l /\ Nth(Leading3(a, b, c, x, y, z, j, l, r), 3 * Iterations + 6) = r
<1>0. a \in Calls /\ b \in Calls /\ c \in Calls /\ x \in Calls /\ y \in Calls /\ z \in Calls /\ j \in Calls /\ l \in Calls /\ r \in Calls
  OBVIOUS
<1>i. Iterations \in Nat
  BY RealtimeAssumption
<1> USE <1>0, <1>i
<1> DEFINE s1 == One(a)
           s2 == Then(s1, One(b))
           s3 == Then(s2, One(c))
           s4 == Then(s3, Again3(Iterations, x, y, z))
           s5 == Then(s4, One(j))
           s6 == Then(s5, One(l))
           s7 == Then(s6, One(r))
<1> PICK n1 \in Nat : n1 = 1
  OBVIOUS
<1>1. Sized(s1, n1) /\ Nth(s1, 1) = a
  BY OneCall
<1> HIDE DEF s1
<1> PICK n2 \in Nat : n2 = n1 + 1
  OBVIOUS
<1>2. /\ Sized(s2, n2)
      /\ \A i \in 1..n1 : Nth(s2, i) = Nth(s1, i)
      /\ Nth(s2, n2) = b
  BY <1>1, ThenCall
<1> HIDE DEF s2
<1> PICK n3 \in Nat : n3 = n2 + 1
  OBVIOUS
<1>3. /\ Sized(s3, n3)
      /\ \A i \in 1..n2 : Nth(s3, i) = Nth(s2, i)
      /\ Nth(s3, n3) = c
  BY <1>2, ThenCall
<1> HIDE DEF s3
<1> PICK n4 \in Nat : n4 = n3 + 3 * Iterations
  OBVIOUS
<1>4. /\ Sized(s4, n4)
      /\ \A i \in 1..n3 : Nth(s4, i) = Nth(s3, i)
      /\ \A k \in 0..(Iterations - 1) :
           /\ Nth(s4, n3 + 3 * k + 1) = x
           /\ Nth(s4, n3 + 3 * k + 2) = y
           /\ Nth(s4, n3 + 3 * k + 3) = z
  BY <1>3, ThenAgain3
<1> HIDE DEF s4
<1> PICK n5 \in Nat : n5 = n4 + 1
  OBVIOUS
<1>5. /\ Sized(s5, n5)
      /\ \A i \in 1..n4 : Nth(s5, i) = Nth(s4, i)
      /\ Nth(s5, n5) = j
  BY <1>4, ThenCall
<1> HIDE DEF s5
<1> PICK n6 \in Nat : n6 = n5 + 1
  OBVIOUS
<1>6. /\ Sized(s6, n6)
      /\ \A i \in 1..n5 : Nth(s6, i) = Nth(s5, i)
      /\ Nth(s6, n6) = l
  BY <1>5, ThenCall
<1> HIDE DEF s6
<1> PICK n7 \in Nat : n7 = n6 + 1
  OBVIOUS
<1>7. /\ Sized(s7, n7)
      /\ \A i \in 1..n6 : Nth(s7, i) = Nth(s6, i)
      /\ Nth(s7, n7) = r
  BY <1>6, ThenCall
<1> HIDE DEF s7
<1>8. \A i \in Nat : /\ i \in 1..n1 => Nth(s7, i) = Nth(s1, i)
                     /\ i \in 1..n2 => Nth(s7, i) = Nth(s2, i)
                     /\ i \in 1..n3 => Nth(s7, i) = Nth(s3, i)
                     /\ i \in 1..n4 => Nth(s7, i) = Nth(s4, i)
                     /\ i \in 1..n5 => Nth(s7, i) = Nth(s5, i)
                     /\ i \in 1..n6 => Nth(s7, i) = Nth(s6, i)
  BY <1>2, <1>3, <1>4, <1>5, <1>6, <1>7
<1>9. Sized(s7, 3 * Iterations + 6)
  BY <1>1, <1>2, <1>3, <1>4, <1>5, <1>6, <1>7, <1>8
<1>10. Nth(s7, 1) = a /\ Nth(s7, 2) = b /\ Nth(s7, 3) = c
  BY <1>1, <1>2, <1>3, <1>4, <1>5, <1>6, <1>7, <1>8
<1>11. \A k \in 0..(Iterations - 1) : Nth(s7, 3 * k + 4) = x /\ Nth(s7, 3 * k + 5) = y /\ Nth(s7, 3 * k + 6) = z
  BY <1>1, <1>2, <1>3, <1>4, <1>5, <1>6, <1>7, <1>8
<1>12. Nth(s7, 3 * Iterations + 4) = j /\ Nth(s7, 3 * Iterations + 5) = l /\ Nth(s7, 3 * Iterations + 6) = r
  BY <1>1, <1>2, <1>3, <1>4, <1>5, <1>6, <1>7, <1>8
<1> QED
  BY <1>7, <1>9, <1>10, <1>11, <1>12 DEF s1, s2, s3, s4, s5, s6, s7, Leading3

\* The program of the high thread of 9_3.
Leading4(a, b, c, w, x, y, z, j, l, r) ==
  Then(Then(Then(Then(Then(Then(One(a), One(b)), One(c)), Again4(Iterations, w, x, y, z)), One(j)), One(l)), One(r))

LEMMA Leading4Calls ==
  ASSUME NEW a, NEW b, NEW c, NEW w, NEW x, NEW y, NEW z, NEW j, NEW l, NEW r,
         {a, b, c, w, x, y, z, j, l, r} \subseteq Calls
  PROVE  /\ Sized(Leading4(a, b, c, w, x, y, z, j, l, r), 4 * Iterations + 6)
         /\ Nth(Leading4(a, b, c, w, x, y, z, j, l, r), 1) = a /\ Nth(Leading4(a, b, c, w, x, y, z, j, l, r), 2) = b /\ Nth(Leading4(a, b, c, w, x, y, z, j, l, r), 3) = c
         /\ \A k \in 0..(Iterations - 1) : Nth(Leading4(a, b, c, w, x, y, z, j, l, r), 4 * k + 4) = w /\ Nth(Leading4(a, b, c, w, x, y, z, j, l, r), 4 * k + 5) = x
         /\ \A k \in 0..(Iterations - 1) : Nth(Leading4(a, b, c, w, x, y, z, j, l, r), 4 * k + 6) = y /\ Nth(Leading4(a, b, c, w, x, y, z, j, l, r), 4 * k + 7) = z
         /\ Nth(Leading4(a, b, c, w, x, y, z, j, l, r), 4 * Iterations + 4) = j /\ Nth(Leading4(a, b, c, w, x, y, z, j, l, r), 4 * Iterations + 5) = l /\ Nth(Leading4(a, b, c, w, x, y, z, j, l, r), 4 * Iterations + 6) = r
<1>0. a \in Calls /\ b \in Calls /\ c \in Calls /\ w \in Calls /\ x \in Calls /\ y \in Calls /\ z \in Calls /\ j \in Calls /\ l \in Calls /\ r \in Calls
  OBVIOUS
<1>i. Iterations \in Nat
  BY RealtimeAssumption
<1> USE <1>0, <1>i
<1> DEFINE s1 == One(a)
           s2 == Then(s1, One(b))
           s3 == Then(s2, One(c))
           s4 == Then(s3, Again4(Iterations, w, x, y, z))
           s5 == Then(s4, One(j))
           s6 == Then(s5, One(l))
           s7 == Then(s6, One(r))
<1> PICK n1 \in Nat : n1 = 1
  OBVIOUS
<1>1. Sized(s1, n1) /\ Nth(s1, 1) = a
  BY OneCall
<1> HIDE DEF s1
<1> PICK n2 \in Nat : n2 = n1 + 1
  OBVIOUS
<1>2. /\ Sized(s2, n2)
      /\ \A i \in 1..n1 : Nth(s2, i) = Nth(s1, i)
      /\ Nth(s2, n2) = b
  BY <1>1, ThenCall
<1> HIDE DEF s2
<1> PICK n3 \in Nat : n3 = n2 + 1
  OBVIOUS
<1>3. /\ Sized(s3, n3)
      /\ \A i \in 1..n2 : Nth(s3, i) = Nth(s2, i)
      /\ Nth(s3, n3) = c
  BY <1>2, ThenCall
<1> HIDE DEF s3
<1> PICK n4 \in Nat : n4 = n3 + 4 * Iterations
  OBVIOUS
<1>4. /\ Sized(s4, n4)
      /\ \A i \in 1..n3 : Nth(s4, i) = Nth(s3, i)
      /\ \A k \in 0..(Iterations - 1) :
           /\ Nth(s4, n3 + 4 * k + 1) = w
           /\ Nth(s4, n3 + 4 * k + 2) = x
           /\ Nth(s4, n3 + 4 * k + 3) = y
           /\ Nth(s4, n3 + 4 * k + 4) = z
  BY <1>3, ThenAgain4
<1> HIDE DEF s4
<1> PICK n5 \in Nat : n5 = n4 + 1
  OBVIOUS
<1>5. /\ Sized(s5, n5)
      /\ \A i \in 1..n4 : Nth(s5, i) = Nth(s4, i)
      /\ Nth(s5, n5) = j
  BY <1>4, ThenCall
<1> HIDE DEF s5
<1> PICK n6 \in Nat : n6 = n5 + 1
  OBVIOUS
<1>6. /\ Sized(s6, n6)
      /\ \A i \in 1..n5 : Nth(s6, i) = Nth(s5, i)
      /\ Nth(s6, n6) = l
  BY <1>5, ThenCall
<1> HIDE DEF s6
<1> PICK n7 \in Nat : n7 = n6 + 1
  OBVIOUS
<1>7. /\ Sized(s7, n7)
      /\ \A i \in 1..n6 : Nth(s7, i) = Nth(s6, i)
      /\ Nth(s7, n7) = r
  BY <1>6, ThenCall
<1> HIDE DEF s7
<1>8. \A i \in Nat : /\ i \in 1..n1 => Nth(s7, i) = Nth(s1, i)
                     /\ i \in 1..n2 => Nth(s7, i) = Nth(s2, i)
                     /\ i \in 1..n3 => Nth(s7, i) = Nth(s3, i)
                     /\ i \in 1..n4 => Nth(s7, i) = Nth(s4, i)
                     /\ i \in 1..n5 => Nth(s7, i) = Nth(s5, i)
                     /\ i \in 1..n6 => Nth(s7, i) = Nth(s6, i)
  BY <1>2, <1>3, <1>4, <1>5, <1>6, <1>7
<1>9. Sized(s7, 4 * Iterations + 6)
  BY <1>1, <1>2, <1>3, <1>4, <1>5, <1>6, <1>7, <1>8
<1>10. Nth(s7, 1) = a /\ Nth(s7, 2) = b /\ Nth(s7, 3) = c
  BY <1>1, <1>2, <1>3, <1>4, <1>5, <1>6, <1>7, <1>8
<1>11. \A k \in 0..(Iterations - 1) : Nth(s7, 4 * k + 4) = w /\ Nth(s7, 4 * k + 5) = x
  BY <1>1, <1>2, <1>3, <1>4, <1>5, <1>6, <1>7, <1>8
<1>12. \A k \in 0..(Iterations - 1) : Nth(s7, 4 * k + 6) = y /\ Nth(s7, 4 * k + 7) = z
  BY <1>1, <1>2, <1>3, <1>4, <1>5, <1>6, <1>7, <1>8
<1>13. Nth(s7, 4 * Iterations + 4) = j /\ Nth(s7, 4 * Iterations + 5) = l /\ Nth(s7, 4 * Iterations + 6) = r
  BY <1>1, <1>2, <1>3, <1>4, <1>5, <1>6, <1>7, <1>8
<1> QED
  BY <1>7, <1>9, <1>10, <1>11, <1>12, <1>13 DEF s1, s2, s3, s4, s5, s6, s7, Leading4

Four(a, b, c, d) == <<a, b, c, d>>

LEMMA ThenFour ==
  ASSUME NEW a, NEW b, NEW c, NEW d, NEW s, NEW n \in Nat,
         Sized(s, n), {a, b, c, d} \subseteq Calls
  PROVE  /\ Sized(Then(s, Four(a, b, c, d)), n + 4)
         /\ \A i \in 1..n : Nth(Then(s, Four(a, b, c, d)), i) = Nth(s, i)
         /\ Nth(Then(s, Four(a, b, c, d)), n + 1) = a /\ Nth(Then(s, Four(a, b, c, d)), n + 2) = b
         /\ Nth(Then(s, Four(a, b, c, d)), n + 3) = c /\ Nth(Then(s, Four(a, b, c, d)), n + 4) = d
<1> DEFINE t == Four(a, b, c, d)
<1>1. Sized(t, 4)
  BY DEF Sized, Four
<1>2. Nth(t, 1) = a /\ Nth(t, 2) = b /\ Nth(t, 3) = c /\ Nth(t, 4) = d
  BY DEF Nth, Four
<1> HIDE DEF t
<1>3. /\ Sized(Then(s, t), n + 4)
      /\ \A i \in 1..n : Nth(Then(s, t), i) = Nth(s, i)
      /\ \A i \in 1..4 : Nth(Then(s, t), n + i) = Nth(t, i)
  BY <1>1, ThenCalls
<1>4. /\ Nth(Then(s, t), n + 1) = a /\ Nth(Then(s, t), n + 2) = b
      /\ Nth(Then(s, t), n + 3) = c /\ Nth(Then(s, t), n + 4) = d
  BY <1>2, <1>3
<1> QED
  BY <1>3, <1>4 DEF t

\* The program of the high thread of 8_2.
Asking(a, b, w, l, lt, u, p, j, r) ==
  Then(Then(Then(Then(Then(Then(Then(One(a), One(b)), One(w)), Again4(Iterations, lt, u, p, w)), Four(l, u, p, w)), Again4(Iterations, l, u, p, w)), One(j)), One(r))

LEMMA AskingCalls ==
  ASSUME NEW a, NEW b, NEW w, NEW l, NEW lt, NEW u, NEW p, NEW j, NEW r, {a, b, w, l, lt, u, p, j, r} \subseteq Calls
  PROVE  /\ Sized(Asking(a, b, w, l, lt, u, p, j, r), 8 * Iterations + 9)
         /\ Nth(Asking(a, b, w, l, lt, u, p, j, r), 1) = a /\ Nth(Asking(a, b, w, l, lt, u, p, j, r), 2) = b
         /\ Nth(Asking(a, b, w, l, lt, u, p, j, r), 8 * Iterations + 8) = j /\ Nth(Asking(a, b, w, l, lt, u, p, j, r), 8 * Iterations + 9) = r
         /\ \A k \in 0..(2 * Iterations) : Nth(Asking(a, b, w, l, lt, u, p, j, r), 4 * k + 4) = IF k < Iterations THEN lt ELSE l
         /\ \A k \in 0..(2 * Iterations) : Nth(Asking(a, b, w, l, lt, u, p, j, r), 4 * k + 5) = u /\ Nth(Asking(a, b, w, l, lt, u, p, j, r), 4 * k + 6) = p
         /\ \A k \in 0..(2 * Iterations + 1) : Nth(Asking(a, b, w, l, lt, u, p, j, r), 4 * k + 3) = w
<1>0. a \in Calls /\ b \in Calls /\ w \in Calls /\ l \in Calls /\ lt \in Calls /\ u \in Calls /\ p \in Calls /\ j \in Calls /\ r \in Calls
  OBVIOUS
<1>i. Iterations \in Nat
  BY RealtimeAssumption
<1> USE <1>0, <1>i
<1> DEFINE s1 == One(a)
           s2 == Then(s1, One(b))
           s3 == Then(s2, One(w))
           s4 == Then(s3, Again4(Iterations, lt, u, p, w))
           s5 == Then(s4, Four(l, u, p, w))
           s6 == Then(s5, Again4(Iterations, l, u, p, w))
           s7 == Then(s6, One(j))
           s8 == Then(s7, One(r))
<1> PICK n1 \in Nat : n1 = 1
  OBVIOUS
<1>1. Sized(s1, n1) /\ Nth(s1, 1) = a
  BY OneCall
<1> HIDE DEF s1
<1> PICK n2 \in Nat : n2 = n1 + 1
  OBVIOUS
<1>2. /\ Sized(s2, n2)
      /\ \A i \in 1..n1 : Nth(s2, i) = Nth(s1, i)
      /\ Nth(s2, n2) = b
  BY <1>1, ThenCall
<1> HIDE DEF s2
<1> PICK n3 \in Nat : n3 = n2 + 1
  OBVIOUS
<1>3. /\ Sized(s3, n3)
      /\ \A i \in 1..n2 : Nth(s3, i) = Nth(s2, i)
      /\ Nth(s3, n3) = w
  BY <1>2, ThenCall
<1> HIDE DEF s3
<1> PICK n4 \in Nat : n4 = n3 + 4 * Iterations
  OBVIOUS
<1>4. /\ Sized(s4, n4)
      /\ \A i \in 1..n3 : Nth(s4, i) = Nth(s3, i)
      /\ \A k \in 0..(Iterations - 1) :
           /\ Nth(s4, n3 + 4 * k + 1) = lt
           /\ Nth(s4, n3 + 4 * k + 2) = u
           /\ Nth(s4, n3 + 4 * k + 3) = p
           /\ Nth(s4, n3 + 4 * k + 4) = w
  <2>1. Sized(s4, n3 + 4 * Iterations)
    BY <1>3, ThenAgain4
  <2>2. \A i \in 1..n3 : Nth(s4, i) = Nth(s3, i)
    BY <1>3, ThenAgain4
  <2>3. \A k \in 0..(Iterations - 1) : Nth(s4, n3 + 4 * k + 1) = lt
    BY <1>3, ThenAgain4
  <2>4. \A k \in 0..(Iterations - 1) : Nth(s4, n3 + 4 * k + 2) = u
    BY <1>3, ThenAgain4
  <2>5. \A k \in 0..(Iterations - 1) : Nth(s4, n3 + 4 * k + 3) = p
    BY <1>3, ThenAgain4
  <2>6. \A k \in 0..(Iterations - 1) : Nth(s4, n3 + 4 * k + 4) = w
    BY <1>3, ThenAgain4
  <2> QED
    BY <2>1, <2>2, <2>3, <2>4, <2>5, <2>6
<1> HIDE DEF s4
<1> PICK n5 \in Nat : n5 = n4 + 4
  OBVIOUS
<1>5. /\ Sized(s5, n5)
      /\ \A i \in 1..n4 : Nth(s5, i) = Nth(s4, i)
      /\ Nth(s5, n4 + 1) = l
      /\ Nth(s5, n4 + 2) = u
      /\ Nth(s5, n4 + 3) = p
      /\ Nth(s5, n4 + 4) = w
  BY <1>4, ThenFour
<1> HIDE DEF s5
<1> PICK n6 \in Nat : n6 = n5 + 4 * Iterations
  OBVIOUS
<1>6. /\ Sized(s6, n6)
      /\ \A i \in 1..n5 : Nth(s6, i) = Nth(s5, i)
      /\ \A k \in 0..(Iterations - 1) :
           /\ Nth(s6, n5 + 4 * k + 1) = l
           /\ Nth(s6, n5 + 4 * k + 2) = u
           /\ Nth(s6, n5 + 4 * k + 3) = p
           /\ Nth(s6, n5 + 4 * k + 4) = w
  <2>1. Sized(s6, n5 + 4 * Iterations)
    BY <1>5, ThenAgain4
  <2>2. \A i \in 1..n5 : Nth(s6, i) = Nth(s5, i)
    BY <1>5, ThenAgain4
  <2>3. \A k \in 0..(Iterations - 1) : Nth(s6, n5 + 4 * k + 1) = l
    BY <1>5, ThenAgain4
  <2>4. \A k \in 0..(Iterations - 1) : Nth(s6, n5 + 4 * k + 2) = u
    BY <1>5, ThenAgain4
  <2>5. \A k \in 0..(Iterations - 1) : Nth(s6, n5 + 4 * k + 3) = p
    BY <1>5, ThenAgain4
  <2>6. \A k \in 0..(Iterations - 1) : Nth(s6, n5 + 4 * k + 4) = w
    BY <1>5, ThenAgain4
  <2> QED
    BY <2>1, <2>2, <2>3, <2>4, <2>5, <2>6
<1> HIDE DEF s6
<1> PICK n7 \in Nat : n7 = n6 + 1
  OBVIOUS
<1>7. /\ Sized(s7, n7)
      /\ \A i \in 1..n6 : Nth(s7, i) = Nth(s6, i)
      /\ Nth(s7, n7) = j
  BY <1>6, ThenCall
<1> HIDE DEF s7
<1> PICK n8 \in Nat : n8 = n7 + 1
  OBVIOUS
<1>8. /\ Sized(s8, n8)
      /\ \A i \in 1..n7 : Nth(s8, i) = Nth(s7, i)
      /\ Nth(s8, n8) = r
  BY <1>7, ThenCall
<1> HIDE DEF s8
<1>9. /\ \A i \in 1..n1 : Nth(s8, i) = Nth(s1, i)
      /\ \A i \in 1..n2 : Nth(s8, i) = Nth(s2, i)
      /\ \A i \in 1..n3 : Nth(s8, i) = Nth(s3, i)
      /\ \A i \in 1..n4 : Nth(s8, i) = Nth(s4, i)
      /\ \A i \in 1..n5 : Nth(s8, i) = Nth(s5, i)
      /\ \A i \in 1..n6 : Nth(s8, i) = Nth(s6, i)
      /\ \A i \in 1..n7 : Nth(s8, i) = Nth(s7, i)
  BY <1>2, <1>3, <1>4, <1>5, <1>6, <1>7, <1>8
<1>10. ASSUME NEW k \in 0..(Iterations - 1)
      PROVE  /\ Nth(s8, 4 * k + 4) = lt
             /\ Nth(s8, 4 * k + 5) = u
             /\ Nth(s8, 4 * k + 6) = p
             /\ Nth(s8, 4 * k + 7) = w
  <2>1. Nth(s8, 4 * k + 4) = lt
    <3> PICK h \in 1..n4 : h = 4 * k + 4 /\ h = n3 + 4 * k + 1
      OBVIOUS
    <3>1. Nth(s4, h) = lt
      BY <1>4
    <3>2. Nth(s8, h) = Nth(s4, h)
      BY <1>9
    <3> QED
      BY <3>1, <3>2
  <2>2. Nth(s8, 4 * k + 5) = u
    <3> PICK h \in 1..n4 : h = 4 * k + 5 /\ h = n3 + 4 * k + 2
      OBVIOUS
    <3>1. Nth(s4, h) = u
      BY <1>4
    <3>2. Nth(s8, h) = Nth(s4, h)
      BY <1>9
    <3> QED
      BY <3>1, <3>2
  <2>3. Nth(s8, 4 * k + 6) = p
    <3> PICK h \in 1..n4 : h = 4 * k + 6 /\ h = n3 + 4 * k + 3
      OBVIOUS
    <3>1. Nth(s4, h) = p
      BY <1>4
    <3>2. Nth(s8, h) = Nth(s4, h)
      BY <1>9
    <3> QED
      BY <3>1, <3>2
  <2>4. Nth(s8, 4 * k + 7) = w
    <3> PICK h \in 1..n4 : h = 4 * k + 7 /\ h = n3 + 4 * k + 4
      OBVIOUS
    <3>1. Nth(s4, h) = w
      BY <1>4
    <3>2. Nth(s8, h) = Nth(s4, h)
      BY <1>9
    <3> QED
      BY <3>1, <3>2
  <2> QED
    BY <2>1, <2>2, <2>3, <2>4
<1>11. /\ Nth(s8, 4 * Iterations + 4) = l
      /\ Nth(s8, 4 * Iterations + 5) = u
      /\ Nth(s8, 4 * Iterations + 6) = p
      /\ Nth(s8, 4 * Iterations + 7) = w
  <2>1. Nth(s8, 4 * Iterations + 4) = l
    <3> PICK h \in 1..n5 : h = 4 * Iterations + 4 /\ h = n4 + 1
      OBVIOUS
    <3>1. Nth(s5, h) = l
      BY <1>5
    <3>2. Nth(s8, h) = Nth(s5, h)
      BY <1>9
    <3> QED
      BY <3>1, <3>2
  <2>2. Nth(s8, 4 * Iterations + 5) = u
    <3> PICK h \in 1..n5 : h = 4 * Iterations + 5 /\ h = n4 + 2
      OBVIOUS
    <3>1. Nth(s5, h) = u
      BY <1>5
    <3>2. Nth(s8, h) = Nth(s5, h)
      BY <1>9
    <3> QED
      BY <3>1, <3>2
  <2>3. Nth(s8, 4 * Iterations + 6) = p
    <3> PICK h \in 1..n5 : h = 4 * Iterations + 6 /\ h = n4 + 3
      OBVIOUS
    <3>1. Nth(s5, h) = p
      BY <1>5
    <3>2. Nth(s8, h) = Nth(s5, h)
      BY <1>9
    <3> QED
      BY <3>1, <3>2
  <2>4. Nth(s8, 4 * Iterations + 7) = w
    <3> PICK h \in 1..n5 : h = 4 * Iterations + 7 /\ h = n4 + 4
      OBVIOUS
    <3>1. Nth(s5, h) = w
      BY <1>5
    <3>2. Nth(s8, h) = Nth(s5, h)
      BY <1>9
    <3> QED
      BY <3>1, <3>2
  <2> QED
    BY <2>1, <2>2, <2>3, <2>4
<1>12. ASSUME NEW k \in (Iterations + 1)..(2 * Iterations)
      PROVE  /\ Nth(s8, 4 * k + 4) = l
             /\ Nth(s8, 4 * k + 5) = u
             /\ Nth(s8, 4 * k + 6) = p
             /\ Nth(s8, 4 * k + 7) = w
  <2> PICK g \in 0..(Iterations - 1) : g = k - Iterations - 1
    OBVIOUS
  <2>1. Nth(s8, 4 * k + 4) = l
    <3> PICK h \in 1..n6 : h = 4 * k + 4 /\ h = n5 + 4 * g + 1
      OBVIOUS
    <3>1. Nth(s6, h) = l
      BY <1>6
    <3>2. Nth(s8, h) = Nth(s6, h)
      BY <1>9
    <3> QED
      BY <3>1, <3>2
  <2>2. Nth(s8, 4 * k + 5) = u
    <3> PICK h \in 1..n6 : h = 4 * k + 5 /\ h = n5 + 4 * g + 2
      OBVIOUS
    <3>1. Nth(s6, h) = u
      BY <1>6
    <3>2. Nth(s8, h) = Nth(s6, h)
      BY <1>9
    <3> QED
      BY <3>1, <3>2
  <2>3. Nth(s8, 4 * k + 6) = p
    <3> PICK h \in 1..n6 : h = 4 * k + 6 /\ h = n5 + 4 * g + 3
      OBVIOUS
    <3>1. Nth(s6, h) = p
      BY <1>6
    <3>2. Nth(s8, h) = Nth(s6, h)
      BY <1>9
    <3> QED
      BY <3>1, <3>2
  <2>4. Nth(s8, 4 * k + 7) = w
    <3> PICK h \in 1..n6 : h = 4 * k + 7 /\ h = n5 + 4 * g + 4
      OBVIOUS
    <3>1. Nth(s6, h) = w
      BY <1>6
    <3>2. Nth(s8, h) = Nth(s6, h)
      BY <1>9
    <3> QED
      BY <3>1, <3>2
  <2> QED
    BY <2>1, <2>2, <2>3, <2>4
<1>13. ASSUME NEW k \in 0..(2 * Iterations)
      PROVE  /\ Nth(s8, 4 * k + 4) = IF k < Iterations THEN lt ELSE l
             /\ Nth(s8, 4 * k + 5) = u
             /\ Nth(s8, 4 * k + 6) = p
             /\ Nth(s8, 4 * k + 7) = w
  BY <1>10, <1>11, <1>12
<1>14. Nth(s8, 1) = a /\ Nth(s8, 2) = b
  BY <1>1, <1>2, <1>3, <1>7, <1>8, <1>9, <1>13
<1>15. Nth(s8, 8 * Iterations + 8) = j /\ Nth(s8, 8 * Iterations + 9) = r
  BY <1>1, <1>2, <1>3, <1>7, <1>8, <1>9, <1>13
<1>16. \A k \in 0..(2 * Iterations) : Nth(s8, 4 * k + 4) = IF k < Iterations THEN lt ELSE l
  BY <1>1, <1>2, <1>3, <1>7, <1>8, <1>9, <1>13
<1>17. \A k \in 0..(2 * Iterations) : Nth(s8, 4 * k + 5) = u /\ Nth(s8, 4 * k + 6) = p
  BY <1>1, <1>2, <1>3, <1>7, <1>8, <1>9, <1>13
<1>18. ASSUME NEW k \in 0..(2 * Iterations + 1)
      PROVE  Nth(s8, 4 * k + 3) = w
  <2>1. CASE k = 0
    BY <2>1, <1>1, <1>2, <1>3, <1>7, <1>8, <1>9
  <2>2. CASE k # 0
    <3> PICK g \in 0..(2 * Iterations) : g = k - 1
      BY <2>2
    <3>1. 4 * k + 2 = 4 * g + 6 /\ 4 * k + 3 = 4 * g + 7
      OBVIOUS
    <3> QED
      BY <3>1, <1>13
  <2> QED
    BY <2>1, <2>2
<1> QED
  BY <1>8, <1>14, <1>15, <1>16, <1>17, <1>18 DEF s1, s2, s3, s4, s5, s6, s7, s8, Asking

\* The program of the low thread of 8_2.
Owning(a, l, p, u, ut, w, r) ==
  Then(Then(Then(Then(Then(Then(Then(One(a), One(l)), One(p)), Again4(Iterations, u, w, l, p)), Four(u, w, l, p)), Again4(Iterations, ut, w, l, p)), One(u)), One(r))

LEMMA OwningCalls ==
  ASSUME NEW a, NEW l, NEW p, NEW u, NEW ut, NEW w, NEW r, {a, l, p, u, ut, w, r} \subseteq Calls
  PROVE  /\ Sized(Owning(a, l, p, u, ut, w, r), 8 * Iterations + 9)
         /\ Nth(Owning(a, l, p, u, ut, w, r), 1) = a /\ Nth(Owning(a, l, p, u, ut, w, r), 8 * Iterations + 8) = u /\ Nth(Owning(a, l, p, u, ut, w, r), 8 * Iterations + 9) = r
         /\ \A k \in 0..(2 * Iterations) : Nth(Owning(a, l, p, u, ut, w, r), 4 * k + 4) = IF k > Iterations THEN ut ELSE u
         /\ \A k \in 0..(2 * Iterations) : Nth(Owning(a, l, p, u, ut, w, r), 4 * k + 5) = w
         /\ \A k \in 0..(2 * Iterations + 1) : Nth(Owning(a, l, p, u, ut, w, r), 4 * k + 2) = l /\ Nth(Owning(a, l, p, u, ut, w, r), 4 * k + 3) = p
<1>0. a \in Calls /\ l \in Calls /\ p \in Calls /\ u \in Calls /\ ut \in Calls /\ w \in Calls /\ r \in Calls
  OBVIOUS
<1>i. Iterations \in Nat
  BY RealtimeAssumption
<1> USE <1>0, <1>i
<1> DEFINE s1 == One(a)
           s2 == Then(s1, One(l))
           s3 == Then(s2, One(p))
           s4 == Then(s3, Again4(Iterations, u, w, l, p))
           s5 == Then(s4, Four(u, w, l, p))
           s6 == Then(s5, Again4(Iterations, ut, w, l, p))
           s7 == Then(s6, One(u))
           s8 == Then(s7, One(r))
<1> PICK n1 \in Nat : n1 = 1
  OBVIOUS
<1>1. Sized(s1, n1) /\ Nth(s1, 1) = a
  BY OneCall
<1> HIDE DEF s1
<1> PICK n2 \in Nat : n2 = n1 + 1
  OBVIOUS
<1>2. /\ Sized(s2, n2)
      /\ \A i \in 1..n1 : Nth(s2, i) = Nth(s1, i)
      /\ Nth(s2, n2) = l
  BY <1>1, ThenCall
<1> HIDE DEF s2
<1> PICK n3 \in Nat : n3 = n2 + 1
  OBVIOUS
<1>3. /\ Sized(s3, n3)
      /\ \A i \in 1..n2 : Nth(s3, i) = Nth(s2, i)
      /\ Nth(s3, n3) = p
  BY <1>2, ThenCall
<1> HIDE DEF s3
<1> PICK n4 \in Nat : n4 = n3 + 4 * Iterations
  OBVIOUS
<1>4. /\ Sized(s4, n4)
      /\ \A i \in 1..n3 : Nth(s4, i) = Nth(s3, i)
      /\ \A k \in 0..(Iterations - 1) :
           /\ Nth(s4, n3 + 4 * k + 1) = u
           /\ Nth(s4, n3 + 4 * k + 2) = w
           /\ Nth(s4, n3 + 4 * k + 3) = l
           /\ Nth(s4, n3 + 4 * k + 4) = p
  <2>1. Sized(s4, n3 + 4 * Iterations)
    BY <1>3, ThenAgain4
  <2>2. \A i \in 1..n3 : Nth(s4, i) = Nth(s3, i)
    BY <1>3, ThenAgain4
  <2>3. \A k \in 0..(Iterations - 1) : Nth(s4, n3 + 4 * k + 1) = u
    BY <1>3, ThenAgain4
  <2>4. \A k \in 0..(Iterations - 1) : Nth(s4, n3 + 4 * k + 2) = w
    BY <1>3, ThenAgain4
  <2>5. \A k \in 0..(Iterations - 1) : Nth(s4, n3 + 4 * k + 3) = l
    BY <1>3, ThenAgain4
  <2>6. \A k \in 0..(Iterations - 1) : Nth(s4, n3 + 4 * k + 4) = p
    BY <1>3, ThenAgain4
  <2> QED
    BY <2>1, <2>2, <2>3, <2>4, <2>5, <2>6
<1> HIDE DEF s4
<1> PICK n5 \in Nat : n5 = n4 + 4
  OBVIOUS
<1>5. /\ Sized(s5, n5)
      /\ \A i \in 1..n4 : Nth(s5, i) = Nth(s4, i)
      /\ Nth(s5, n4 + 1) = u
      /\ Nth(s5, n4 + 2) = w
      /\ Nth(s5, n4 + 3) = l
      /\ Nth(s5, n4 + 4) = p
  BY <1>4, ThenFour
<1> HIDE DEF s5
<1> PICK n6 \in Nat : n6 = n5 + 4 * Iterations
  OBVIOUS
<1>6. /\ Sized(s6, n6)
      /\ \A i \in 1..n5 : Nth(s6, i) = Nth(s5, i)
      /\ \A k \in 0..(Iterations - 1) :
           /\ Nth(s6, n5 + 4 * k + 1) = ut
           /\ Nth(s6, n5 + 4 * k + 2) = w
           /\ Nth(s6, n5 + 4 * k + 3) = l
           /\ Nth(s6, n5 + 4 * k + 4) = p
  <2>1. Sized(s6, n5 + 4 * Iterations)
    BY <1>5, ThenAgain4
  <2>2. \A i \in 1..n5 : Nth(s6, i) = Nth(s5, i)
    BY <1>5, ThenAgain4
  <2>3. \A k \in 0..(Iterations - 1) : Nth(s6, n5 + 4 * k + 1) = ut
    BY <1>5, ThenAgain4
  <2>4. \A k \in 0..(Iterations - 1) : Nth(s6, n5 + 4 * k + 2) = w
    BY <1>5, ThenAgain4
  <2>5. \A k \in 0..(Iterations - 1) : Nth(s6, n5 + 4 * k + 3) = l
    BY <1>5, ThenAgain4
  <2>6. \A k \in 0..(Iterations - 1) : Nth(s6, n5 + 4 * k + 4) = p
    BY <1>5, ThenAgain4
  <2> QED
    BY <2>1, <2>2, <2>3, <2>4, <2>5, <2>6
<1> HIDE DEF s6
<1> PICK n7 \in Nat : n7 = n6 + 1
  OBVIOUS
<1>7. /\ Sized(s7, n7)
      /\ \A i \in 1..n6 : Nth(s7, i) = Nth(s6, i)
      /\ Nth(s7, n7) = u
  BY <1>6, ThenCall
<1> HIDE DEF s7
<1> PICK n8 \in Nat : n8 = n7 + 1
  OBVIOUS
<1>8. /\ Sized(s8, n8)
      /\ \A i \in 1..n7 : Nth(s8, i) = Nth(s7, i)
      /\ Nth(s8, n8) = r
  BY <1>7, ThenCall
<1> HIDE DEF s8
<1>9. /\ \A i \in 1..n1 : Nth(s8, i) = Nth(s1, i)
      /\ \A i \in 1..n2 : Nth(s8, i) = Nth(s2, i)
      /\ \A i \in 1..n3 : Nth(s8, i) = Nth(s3, i)
      /\ \A i \in 1..n4 : Nth(s8, i) = Nth(s4, i)
      /\ \A i \in 1..n5 : Nth(s8, i) = Nth(s5, i)
      /\ \A i \in 1..n6 : Nth(s8, i) = Nth(s6, i)
      /\ \A i \in 1..n7 : Nth(s8, i) = Nth(s7, i)
  BY <1>2, <1>3, <1>4, <1>5, <1>6, <1>7, <1>8
<1>10. ASSUME NEW k \in 0..(Iterations - 1)
      PROVE  /\ Nth(s8, 4 * k + 4) = u
             /\ Nth(s8, 4 * k + 5) = w
             /\ Nth(s8, 4 * k + 6) = l
             /\ Nth(s8, 4 * k + 7) = p
  <2>1. Nth(s8, 4 * k + 4) = u
    <3> PICK h \in 1..n4 : h = 4 * k + 4 /\ h = n3 + 4 * k + 1
      OBVIOUS
    <3>1. Nth(s4, h) = u
      BY <1>4
    <3>2. Nth(s8, h) = Nth(s4, h)
      BY <1>9
    <3> QED
      BY <3>1, <3>2
  <2>2. Nth(s8, 4 * k + 5) = w
    <3> PICK h \in 1..n4 : h = 4 * k + 5 /\ h = n3 + 4 * k + 2
      OBVIOUS
    <3>1. Nth(s4, h) = w
      BY <1>4
    <3>2. Nth(s8, h) = Nth(s4, h)
      BY <1>9
    <3> QED
      BY <3>1, <3>2
  <2>3. Nth(s8, 4 * k + 6) = l
    <3> PICK h \in 1..n4 : h = 4 * k + 6 /\ h = n3 + 4 * k + 3
      OBVIOUS
    <3>1. Nth(s4, h) = l
      BY <1>4
    <3>2. Nth(s8, h) = Nth(s4, h)
      BY <1>9
    <3> QED
      BY <3>1, <3>2
  <2>4. Nth(s8, 4 * k + 7) = p
    <3> PICK h \in 1..n4 : h = 4 * k + 7 /\ h = n3 + 4 * k + 4
      OBVIOUS
    <3>1. Nth(s4, h) = p
      BY <1>4
    <3>2. Nth(s8, h) = Nth(s4, h)
      BY <1>9
    <3> QED
      BY <3>1, <3>2
  <2> QED
    BY <2>1, <2>2, <2>3, <2>4
<1>11. /\ Nth(s8, 4 * Iterations + 4) = u
      /\ Nth(s8, 4 * Iterations + 5) = w
      /\ Nth(s8, 4 * Iterations + 6) = l
      /\ Nth(s8, 4 * Iterations + 7) = p
  <2>1. Nth(s8, 4 * Iterations + 4) = u
    <3> PICK h \in 1..n5 : h = 4 * Iterations + 4 /\ h = n4 + 1
      OBVIOUS
    <3>1. Nth(s5, h) = u
      BY <1>5
    <3>2. Nth(s8, h) = Nth(s5, h)
      BY <1>9
    <3> QED
      BY <3>1, <3>2
  <2>2. Nth(s8, 4 * Iterations + 5) = w
    <3> PICK h \in 1..n5 : h = 4 * Iterations + 5 /\ h = n4 + 2
      OBVIOUS
    <3>1. Nth(s5, h) = w
      BY <1>5
    <3>2. Nth(s8, h) = Nth(s5, h)
      BY <1>9
    <3> QED
      BY <3>1, <3>2
  <2>3. Nth(s8, 4 * Iterations + 6) = l
    <3> PICK h \in 1..n5 : h = 4 * Iterations + 6 /\ h = n4 + 3
      OBVIOUS
    <3>1. Nth(s5, h) = l
      BY <1>5
    <3>2. Nth(s8, h) = Nth(s5, h)
      BY <1>9
    <3> QED
      BY <3>1, <3>2
  <2>4. Nth(s8, 4 * Iterations + 7) = p
    <3> PICK h \in 1..n5 : h = 4 * Iterations + 7 /\ h = n4 + 4
      OBVIOUS
    <3>1. Nth(s5, h) = p
      BY <1>5
    <3>2. Nth(s8, h) = Nth(s5, h)
      BY <1>9
    <3> QED
      BY <3>1, <3>2
  <2> QED
    BY <2>1, <2>2, <2>3, <2>4
<1>12. ASSUME NEW k \in (Iterations + 1)..(2 * Iterations)
      PROVE  /\ Nth(s8, 4 * k + 4) = ut
             /\ Nth(s8, 4 * k + 5) = w
             /\ Nth(s8, 4 * k + 6) = l
             /\ Nth(s8, 4 * k + 7) = p
  <2> PICK g \in 0..(Iterations - 1) : g = k - Iterations - 1
    OBVIOUS
  <2>1. Nth(s8, 4 * k + 4) = ut
    <3> PICK h \in 1..n6 : h = 4 * k + 4 /\ h = n5 + 4 * g + 1
      OBVIOUS
    <3>1. Nth(s6, h) = ut
      BY <1>6
    <3>2. Nth(s8, h) = Nth(s6, h)
      BY <1>9
    <3> QED
      BY <3>1, <3>2
  <2>2. Nth(s8, 4 * k + 5) = w
    <3> PICK h \in 1..n6 : h = 4 * k + 5 /\ h = n5 + 4 * g + 2
      OBVIOUS
    <3>1. Nth(s6, h) = w
      BY <1>6
    <3>2. Nth(s8, h) = Nth(s6, h)
      BY <1>9
    <3> QED
      BY <3>1, <3>2
  <2>3. Nth(s8, 4 * k + 6) = l
    <3> PICK h \in 1..n6 : h = 4 * k + 6 /\ h = n5 + 4 * g + 3
      OBVIOUS
    <3>1. Nth(s6, h) = l
      BY <1>6
    <3>2. Nth(s8, h) = Nth(s6, h)
      BY <1>9
    <3> QED
      BY <3>1, <3>2
  <2>4. Nth(s8, 4 * k + 7) = p
    <3> PICK h \in 1..n6 : h = 4 * k + 7 /\ h = n5 + 4 * g + 4
      OBVIOUS
    <3>1. Nth(s6, h) = p
      BY <1>6
    <3>2. Nth(s8, h) = Nth(s6, h)
      BY <1>9
    <3> QED
      BY <3>1, <3>2
  <2> QED
    BY <2>1, <2>2, <2>3, <2>4
<1>13. ASSUME NEW k \in 0..(2 * Iterations)
      PROVE  /\ Nth(s8, 4 * k + 4) = IF k > Iterations THEN ut ELSE u
             /\ Nth(s8, 4 * k + 5) = w
             /\ Nth(s8, 4 * k + 6) = l
             /\ Nth(s8, 4 * k + 7) = p
  BY <1>10, <1>11, <1>12
<1>14. Nth(s8, 1) = a /\ Nth(s8, 8 * Iterations + 8) = u /\ Nth(s8, 8 * Iterations + 9) = r
  BY <1>1, <1>2, <1>3, <1>7, <1>8, <1>9, <1>13
<1>15. \A k \in 0..(2 * Iterations) : Nth(s8, 4 * k + 4) = IF k > Iterations THEN ut ELSE u
  BY <1>1, <1>2, <1>3, <1>7, <1>8, <1>9, <1>13
<1>16. \A k \in 0..(2 * Iterations) : Nth(s8, 4 * k + 5) = w
  BY <1>1, <1>2, <1>3, <1>7, <1>8, <1>9, <1>13
<1>17. ASSUME NEW k \in 0..(2 * Iterations + 1)
      PROVE  Nth(s8, 4 * k + 2) = l /\ Nth(s8, 4 * k + 3) = p
  <2>1. CASE k = 0
    BY <2>1, <1>1, <1>2, <1>3, <1>7, <1>8, <1>9
  <2>2. CASE k # 0
    <3> PICK g \in 0..(2 * Iterations) : g = k - 1
      BY <2>2
    <3>1. 4 * k + 2 = 4 * g + 6 /\ 4 * k + 3 = 4 * g + 7
      OBVIOUS
    <3> QED
      BY <3>1, <1>13
  <2> QED
    BY <2>1, <2>2
<1> QED
  BY <1>8, <1>14, <1>15, <1>16, <1>17 DEF s1, s2, s3, s4, s5, s6, s7, s8, Owning

LEMMA ThenSequence ==
  ASSUME NEW s \in Seq(Calls), NEW t \in Seq(Calls)
  PROVE  Then(s, t) \in Seq(Calls)
  BY DEF Then

LEMMA SameCalls ==
  ASSUME NEW s, NEW t, NEW n \in Nat, Sized(s, n), Sized(t, n), \A i \in 1..n : Nth(s, i) = Nth(t, i)
  PROVE  s = t
  BY SeqEqual DEF Sized, Nth

Two(a, b) == <<a, b>>
Three(a, b, c) == <<a, b, c>>

LEMMA Tuples ==
  ASSUME NEW a \in Calls, NEW b \in Calls, NEW c \in Calls, NEW d \in Calls
  PROVE  /\ Then(One(a), One(b)) = Two(a, b)
         /\ Then(One(a), Three(b, c, d)) = Four(a, b, c, d)
<1>1. Sized(Two(a, b), 2) /\ Nth(Two(a, b), 1) = a /\ Nth(Two(a, b), 2) = b
  <2>1. Sized(Two(a, b), 2)
    BY DEF Sized, Two
  <2>2. Nth(Two(a, b), 1) = a /\ Nth(Two(a, b), 2) = b
    BY DEF Nth, Two
  <2> QED
    BY <2>1, <2>2
<1>2. \A i \in 1..2 : Nth(Then(One(a), One(b)), i) = Nth(Two(a, b), i)
  BY <1>1, TwoCalls
<1>3. Then(One(a), One(b)) = Two(a, b)
  BY <1>1, <1>2, TwoCalls, SameCalls
<1>4. /\ Sized(Three(b, c, d), 3)
      /\ Nth(Three(b, c, d), 1) = b /\ Nth(Three(b, c, d), 2) = c /\ Nth(Three(b, c, d), 3) = d
  <2>1. Sized(Three(b, c, d), 3)
    BY DEF Sized, Three
  <2>2. Nth(Three(b, c, d), 1) = b /\ Nth(Three(b, c, d), 2) = c /\ Nth(Three(b, c, d), 3) = d
    BY DEF Nth, Three
  <2> QED
    BY <2>1, <2>2
<1>5. /\ Sized(Four(a, b, c, d), 4) /\ Nth(Four(a, b, c, d), 1) = a
      /\ Nth(Four(a, b, c, d), 2) = b /\ Nth(Four(a, b, c, d), 3) = c /\ Nth(Four(a, b, c, d), 4) = d
  <2>1. Sized(Four(a, b, c, d), 4)
    BY DEF Sized, Four
  <2>2. /\ Nth(Four(a, b, c, d), 1) = a /\ Nth(Four(a, b, c, d), 2) = b
        /\ Nth(Four(a, b, c, d), 3) = c /\ Nth(Four(a, b, c, d), 4) = d
    BY DEF Nth, Four
  <2> QED
    BY <2>1, <2>2
<1> DEFINE s == Then(One(a), Three(b, c, d))
<1>6. /\ Sized(s, 1 + 3) /\ \A i \in 1..1 : Nth(s, i) = Nth(One(a), i)
      /\ \A i \in 1..3 : Nth(s, 1 + i) = Nth(Three(b, c, d), i)
  BY <1>4, OneCall, ThenCalls
<1> HIDE DEF s
<1>7. Nth(s, 1) = a /\ Nth(s, 2) = b /\ Nth(s, 3) = c /\ Nth(s, 4) = d
  <2>1. Nth(s, 1 + 1) = b /\ Nth(s, 1 + 2) = c /\ Nth(s, 1 + 3) = d
    BY <1>4, <1>6
  <2> QED
    BY <2>1, <1>6, OneCall
<1>8. \A i \in 1..4 : Nth(s, i) = Nth(Four(a, b, c, d), i)
  BY <1>5, <1>7
<1>9. s = Four(a, b, c, d)
  BY <1>5, <1>6, <1>8, SameCalls
<1> QED
  BY <1>3, <1>9 DEF s

LEMMA TwoThen ==
  ASSUME NEW s \in Seq(Calls), NEW a \in Calls, NEW b \in Calls
  PROVE  s \o <<a, b>> = s \o <<a>> \o <<b>>
<1>1. Then(One(a), One(b)) = Two(a, b)
  BY Tuples
<1>2. One(a) \in Seq(Calls) /\ One(b) \in Seq(Calls)
  BY OneCall DEF Sized
<1>4. ASSUME NEW p \in Seq(Calls), NEW q \in Seq(Calls) PROVE s \o (p \o q) = (s \o p) \o q
  BY ConcatAssociative
<1>3. s \o (One(a) \o One(b)) = (s \o One(a)) \o One(b)
  BY <1>2, <1>4, Zenon
<1> QED
  BY <1>1, <1>3, Zenon DEF Then, One, Two

LEMMA HandingLow ==
  ASSUME Test \in {"4_2", "6_2", "6_4"}
  PROVE  LET p == Program("low") IN
    /\ p \in Seq(Calls) /\ Len(p) = 2 * Iterations + 4
    /\ Nth(p, 1) = Call("sleep", "cpu 0")
    /\ \A i \in 2..(2 * Iterations + 3) : Nth(p, i) = IF i >= Iterations + 4 THEN Timed(LowCall, "resumes higher") ELSE LowCall
    /\ Nth(p, 2 * Iterations + 4) = Call("return", "low")
<1> DEFINE a == Call("sleep", "cpu 0")
           c == LowCall
           d == Timed(LowCall, "resumes higher")
           f == Call("return", "low")
           s == Giving(a, c, d, f)
<1>1. Program("low") = s
  <2>1. <<c>> \o <<>> = <<c>> /\ <<d>> \o <<>> = <<d>>
    OBVIOUS
  <2>2. Test # "8_2" /\ Test \in Suspending
    BY DEF Suspending
  <2>3. Bind \o <<c>> \o Times(Iterations, <<c>>) \o <<c>> \o Times(Iterations, <<d>>) \o <<>>
          = Bind \o <<c>> \o Times(Iterations, <<c>>) \o <<c>> \o Times(Iterations, <<d>>)
    <3> DEFINE q == Then(Then(Then(Then(One(a), One(c)), Again1(Iterations, c)), One(c)), Again1(Iterations, d))
    <3>1. {a, c, d, f} \subseteq Calls
      BY CallTypes
    <3> HIDE DEF a, c, d, f
    <3>2. q \in Seq(Calls)
      <4>1. Again1(Iterations, c) \in Seq(Calls) /\ Again1(Iterations, d) \in Seq(Calls)
        BY <3>1, RealtimeAssumption, Repeated1 DEF Sized
      <4>2. One(a) \in Seq(Calls) /\ One(c) \in Seq(Calls)
        BY <3>1, OneCall DEF Sized
      <4> QED
        BY <4>1, <4>2, ThenSequence
    <3> HIDE DEF q
    <3>3. q \o <<>> = q
      BY <3>2
    <3> QED
      BY <3>3, Zenon DEF q, One, Then, Again1, Bind, a
  <2> HIDE DEF c, d
  <2>4. LowRest = <<>>
    BY <2>2 DEF LowRest
  <2> QED
    BY <2>1, <2>2, <2>3, <2>4, Zenon DEF Program, ResumingProgram, Bind, One, Again1, Then, Giving, c, d
<1>2. {a, c, d, f} \subseteq Calls
  BY CallTypes DEF Semaphores
<1>5. Iterations \in Nat
  BY RealtimeAssumption
<1>3. Sized(s, 2 * Iterations + 4) => s \in Seq(Calls) /\ Len(s) = 2 * Iterations + 4
  BY DEF Sized
<1> HIDE DEF a, c, d, f
<1>4. /\ Sized(s, 2 * Iterations + 4)
      /\ Nth(s, 1) = a
      /\ \A i \in 2..(2 * Iterations + 3) : Nth(s, i) = IF i >= Iterations + 4 THEN d ELSE c
      /\ Nth(s, 2 * Iterations + 4) = f
  BY <1>2, <1>5, GivingCalls
<1> HIDE DEF s
<1> QED
  BY <1>1, <1>3, <1>4 DEF a, c, d, f

LEMMA LockerHigh ==
  ASSUME Test = "8_2"
  PROVE  LET p == Program("high") IN
    /\ p \in Seq(Calls) /\ Len(p) = 8 * Iterations + 9
    /\ Nth(p, 1) = Call("sleep", "cpu 0") /\ Nth(p, 2) = Call("create", "low")
    /\ Nth(p, 8 * Iterations + 8) = Call("join", "low") /\ Nth(p, 8 * Iterations + 9) = Call("return", "high")
    /\ \A k \in 0..(2 * Iterations) : Nth(p, 4 * k + 4) = IF k < Iterations THEN Timed(Lock, "suspends") ELSE Lock
    /\ \A k \in 0..(2 * Iterations) : Nth(p, 4 * k + 5) = Unlock /\ Nth(p, 4 * k + 6) = Post("to_unlocker")
    /\ \A k \in 0..(2 * Iterations + 1) : Nth(p, 4 * k + 3) = Wait("to_locker")
<1> DEFINE a == Call("sleep", "cpu 0")
           b == Call("create", "low")
           w == Wait("to_locker")
           l == Lock
           lt == Timed(Lock, "suspends")
           u == Unlock
           p == Post("to_unlocker")
           j == Call("join", "low")
           r == Call("return", "high")
           s == Asking(a, b, w, l, lt, u, p, j, r)
<1>1. Program("high") = s
  <2>0. {l, lt, u, p, w} \subseteq Calls
    BY CallTypes DEF Semaphores
  <2> HIDE DEF l, lt, u, p, w
  <2>1. <<l>> \o <<u, p, w>> = <<l, u, p, w>> /\ <<lt>> \o <<u, p, w>> = <<lt, u, p, w>>
    <3>1. Then(One(l), Three(u, p, w)) = Four(l, u, p, w) /\ Then(One(lt), Three(u, p, w)) = Four(lt, u, p, w)
      BY <2>0, Tuples
    <3> QED
      BY <3>1, Zenon DEF Then, One, Three, Four
  <2> USE DEF l, lt, u, p, w
  <2>2. Test \in Suspending
    BY DEF Suspending
  <2>3. HighRest = <<u, p, w>> /\ HighCall = l
    BY DEF HighRest, HighCall
  <2> HIDE DEF l, lt, u, p, w
  <2>4. lt = Timed(l, "suspends") /\ w = Wait("to_locker")
    BY DEF l, lt, w
  <2> QED
    BY <2>1, <2>2, <2>3, <2>4, Zenon DEF Program, SuspendedProgram, Bind, One, Again4, Four, Then, Asking
<1>2. {a, b, w, l, lt, u, p, j, r} \subseteq Calls
  BY CallTypes DEF Semaphores
<1>5. Iterations \in Nat
  BY RealtimeAssumption
<1>3. Sized(s, 8 * Iterations + 9) => s \in Seq(Calls) /\ Len(s) = 8 * Iterations + 9
  BY DEF Sized
<1> HIDE DEF a, b, w, l, lt, u, p, j, r
<1>4. /\ Sized(s, 8 * Iterations + 9)
      /\ Nth(s, 1) = a /\ Nth(s, 2) = b
      /\ Nth(s, 8 * Iterations + 8) = j /\ Nth(s, 8 * Iterations + 9) = r
      /\ \A k \in 0..(2 * Iterations) : Nth(s, 4 * k + 4) = IF k < Iterations THEN lt ELSE l
      /\ \A k \in 0..(2 * Iterations) : Nth(s, 4 * k + 5) = u /\ Nth(s, 4 * k + 6) = p
      /\ \A k \in 0..(2 * Iterations + 1) : Nth(s, 4 * k + 3) = w
  BY <1>2, <1>5, AskingCalls
<1> HIDE DEF s
<1> QED
  BY <1>1, <1>3, <1>4 DEF a, b, w, l, lt, u, p, j, r

LEMMA LockerLow ==
  ASSUME Test = "8_2"
  PROVE  LET p == Program("low") IN
    /\ p \in Seq(Calls) /\ Len(p) = 8 * Iterations + 9
    /\ Nth(p, 1) = Call("sleep", "cpu 0") /\ Nth(p, 8 * Iterations + 8) = Unlock /\ Nth(p, 8 * Iterations + 9) = Call("return", "low")
    /\ \A k \in 0..(2 * Iterations) : Nth(p, 4 * k + 4) = IF k > Iterations THEN Timed(Unlock, "resumes higher") ELSE Unlock
    /\ \A k \in 0..(2 * Iterations) : Nth(p, 4 * k + 5) = Wait("to_unlocker")
    /\ \A k \in 0..(2 * Iterations + 1) : Nth(p, 4 * k + 2) = Lock /\ Nth(p, 4 * k + 3) = Post("to_locker")
<1> DEFINE a == Call("sleep", "cpu 0")
           l == Lock
           p == Post("to_locker")
           u == Unlock
           ut == Timed(Unlock, "resumes higher")
           w == Wait("to_unlocker")
           r == Call("return", "low")
           s == Owning(a, l, p, u, ut, w, r)
<1>1. Program("low") = s
  <2>0. {l, p, u, ut, w} \subseteq Calls
    BY CallTypes DEF Semaphores
  <2> HIDE DEF l, p, u, ut, w
  <2>1. <<u>> \o <<w, l, p>> = <<u, w, l, p>> /\ <<ut>> \o <<w, l, p>> = <<ut, w, l, p>>
    <3>1. Then(One(u), Three(w, l, p)) = Four(u, w, l, p) /\ Then(One(ut), Three(w, l, p)) = Four(ut, w, l, p)
      BY <2>0, Tuples
    <3> QED
      BY <3>1, Zenon DEF Then, One, Three, Four
  <2> USE DEF l, p, u, ut, w
  <2>2. Test \in Suspending
    BY DEF Suspending
  <2>3. LowRest = <<w, l, p>> /\ LowCall = u
    BY DEF LowRest, LowCall
  <2>5. l \in Calls /\ p \in Calls
    BY CallTypes DEF Semaphores
  <2>6. Bind \o <<l, p>> = Bind \o <<l>> \o <<p>>
    <3>1. One(a) \in Seq(Calls)
      BY CallTypes, OneCall DEF Sized
    <3> HIDE DEF a, l, p
    <3>2. One(a) \o <<l, p>> = One(a) \o <<l>> \o <<p>>
      BY <2>5, <3>1, TwoThen, Zenon
    <3> QED
      BY <3>2, Zenon DEF One, Bind, a
  <2> HIDE DEF l, p, u, ut, w
  <2>4. ut = Timed(u, "resumes higher") /\ l = Lock /\ p = Post("to_locker") /\ u = Unlock
    BY DEF l, p, u, ut
  <2> QED
    BY <2>1, <2>2, <2>3, <2>4, <2>6, Zenon DEF Program, ResumingProgram, Bind, One, Again4, Four, Then, Owning
<1>2. {a, l, p, u, ut, w, r} \subseteq Calls
  BY CallTypes DEF Semaphores
<1>5. Iterations \in Nat
  BY RealtimeAssumption
<1>3. Sized(s, 8 * Iterations + 9) => s \in Seq(Calls) /\ Len(s) = 8 * Iterations + 9
  BY DEF Sized
<1> HIDE DEF a, l, p, u, ut, w, r
<1>4. /\ Sized(s, 8 * Iterations + 9)
      /\ Nth(s, 1) = a /\ Nth(s, 8 * Iterations + 8) = u /\ Nth(s, 8 * Iterations + 9) = r
      /\ \A k \in 0..(2 * Iterations) : Nth(s, 4 * k + 4) = IF k > Iterations THEN ut ELSE u
      /\ \A k \in 0..(2 * Iterations) : Nth(s, 4 * k + 5) = w
      /\ \A k \in 0..(2 * Iterations + 1) : Nth(s, 4 * k + 2) = l /\ Nth(s, 4 * k + 3) = p
  BY <1>2, <1>5, OwningCalls
<1> HIDE DEF s
<1> QED
  BY <1>1, <1>3, <1>4 DEF a, l, p, u, ut, w, r

LEMMA ReadyingHigh ==
  ASSUME Test \in {"5_3", "6_3", "7_3"}
  PROVE  LET p == Program("high") IN
    /\ p \in Seq(Calls) /\ Len(p) = 3 * Iterations + 6
    /\ Nth(p, 1) = Call("sleep", "cpu 0") /\ Nth(p, 2) = Call("create", "middle") /\ Nth(p, 3) = Call("create", "low")
    /\ \A k \in 0..(Iterations - 1) : Nth(p, 3 * k + 4) = Post("to_assist") /\ Nth(p, 3 * k + 5) = Wait("to_highest") /\ Nth(p, 3 * k + 6) = Timed(ReadyingCall, "readies lower")
    /\ Nth(p, 3 * Iterations + 4) = Call("join", "middle") /\ Nth(p, 3 * Iterations + 5) = Call("join", "low") /\ Nth(p, 3 * Iterations + 6) = Call("return", "high")
<1> DEFINE a == Call("sleep", "cpu 0")
           b == Call("create", "middle")
           c == Call("create", "low")
           x == Post("to_assist")
           y == Wait("to_highest")
           z == Timed(ReadyingCall, "readies lower")
           j == Call("join", "middle")
           l == Call("join", "low")
           r == Call("return", "high")
           s == Leading3(a, b, c, x, y, z, j, l, r)
<1>1. Program("high") = s
  <2>1. <<>> \o <<x, y, z>> = <<x, y, z>>
    OBVIOUS
  <2>2. Test # "9_3" /\ Test \notin Suspending
    BY DEF Suspending
  <2>5. {a, b, c, x, y, z, j, l, r} \subseteq Calls
    BY CallTypes DEF Semaphores
  <2> HIDE DEF a, b, c, x, y, z, j, l, r
  <2>6. <<a>> \o <<b, c>> = <<a>> \o <<b>> \o <<c>>
    <3>1. One(a) \in Seq(Calls)
      BY <2>5, OneCall DEF Sized
    <3>2. One(a) \o <<b, c>> = One(a) \o <<b>> \o <<c>>
      BY <2>5, <3>1, TwoThen
    <3> QED
      BY <3>2, Zenon DEF One
  <2> DEFINE q == Then(Then(Then(One(a), One(b)), One(c)), Again3(Iterations, x, y, z))
  <2>7. q \in Seq(Calls)
    <3>1. Again3(Iterations, x, y, z) \in Seq(Calls)
      BY <2>5, RealtimeAssumption, Repeated3 DEF Sized
    <3>2. One(a) \in Seq(Calls) /\ One(b) \in Seq(Calls) /\ One(c) \in Seq(Calls)
      BY <2>5, OneCall DEF Sized
    <3> QED
      BY <3>1, <3>2, ThenSequence
  <2> HIDE DEF q
  <2>8. q \o <<j, l>> = q \o <<j>> \o <<l>>
    BY <2>5, <2>7, TwoThen
  <2> QED
    BY <2>1, <2>2, <2>6, <2>8, Zenon DEF q, Program, ReadyingProgram, Bind, One, Again3, Then, Leading3, a, b, c, x, y, z, j, l, r
<1>2. {a, b, c, x, y, z, j, l, r} \subseteq Calls
  BY CallTypes DEF Semaphores
<1>5. Iterations \in Nat
  BY RealtimeAssumption
<1>3. Sized(s, 3 * Iterations + 6) => s \in Seq(Calls) /\ Len(s) = 3 * Iterations + 6
  BY DEF Sized
<1> HIDE DEF a, b, c, x, y, z, j, l, r
<1>4. /\ Sized(s, 3 * Iterations + 6)
      /\ Nth(s, 1) = a /\ Nth(s, 2) = b /\ Nth(s, 3) = c
      /\ \A k \in 0..(Iterations - 1) : Nth(s, 3 * k + 4) = x /\ Nth(s, 3 * k + 5) = y /\ Nth(s, 3 * k + 6) = z
      /\ Nth(s, 3 * Iterations + 4) = j /\ Nth(s, 3 * Iterations + 5) = l /\ Nth(s, 3 * Iterations + 6) = r
  BY <1>2, <1>5, Leading3Calls
<1> HIDE DEF s
<1> QED
  BY <1>1, <1>3, <1>4 DEF a, b, c, x, y, z, j, l, r

LEMMA ReadyingMutexHigh ==
  ASSUME Test = "9_3"
  PROVE  LET p == Program("high") IN
    /\ p \in Seq(Calls) /\ Len(p) = 4 * Iterations + 6
    /\ Nth(p, 1) = Call("sleep", "cpu 0") /\ Nth(p, 2) = Call("create", "middle") /\ Nth(p, 3) = Call("create", "low")
    /\ \A k \in 0..(Iterations - 1) : Nth(p, 4 * k + 4) = Lock /\ Nth(p, 4 * k + 5) = Post("to_assist")
    /\ \A k \in 0..(Iterations - 1) : Nth(p, 4 * k + 6) = Wait("to_highest") /\ Nth(p, 4 * k + 7) = Timed(ReadyingCall, "readies lower")
    /\ Nth(p, 4 * Iterations + 4) = Call("join", "middle") /\ Nth(p, 4 * Iterations + 5) = Call("join", "low") /\ Nth(p, 4 * Iterations + 6) = Call("return", "high")
<1> DEFINE a == Call("sleep", "cpu 0")
           b == Call("create", "middle")
           c == Call("create", "low")
           w == Lock
           x == Post("to_assist")
           y == Wait("to_highest")
           z == Timed(ReadyingCall, "readies lower")
           j == Call("join", "middle")
           l == Call("join", "low")
           r == Call("return", "high")
           s == Leading4(a, b, c, w, x, y, z, j, l, r)
<1>1. Program("high") = s
  <2>0. {w, x, y, z} \subseteq Calls
    BY CallTypes DEF Semaphores
  <2> HIDE DEF w, x, y, z
  <2>1. <<w>> \o <<x, y, z>> = <<w, x, y, z>>
    <3>1. Then(One(w), Three(x, y, z)) = Four(w, x, y, z)
      BY <2>0, Tuples
    <3> QED
      BY <3>1, Zenon DEF Then, One, Three, Four
  <2> USE DEF w, x, y, z
  <2>2. Test = "9_3" /\ Test \notin Suspending
    BY DEF Suspending
  <2>5. {a, b, c, w, x, y, z, j, l, r} \subseteq Calls
    BY CallTypes DEF Semaphores
  <2> HIDE DEF a, b, c, w, x, y, z, j, l, r
  <2>6. <<a>> \o <<b, c>> = <<a>> \o <<b>> \o <<c>>
    <3>1. One(a) \in Seq(Calls)
      BY <2>5, OneCall DEF Sized
    <3>2. One(a) \o <<b, c>> = One(a) \o <<b>> \o <<c>>
      BY <2>5, <3>1, TwoThen
    <3> QED
      BY <3>2, Zenon DEF One
  <2> DEFINE q == Then(Then(Then(One(a), One(b)), One(c)), Again4(Iterations, w, x, y, z))
  <2>7. q \in Seq(Calls)
    <3>1. Again4(Iterations, w, x, y, z) \in Seq(Calls)
      BY <2>5, RealtimeAssumption, Repeated4 DEF Sized
    <3>2. One(a) \in Seq(Calls) /\ One(b) \in Seq(Calls) /\ One(c) \in Seq(Calls)
      BY <2>5, OneCall DEF Sized
    <3> QED
      BY <3>1, <3>2, ThenSequence
  <2> HIDE DEF q
  <2>8. q \o <<j, l>> = q \o <<j>> \o <<l>>
    BY <2>5, <2>7, TwoThen
  <2> QED
    BY <2>1, <2>2, <2>6, <2>8, Zenon DEF q, Program, ReadyingProgram, Bind, One, Again4, Then, Leading4, a, b, c, w, x, y, z, j, l, r
<1>2. {a, b, c, w, x, y, z, j, l, r} \subseteq Calls
  BY CallTypes DEF Semaphores
<1>5. Iterations \in Nat
  BY RealtimeAssumption
<1>3. Sized(s, 4 * Iterations + 6) => s \in Seq(Calls) /\ Len(s) = 4 * Iterations + 6
  BY DEF Sized
<1> HIDE DEF a, b, c, w, x, y, z, j, l, r
<1>4. /\ Sized(s, 4 * Iterations + 6)
      /\ Nth(s, 1) = a /\ Nth(s, 2) = b /\ Nth(s, 3) = c
      /\ \A k \in 0..(Iterations - 1) : Nth(s, 4 * k + 4) = w /\ Nth(s, 4 * k + 5) = x
      /\ \A k \in 0..(Iterations - 1) : Nth(s, 4 * k + 6) = y /\ Nth(s, 4 * k + 7) = z
      /\ Nth(s, 4 * Iterations + 4) = j /\ Nth(s, 4 * Iterations + 5) = l /\ Nth(s, 4 * Iterations + 6) = r
  BY <1>2, <1>5, Leading4Calls
<1> HIDE DEF s
<1> QED
  BY <1>1, <1>3, <1>4 DEF a, b, c, w, x, y, z, j, l, r

LEMMA MiddleServes ==
  ASSUME Test \in {"5_3", "6_3", "7_3"}
  PROVE  LET p == Program("middle") IN
    /\ p \in Seq(Calls) /\ Len(p) = Iterations + 2
    /\ Nth(p, 1) = Call("sleep", "cpu 0") /\ Nth(p, Iterations + 2) = Call("return", "middle")
    /\ \A k \in 0..(Iterations - 1) : Nth(p, k + 2) = MiddleCall
<1> DEFINE a == Call("sleep", "cpu 0")
           c == MiddleCall
           r == Call("return", "middle")
           s == Serving1(a, c, r)
<1>1. Program("middle") = s
  <2>1. (IF Test = "5_3" THEN <<Wait("test_object")>> ELSE IF Test = "6_3" THEN <<Receive>>
          ELSE IF Test = "7_3" THEN <<Send>> ELSE <<Lock, Unlock>>) = <<c>>
    BY DEF MiddleCall
  <2> QED
    BY <2>1, Zenon DEF Program, MiddleProgram, Bind, One, Again1, Then, Serving1
<1>2. {a, c, r} \subseteq Calls
  BY CallTypes DEF Semaphores
<1>5. Iterations \in Nat
  BY RealtimeAssumption
<1>3. Sized(s, Iterations + 2) => s \in Seq(Calls) /\ Len(s) = Iterations + 2
  BY DEF Sized
<1> HIDE DEF a, c, r
<1>4. /\ Sized(s, Iterations + 2)
      /\ Nth(s, 1) = a /\ Nth(s, Iterations + 2) = r
      /\ \A k \in 0..(Iterations - 1) : Nth(s, k + 2) = c
  BY <1>2, <1>5, Serving1Calls
<1> HIDE DEF s
<1> QED
  BY <1>1, <1>3, <1>4 DEF a, c, r

LEMMA MiddleLocks ==
  ASSUME Test \notin {"5_3", "6_3", "7_3"}
  PROVE  LET p == Program("middle") IN
    /\ p \in Seq(Calls) /\ Len(p) = 2 * Iterations + 2
    /\ Nth(p, 1) = Call("sleep", "cpu 0") /\ Nth(p, 2 * Iterations + 2) = Call("return", "middle")
    /\ \A k \in 0..(Iterations - 1) : Nth(p, 2 * k + 2) = Lock /\ Nth(p, 2 * k + 3) = Unlock
<1> DEFINE a == Call("sleep", "cpu 0")
           c == Lock
           d == Unlock
           r == Call("return", "middle")
           s == Serving2(a, c, d, r)
<1>1. Program("middle") = s
  <2>1. (IF Test = "5_3" THEN <<Wait("test_object")>> ELSE IF Test = "6_3" THEN <<Receive>>
          ELSE IF Test = "7_3" THEN <<Send>> ELSE <<Lock, Unlock>>) = <<c, d>>
    OBVIOUS
  <2> QED
    BY <2>1, Zenon DEF Program, MiddleProgram, Bind, One, Again2, Then, Serving2
<1>2. {a, c, d, r} \subseteq Calls
  BY CallTypes DEF Semaphores
<1>5. Iterations \in Nat
  BY RealtimeAssumption
<1>3. Sized(s, 2 * Iterations + 2) => s \in Seq(Calls) /\ Len(s) = 2 * Iterations + 2
  BY DEF Sized
<1> HIDE DEF a, c, d, r
<1>4. /\ Sized(s, 2 * Iterations + 2)
      /\ Nth(s, 1) = a /\ Nth(s, 2 * Iterations + 2) = r
      /\ \A k \in 0..(Iterations - 1) : Nth(s, 2 * k + 2) = c /\ Nth(s, 2 * k + 3) = d
  BY <1>2, <1>5, Serving2Calls
<1> HIDE DEF s
<1> QED
  BY <1>1, <1>3, <1>4 DEF a, c, d, r

LEMMA LowAssists ==
  ASSUME Test \in Readying
  PROVE  LET p == Program("low") IN
    /\ p \in Seq(Calls) /\ Len(p) = 2 * Iterations + 2
    /\ Nth(p, 1) = Call("sleep", "cpu 0") /\ Nth(p, 2 * Iterations + 2) = Call("return", "low")
    /\ \A k \in 0..(Iterations - 1) : Nth(p, 2 * k + 2) = Wait("to_assist") /\ Nth(p, 2 * k + 3) = Post("to_highest")
<1> DEFINE a == Call("sleep", "cpu 0")
           c == Wait("to_assist")
           d == Post("to_highest")
           r == Call("return", "low")
           s == Serving2(a, c, d, r)
<1>1. Program("low") = s
  <2>1. Test \notin Suspending
    BY DEF Readying, Suspending
  <2> QED
    BY <2>1, Zenon DEF Program, AssistProgram, Bind, One, Again2, Then, Serving2
<1>2. {a, c, d, r} \subseteq Calls
  BY CallTypes DEF Semaphores
<1>5. Iterations \in Nat
  BY RealtimeAssumption
<1>3. Sized(s, 2 * Iterations + 2) => s \in Seq(Calls) /\ Len(s) = 2 * Iterations + 2
  BY DEF Sized
<1> HIDE DEF a, c, d, r
<1>4. /\ Sized(s, 2 * Iterations + 2)
      /\ Nth(s, 1) = a /\ Nth(s, 2 * Iterations + 2) = r
      /\ \A k \in 0..(Iterations - 1) : Nth(s, 2 * k + 2) = c /\ Nth(s, 2 * k + 3) = d
  BY <1>2, <1>5, Serving2Calls
<1> HIDE DEF s
<1> QED
  BY <1>1, <1>3, <1>4 DEF a, c, d, r

-----------------------------------------------------------------------------
(* The calls of each thread, by their place, in terms of what they do. *)

LEMMA TestKinds ==
  /\ Running => Test \in Handing \/ Test = "8_2" \/ Test \in {"5_3", "6_3", "7_3"} \/ Test = "9_3"
  /\ Suspending = Handing \cup {"8_2"}
  /\ Readying = {"5_3", "6_3", "7_3"} \cup {"9_3"}
  /\ Suspending \cap Readying = {}
<1>1. Running => Test \in Handing \/ Test = "8_2" \/ Test \in {"5_3", "6_3", "7_3"} \/ Test = "9_3"
  <2> SUFFICES ASSUME Running
               PROVE  Test \in Handing \/ Test = "8_2" \/ Test \in {"5_3", "6_3", "7_3"} \/ Test = "9_3"
    OBVIOUS
  <2>1. index \in 1..9 /\ Test = Tests[index] /\ Tests[index] # "6_0"
    BY DEF Running, Threaded, Tests, Test
  <2> QED
    BY <2>1 DEF Tests, Handing
<1> QED
  BY <1>1 DEF Suspending, Handing, Readying

\* What a call is, by its fields.
Is(c, does, on) == c.does = does /\ c.on = on

LEMMA Fields ==
  /\ \A f, arg : Is(Call(f, arg), f, arg) /\ Call(f, arg).timed = "no"
  /\ \A s : Is(Post(s), "post", s) /\ Is(Wait(s), "wait", s)
  /\ Is(Send, "send", "mq") /\ Is(Receive, "receive", "mq")
  /\ Is(Lock, "lock", "lock") /\ Is(Unlock, "unlock", "lock")
  /\ \A c \in Calls : \A y : Is(Timed(c, y), c.does, c.on) /\ Timed(c, y).timed = y
  /\ \A s : Post(s).timed = "no" /\ Wait(s).timed = "no"
  /\ Send.timed = "no" /\ Receive.timed = "no" /\ Lock.timed = "no" /\ Unlock.timed = "no"
<1>1. \A c \in Calls : \A y : Is(Timed(c, y), c.does, c.on) /\ Timed(c, y).timed = y
  BY DEF Timed, Is, Calls, CallsOf
<1> QED
  BY <1>1 DEF Call, Post, Wait, Send, Receive, Lock, Unlock, Is

LEMMA CallsUnderTest ==
  /\ Test = "4_2" => Is(HighCall, "wait", "sem") /\ Is(LowCall, "post", "sem")
  /\ Test = "6_2" => Is(HighCall, "send", "mq") /\ Is(LowCall, "receive", "mq")
  /\ Test = "6_4" => Is(HighCall, "receive", "mq") /\ Is(LowCall, "send", "mq")
  /\ Test = "5_3" => Is(ReadyingCall, "post", "test_object") /\ Is(MiddleCall, "wait", "test_object")
  /\ Test = "6_3" => Is(ReadyingCall, "send", "mq") /\ Is(MiddleCall, "receive", "mq")
  /\ Test = "7_3" => Is(ReadyingCall, "receive", "mq") /\ Is(MiddleCall, "send", "mq")
  /\ Test = "9_3" => Is(ReadyingCall, "unlock", "lock")
  /\ HighCall.timed = "no" /\ LowCall.timed = "no" /\ ReadyingCall.timed = "no" /\ MiddleCall.timed = "no"
  BY Fields DEF HighCall, LowCall, ReadyingCall, MiddleCall

\* What the call i of t does, on what, and what it measures.
Makes(t, i, does, on, timed) ==
  LET c == Nth(Program(t), i) IN c.does = does /\ c.on = on /\ c.timed = timed

LEMMA MakesCall ==
  ASSUME NEW t, NEW i, NEW f, NEW arg, Nth(Program(t), i) = Call(f, arg)
  PROVE  Makes(t, i, f, arg, "no")
  BY Fields DEF Makes, Is

LEMMA MakesSame ==
  ASSUME NEW t, NEW i, NEW c, Nth(Program(t), i) = c
  PROVE  Makes(t, i, c.does, c.on, c.timed)
  BY DEF Makes

LEMMA MakesTimed ==
  ASSUME NEW t, NEW i, NEW c, NEW y, c \in Calls, Nth(Program(t), i) = Timed(c, y)
  PROVE  Makes(t, i, c.does, c.on, y)
<1>1. Is(Timed(c, y), c.does, c.on) /\ Timed(c, y).timed = y
  BY Fields, Zenon
<1> QED
  BY <1>1 DEF Makes, Is

LEMMA MakesTimedKind ==
  ASSUME NEW t, NEW i, NEW c, NEW f, NEW x, NEW y, c \in Calls, Is(c, f, x), Nth(Program(t), i) = Timed(c, y)
  PROVE  Makes(t, i, f, x, y)
<1>1. Makes(t, i, c.does, c.on, y)
  BY MakesTimed, Zenon
<1> QED
  BY <1>1, Zenon DEF Is

LEMMA MakesPrimitive ==
  ASSUME NEW t, NEW i
  PROVE  /\ \A x \in Semaphores : Nth(Program(t), i) = Post(x) => Makes(t, i, "post", x, "no")
         /\ \A x \in Semaphores : Nth(Program(t), i) = Wait(x) => Makes(t, i, "wait", x, "no")
         /\ Nth(Program(t), i) = Lock => Makes(t, i, "lock", "lock", "no")
         /\ Nth(Program(t), i) = Unlock => Makes(t, i, "unlock", "lock", "no")
         /\ Nth(Program(t), i) = Timed(Lock, "suspends") => Makes(t, i, "lock", "lock", "suspends")
         /\ Nth(Program(t), i) = Timed(Unlock, "resumes higher") => Makes(t, i, "unlock", "lock", "resumes higher")
<1>1. /\ \A x \in Semaphores : Nth(Program(t), i) = Post(x) => Makes(t, i, "post", x, "no")
      /\ \A x \in Semaphores : Nth(Program(t), i) = Wait(x) => Makes(t, i, "wait", x, "no")
  BY Fields DEF Makes, Is
<1>2. /\ Nth(Program(t), i) = Lock => Makes(t, i, "lock", "lock", "no")
      /\ Nth(Program(t), i) = Unlock => Makes(t, i, "unlock", "lock", "no")
  BY Fields DEF Makes, Is
<1>3. Lock \in Calls /\ Unlock \in Calls
  BY CallTypes
<1>4. Is(Lock, "lock", "lock") /\ Is(Unlock, "unlock", "lock")
  BY Fields, Zenon
<1>5. Nth(Program(t), i) = Timed(Lock, "suspends") => Makes(t, i, "lock", "lock", "suspends")
  BY <1>3, <1>4, MakesTimedKind, Zenon
<1>6. Nth(Program(t), i) = Timed(Unlock, "resumes higher") => Makes(t, i, "unlock", "lock", "resumes higher")
  BY <1>3, <1>4, MakesTimedKind, Zenon
<1> QED
  BY <1>1, <1>2, <1>5, <1>6, Zenon

LEMMA HandingHighKinds ==
  ASSUME Test \in {"4_2", "6_2", "6_4"}
  PROVE  /\ Program("high") \in Seq(Calls) /\ Len(Program("high")) = 2 * Iterations + 6
         /\ Makes("high", 1, "sleep", "cpu 0", "no")
         /\ Makes("high", 2, "create", "low", "no")
         /\ \A i \in 3..(2 * Iterations + 4) : Makes("high", i, HighCall.does, HighCall.on, IF i \in 4..(Iterations + 3) THEN "suspends" ELSE "no")
         /\ Makes("high", 2 * Iterations + 5, "join", "low", "no")
         /\ Makes("high", 2 * Iterations + 6, "return", "high", "no")
<1>1. Makes("high", 1, "sleep", "cpu 0", "no")
  <2>1. Nth(Program("high"), 1) = Call("sleep", "cpu 0")
    BY HandingHigh
  <2> QED
    BY <2>1, MakesCall DEF Semaphores
<1>2. Makes("high", 2, "create", "low", "no")
  <2>1. Nth(Program("high"), 2) = Call("create", "low")
    BY HandingHigh
  <2> QED
    BY <2>1, MakesCall DEF Semaphores
<1>3. ASSUME NEW i \in 3..(2 * Iterations + 4)
      PROVE  Makes("high", i, HighCall.does, HighCall.on, IF i \in 4..(Iterations + 3) THEN "suspends" ELSE "no")
  <2>1. Nth(Program("high"), i) = IF i \in 4..(Iterations + 3) THEN Timed(HighCall, "suspends") ELSE HighCall
    BY HandingHigh
  <2>2. HighCall \in Calls
    BY CallTypes
  <2>3. HighCall.timed = "no"
    BY CallsUnderTest, Zenon
  <2>4. CASE i \in 4..(Iterations + 3)
    <3>1. Nth(Program("high"), i) = Timed(HighCall, "suspends")
      BY <2>1, <2>4
    <3>2. Makes("high", i, HighCall.does, HighCall.on, "suspends")
      BY <3>1, <2>2, MakesTimed, Zenon
    <3> QED
      BY <3>2, <2>4
  <2>5. CASE ~ (i \in 4..(Iterations + 3))
    <3>1. Nth(Program("high"), i) = HighCall
      BY <2>1, <2>5
    <3>2. Makes("high", i, HighCall.does, HighCall.on, HighCall.timed)
      BY <3>1, MakesSame, Zenon
    <3> QED
      BY <3>2, <2>3, <2>5
  <2> QED
    BY <2>4, <2>5
<1>4. Makes("high", 2 * Iterations + 5, "join", "low", "no")
  <2>1. Nth(Program("high"), 2 * Iterations + 5) = Call("join", "low")
    BY HandingHigh
  <2> QED
    BY <2>1, MakesCall DEF Semaphores
<1>5. Makes("high", 2 * Iterations + 6, "return", "high", "no")
  <2>1. Nth(Program("high"), 2 * Iterations + 6) = Call("return", "high")
    BY HandingHigh
  <2> QED
    BY <2>1, MakesCall DEF Semaphores
<1>6. Program("high") \in Seq(Calls) /\ Len(Program("high")) = 2 * Iterations + 6
  BY HandingHigh
<1> QED
  BY <1>1, <1>2, <1>3, <1>4, <1>5, <1>6

LEMMA HandingLowKinds ==
  ASSUME Test \in {"4_2", "6_2", "6_4"}
  PROVE  /\ Program("low") \in Seq(Calls) /\ Len(Program("low")) = 2 * Iterations + 4
         /\ Makes("low", 1, "sleep", "cpu 0", "no")
         /\ \A i \in 2..(2 * Iterations + 3) : Makes("low", i, LowCall.does, LowCall.on, IF i >= Iterations + 4 THEN "resumes higher" ELSE "no")
         /\ Makes("low", 2 * Iterations + 4, "return", "low", "no")
<1>1. Makes("low", 1, "sleep", "cpu 0", "no")
  <2>1. Nth(Program("low"), 1) = Call("sleep", "cpu 0")
    BY HandingLow
  <2> QED
    BY <2>1, MakesCall DEF Semaphores
<1>2. ASSUME NEW i \in 2..(2 * Iterations + 3)
      PROVE  Makes("low", i, LowCall.does, LowCall.on, IF i >= Iterations + 4 THEN "resumes higher" ELSE "no")
  <2>1. Nth(Program("low"), i) = IF i >= Iterations + 4 THEN Timed(LowCall, "resumes higher") ELSE LowCall
    BY HandingLow
  <2>2. LowCall \in Calls
    BY CallTypes
  <2>3. LowCall.timed = "no"
    BY CallsUnderTest, Zenon
  <2>4. CASE i >= Iterations + 4
    <3>1. Nth(Program("low"), i) = Timed(LowCall, "resumes higher")
      BY <2>1, <2>4
    <3>2. Makes("low", i, LowCall.does, LowCall.on, "resumes higher")
      BY <3>1, <2>2, MakesTimed, Zenon
    <3> QED
      BY <3>2, <2>4
  <2>5. CASE ~ (i >= Iterations + 4)
    <3>1. Nth(Program("low"), i) = LowCall
      BY <2>1, <2>5
    <3>2. Makes("low", i, LowCall.does, LowCall.on, LowCall.timed)
      BY <3>1, MakesSame, Zenon
    <3> QED
      BY <3>2, <2>3, <2>5
  <2> QED
    BY <2>4, <2>5
<1>3. Makes("low", 2 * Iterations + 4, "return", "low", "no")
  <2>1. Nth(Program("low"), 2 * Iterations + 4) = Call("return", "low")
    BY HandingLow
  <2> QED
    BY <2>1, MakesCall DEF Semaphores
<1>4. Program("low") \in Seq(Calls) /\ Len(Program("low")) = 2 * Iterations + 4
  BY HandingLow
<1> QED
  BY <1>1, <1>2, <1>3, <1>4

LEMMA LockerHighKinds ==
  ASSUME Test = "8_2"
  PROVE  /\ Program("high") \in Seq(Calls) /\ Len(Program("high")) = 8 * Iterations + 9
         /\ Makes("high", 1, "sleep", "cpu 0", "no")
         /\ Makes("high", 2, "create", "low", "no")
         /\ \A k \in 0..(2 * Iterations) : Makes("high", 4 * k + 4, "lock", "lock", IF k < Iterations THEN "suspends" ELSE "no")
         /\ \A k \in 0..(2 * Iterations) : Makes("high", 4 * k + 5, "unlock", "lock", "no")
         /\ \A k \in 0..(2 * Iterations) : Makes("high", 4 * k + 6, "post", "to_unlocker", "no")
         /\ \A k \in 0..(2 * Iterations + 1) : Makes("high", 4 * k + 3, "wait", "to_locker", "no")
         /\ Makes("high", 8 * Iterations + 8, "join", "low", "no")
         /\ Makes("high", 8 * Iterations + 9, "return", "high", "no")
<1>1. Makes("high", 1, "sleep", "cpu 0", "no")
  <2>1. Nth(Program("high"), 1) = Call("sleep", "cpu 0")
    BY LockerHigh
  <2> QED
    BY <2>1, MakesCall DEF Semaphores
<1>2. Makes("high", 2, "create", "low", "no")
  <2>1. Nth(Program("high"), 2) = Call("create", "low")
    BY LockerHigh
  <2> QED
    BY <2>1, MakesCall DEF Semaphores
<1>3. ASSUME NEW k \in 0..(2 * Iterations)
      PROVE  Makes("high", 4 * k + 4, "lock", "lock", IF k < Iterations THEN "suspends" ELSE "no")
  <2>1. Nth(Program("high"), 4 * k + 4) = IF k < Iterations THEN Timed(Lock, "suspends") ELSE Lock
    BY LockerHigh
  <2> QED
    BY <2>1, MakesPrimitive DEF Semaphores
<1>4. ASSUME NEW k \in 0..(2 * Iterations)
      PROVE  Makes("high", 4 * k + 5, "unlock", "lock", "no")
  <2>1. Nth(Program("high"), 4 * k + 5) = Unlock
    BY LockerHigh
  <2> QED
    BY <2>1, MakesPrimitive DEF Semaphores
<1>5. ASSUME NEW k \in 0..(2 * Iterations)
      PROVE  Makes("high", 4 * k + 6, "post", "to_unlocker", "no")
  <2>1. Nth(Program("high"), 4 * k + 6) = Post("to_unlocker")
    BY LockerHigh
  <2> QED
    BY <2>1, MakesPrimitive DEF Semaphores
<1>6. ASSUME NEW k \in 0..(2 * Iterations + 1)
      PROVE  Makes("high", 4 * k + 3, "wait", "to_locker", "no")
  <2>1. Nth(Program("high"), 4 * k + 3) = Wait("to_locker")
    BY LockerHigh
  <2> QED
    BY <2>1, MakesPrimitive DEF Semaphores
<1>7. Makes("high", 8 * Iterations + 8, "join", "low", "no")
  <2>1. Nth(Program("high"), 8 * Iterations + 8) = Call("join", "low")
    BY LockerHigh
  <2> QED
    BY <2>1, MakesCall DEF Semaphores
<1>8. Makes("high", 8 * Iterations + 9, "return", "high", "no")
  <2>1. Nth(Program("high"), 8 * Iterations + 9) = Call("return", "high")
    BY LockerHigh
  <2> QED
    BY <2>1, MakesCall DEF Semaphores
<1>9. Program("high") \in Seq(Calls) /\ Len(Program("high")) = 8 * Iterations + 9
  BY LockerHigh
<1> QED
  BY <1>1, <1>2, <1>3, <1>4, <1>5, <1>6, <1>7, <1>8, <1>9

LEMMA LockerLowKinds ==
  ASSUME Test = "8_2"
  PROVE  /\ Program("low") \in Seq(Calls) /\ Len(Program("low")) = 8 * Iterations + 9
         /\ Makes("low", 1, "sleep", "cpu 0", "no")
         /\ \A k \in 0..(2 * Iterations) : Makes("low", 4 * k + 4, "unlock", "lock", IF k > Iterations THEN "resumes higher" ELSE "no")
         /\ \A k \in 0..(2 * Iterations) : Makes("low", 4 * k + 5, "wait", "to_unlocker", "no")
         /\ \A k \in 0..(2 * Iterations + 1) : Makes("low", 4 * k + 2, "lock", "lock", "no")
         /\ \A k \in 0..(2 * Iterations + 1) : Makes("low", 4 * k + 3, "post", "to_locker", "no")
         /\ Makes("low", 8 * Iterations + 8, "unlock", "lock", "no")
         /\ Makes("low", 8 * Iterations + 9, "return", "low", "no")
<1>1. Makes("low", 1, "sleep", "cpu 0", "no")
  <2>1. Nth(Program("low"), 1) = Call("sleep", "cpu 0")
    BY LockerLow
  <2> QED
    BY <2>1, MakesCall DEF Semaphores
<1>2. ASSUME NEW k \in 0..(2 * Iterations)
      PROVE  Makes("low", 4 * k + 4, "unlock", "lock", IF k > Iterations THEN "resumes higher" ELSE "no")
  <2>1. Nth(Program("low"), 4 * k + 4) = IF k > Iterations THEN Timed(Unlock, "resumes higher") ELSE Unlock
    BY LockerLow
  <2> QED
    BY <2>1, MakesPrimitive DEF Semaphores
<1>3. ASSUME NEW k \in 0..(2 * Iterations)
      PROVE  Makes("low", 4 * k + 5, "wait", "to_unlocker", "no")
  <2>1. Nth(Program("low"), 4 * k + 5) = Wait("to_unlocker")
    BY LockerLow
  <2> QED
    BY <2>1, MakesPrimitive DEF Semaphores
<1>4. ASSUME NEW k \in 0..(2 * Iterations + 1)
      PROVE  Makes("low", 4 * k + 2, "lock", "lock", "no")
  <2>1. Nth(Program("low"), 4 * k + 2) = Lock
    BY LockerLow
  <2> QED
    BY <2>1, MakesPrimitive DEF Semaphores
<1>5. ASSUME NEW k \in 0..(2 * Iterations + 1)
      PROVE  Makes("low", 4 * k + 3, "post", "to_locker", "no")
  <2>1. Nth(Program("low"), 4 * k + 3) = Post("to_locker")
    BY LockerLow
  <2> QED
    BY <2>1, MakesPrimitive DEF Semaphores
<1>6. Makes("low", 8 * Iterations + 8, "unlock", "lock", "no")
  <2>1. Nth(Program("low"), 8 * Iterations + 8) = Unlock
    BY LockerLow
  <2> QED
    BY <2>1, MakesPrimitive DEF Semaphores
<1>7. Makes("low", 8 * Iterations + 9, "return", "low", "no")
  <2>1. Nth(Program("low"), 8 * Iterations + 9) = Call("return", "low")
    BY LockerLow
  <2> QED
    BY <2>1, MakesCall DEF Semaphores
<1>8. Program("low") \in Seq(Calls) /\ Len(Program("low")) = 8 * Iterations + 9
  BY LockerLow
<1> QED
  BY <1>1, <1>2, <1>3, <1>4, <1>5, <1>6, <1>7, <1>8

LEMMA ReadyingHighKinds ==
  ASSUME Test \in {"5_3", "6_3", "7_3"}
  PROVE  /\ Program("high") \in Seq(Calls) /\ Len(Program("high")) = 3 * Iterations + 6
         /\ Makes("high", 1, "sleep", "cpu 0", "no")
         /\ Makes("high", 2, "create", "middle", "no")
         /\ Makes("high", 3, "create", "low", "no")
         /\ \A k \in 0..(Iterations - 1) : Makes("high", 3 * k + 4, "post", "to_assist", "no")
         /\ \A k \in 0..(Iterations - 1) : Makes("high", 3 * k + 5, "wait", "to_highest", "no")
         /\ \A k \in 0..(Iterations - 1) : Makes("high", 3 * k + 6, ReadyingCall.does, ReadyingCall.on, "readies lower")
         /\ Makes("high", 3 * Iterations + 4, "join", "middle", "no")
         /\ Makes("high", 3 * Iterations + 5, "join", "low", "no")
         /\ Makes("high", 3 * Iterations + 6, "return", "high", "no")
<1>1. Makes("high", 1, "sleep", "cpu 0", "no")
  <2>1. Nth(Program("high"), 1) = Call("sleep", "cpu 0")
    BY ReadyingHigh
  <2> QED
    BY <2>1, MakesCall DEF Semaphores
<1>2. Makes("high", 2, "create", "middle", "no")
  <2>1. Nth(Program("high"), 2) = Call("create", "middle")
    BY ReadyingHigh
  <2> QED
    BY <2>1, MakesCall DEF Semaphores
<1>3. Makes("high", 3, "create", "low", "no")
  <2>1. Nth(Program("high"), 3) = Call("create", "low")
    BY ReadyingHigh
  <2> QED
    BY <2>1, MakesCall DEF Semaphores
<1>4. ASSUME NEW k \in 0..(Iterations - 1)
      PROVE  Makes("high", 3 * k + 4, "post", "to_assist", "no")
  <2>1. Nth(Program("high"), 3 * k + 4) = Post("to_assist")
    BY ReadyingHigh
  <2> QED
    BY <2>1, MakesPrimitive DEF Semaphores
<1>5. ASSUME NEW k \in 0..(Iterations - 1)
      PROVE  Makes("high", 3 * k + 5, "wait", "to_highest", "no")
  <2>1. Nth(Program("high"), 3 * k + 5) = Wait("to_highest")
    BY ReadyingHigh
  <2> QED
    BY <2>1, MakesPrimitive DEF Semaphores
<1>6. ASSUME NEW k \in 0..(Iterations - 1)
      PROVE  Makes("high", 3 * k + 6, ReadyingCall.does, ReadyingCall.on, "readies lower")
  <2>1. Nth(Program("high"), 3 * k + 6) = Timed(ReadyingCall, "readies lower")
    BY ReadyingHigh
  <2> QED
    BY <2>1, MakesSame, MakesTimed, CallTypes, CallsUnderTest DEF Semaphores
<1>7. Makes("high", 3 * Iterations + 4, "join", "middle", "no")
  <2>1. Nth(Program("high"), 3 * Iterations + 4) = Call("join", "middle")
    BY ReadyingHigh
  <2> QED
    BY <2>1, MakesCall DEF Semaphores
<1>8. Makes("high", 3 * Iterations + 5, "join", "low", "no")
  <2>1. Nth(Program("high"), 3 * Iterations + 5) = Call("join", "low")
    BY ReadyingHigh
  <2> QED
    BY <2>1, MakesCall DEF Semaphores
<1>9. Makes("high", 3 * Iterations + 6, "return", "high", "no")
  <2>1. Nth(Program("high"), 3 * Iterations + 6) = Call("return", "high")
    BY ReadyingHigh
  <2> QED
    BY <2>1, MakesCall DEF Semaphores
<1>10. Program("high") \in Seq(Calls) /\ Len(Program("high")) = 3 * Iterations + 6
  BY ReadyingHigh
<1> QED
  BY <1>1, <1>2, <1>3, <1>4, <1>5, <1>6, <1>7, <1>8, <1>9, <1>10

LEMMA ReadyingMutexHighKinds ==
  ASSUME Test = "9_3"
  PROVE  /\ Program("high") \in Seq(Calls) /\ Len(Program("high")) = 4 * Iterations + 6
         /\ Makes("high", 1, "sleep", "cpu 0", "no")
         /\ Makes("high", 2, "create", "middle", "no")
         /\ Makes("high", 3, "create", "low", "no")
         /\ \A k \in 0..(Iterations - 1) : Makes("high", 4 * k + 4, "lock", "lock", "no")
         /\ \A k \in 0..(Iterations - 1) : Makes("high", 4 * k + 5, "post", "to_assist", "no")
         /\ \A k \in 0..(Iterations - 1) : Makes("high", 4 * k + 6, "wait", "to_highest", "no")
         /\ \A k \in 0..(Iterations - 1) : Makes("high", 4 * k + 7, ReadyingCall.does, ReadyingCall.on, "readies lower")
         /\ Makes("high", 4 * Iterations + 4, "join", "middle", "no")
         /\ Makes("high", 4 * Iterations + 5, "join", "low", "no")
         /\ Makes("high", 4 * Iterations + 6, "return", "high", "no")
<1>1. Makes("high", 1, "sleep", "cpu 0", "no")
  <2>1. Nth(Program("high"), 1) = Call("sleep", "cpu 0")
    BY ReadyingMutexHigh
  <2> QED
    BY <2>1, MakesCall DEF Semaphores
<1>2. Makes("high", 2, "create", "middle", "no")
  <2>1. Nth(Program("high"), 2) = Call("create", "middle")
    BY ReadyingMutexHigh
  <2> QED
    BY <2>1, MakesCall DEF Semaphores
<1>3. Makes("high", 3, "create", "low", "no")
  <2>1. Nth(Program("high"), 3) = Call("create", "low")
    BY ReadyingMutexHigh
  <2> QED
    BY <2>1, MakesCall DEF Semaphores
<1>4. ASSUME NEW k \in 0..(Iterations - 1)
      PROVE  Makes("high", 4 * k + 4, "lock", "lock", "no")
  <2>1. Nth(Program("high"), 4 * k + 4) = Lock
    BY ReadyingMutexHigh
  <2> QED
    BY <2>1, MakesPrimitive DEF Semaphores
<1>5. ASSUME NEW k \in 0..(Iterations - 1)
      PROVE  Makes("high", 4 * k + 5, "post", "to_assist", "no")
  <2>1. Nth(Program("high"), 4 * k + 5) = Post("to_assist")
    BY ReadyingMutexHigh
  <2> QED
    BY <2>1, MakesPrimitive DEF Semaphores
<1>6. ASSUME NEW k \in 0..(Iterations - 1)
      PROVE  Makes("high", 4 * k + 6, "wait", "to_highest", "no")
  <2>1. Nth(Program("high"), 4 * k + 6) = Wait("to_highest")
    BY ReadyingMutexHigh
  <2> QED
    BY <2>1, MakesPrimitive DEF Semaphores
<1>7. ASSUME NEW k \in 0..(Iterations - 1)
      PROVE  Makes("high", 4 * k + 7, ReadyingCall.does, ReadyingCall.on, "readies lower")
  <2>1. Nth(Program("high"), 4 * k + 7) = Timed(ReadyingCall, "readies lower")
    BY ReadyingMutexHigh
  <2> QED
    BY <2>1, MakesSame, MakesTimed, CallTypes, CallsUnderTest DEF Semaphores
<1>8. Makes("high", 4 * Iterations + 4, "join", "middle", "no")
  <2>1. Nth(Program("high"), 4 * Iterations + 4) = Call("join", "middle")
    BY ReadyingMutexHigh
  <2> QED
    BY <2>1, MakesCall DEF Semaphores
<1>9. Makes("high", 4 * Iterations + 5, "join", "low", "no")
  <2>1. Nth(Program("high"), 4 * Iterations + 5) = Call("join", "low")
    BY ReadyingMutexHigh
  <2> QED
    BY <2>1, MakesCall DEF Semaphores
<1>10. Makes("high", 4 * Iterations + 6, "return", "high", "no")
  <2>1. Nth(Program("high"), 4 * Iterations + 6) = Call("return", "high")
    BY ReadyingMutexHigh
  <2> QED
    BY <2>1, MakesCall DEF Semaphores
<1>11. Program("high") \in Seq(Calls) /\ Len(Program("high")) = 4 * Iterations + 6
  BY ReadyingMutexHigh
<1> QED
  BY <1>1, <1>2, <1>3, <1>4, <1>5, <1>6, <1>7, <1>8, <1>9, <1>10, <1>11

LEMMA MiddleServesKinds ==
  ASSUME Test \in {"5_3", "6_3", "7_3"}
  PROVE  /\ Program("middle") \in Seq(Calls) /\ Len(Program("middle")) = Iterations + 2
         /\ Makes("middle", 1, "sleep", "cpu 0", "no")
         /\ \A k \in 0..(Iterations - 1) : Makes("middle", k + 2, MiddleCall.does, MiddleCall.on, "no")
         /\ Makes("middle", Iterations + 2, "return", "middle", "no")
<1>1. Makes("middle", 1, "sleep", "cpu 0", "no")
  <2>1. Nth(Program("middle"), 1) = Call("sleep", "cpu 0")
    BY MiddleServes
  <2> QED
    BY <2>1, MakesCall DEF Semaphores
<1>2. ASSUME NEW k \in 0..(Iterations - 1)
      PROVE  Makes("middle", k + 2, MiddleCall.does, MiddleCall.on, "no")
  <2>1. Nth(Program("middle"), k + 2) = MiddleCall
    BY MiddleServes
  <2> QED
    BY <2>1, MakesSame, CallsUnderTest DEF Semaphores
<1>3. Makes("middle", Iterations + 2, "return", "middle", "no")
  <2>1. Nth(Program("middle"), Iterations + 2) = Call("return", "middle")
    BY MiddleServes
  <2> QED
    BY <2>1, MakesCall DEF Semaphores
<1>4. Program("middle") \in Seq(Calls) /\ Len(Program("middle")) = Iterations + 2
  BY MiddleServes
<1> QED
  BY <1>1, <1>2, <1>3, <1>4

LEMMA MiddleLocksKinds ==
  ASSUME Test \notin {"5_3", "6_3", "7_3"}
  PROVE  /\ Program("middle") \in Seq(Calls) /\ Len(Program("middle")) = 2 * Iterations + 2
         /\ Makes("middle", 1, "sleep", "cpu 0", "no")
         /\ \A k \in 0..(Iterations - 1) : Makes("middle", 2 * k + 2, "lock", "lock", "no")
         /\ \A k \in 0..(Iterations - 1) : Makes("middle", 2 * k + 3, "unlock", "lock", "no")
         /\ Makes("middle", 2 * Iterations + 2, "return", "middle", "no")
<1>1. Makes("middle", 1, "sleep", "cpu 0", "no")
  <2>1. Nth(Program("middle"), 1) = Call("sleep", "cpu 0")
    BY MiddleLocks
  <2> QED
    BY <2>1, MakesCall DEF Semaphores
<1>2. ASSUME NEW k \in 0..(Iterations - 1)
      PROVE  Makes("middle", 2 * k + 2, "lock", "lock", "no")
  <2>1. Nth(Program("middle"), 2 * k + 2) = Lock
    BY MiddleLocks
  <2> QED
    BY <2>1, MakesPrimitive DEF Semaphores
<1>3. ASSUME NEW k \in 0..(Iterations - 1)
      PROVE  Makes("middle", 2 * k + 3, "unlock", "lock", "no")
  <2>1. Nth(Program("middle"), 2 * k + 3) = Unlock
    BY MiddleLocks
  <2> QED
    BY <2>1, MakesPrimitive DEF Semaphores
<1>4. Makes("middle", 2 * Iterations + 2, "return", "middle", "no")
  <2>1. Nth(Program("middle"), 2 * Iterations + 2) = Call("return", "middle")
    BY MiddleLocks
  <2> QED
    BY <2>1, MakesCall DEF Semaphores
<1>5. Program("middle") \in Seq(Calls) /\ Len(Program("middle")) = 2 * Iterations + 2
  BY MiddleLocks
<1> QED
  BY <1>1, <1>2, <1>3, <1>4, <1>5

LEMMA LowAssistsKinds ==
  ASSUME Test \in Readying
  PROVE  /\ Program("low") \in Seq(Calls) /\ Len(Program("low")) = 2 * Iterations + 2
         /\ Makes("low", 1, "sleep", "cpu 0", "no")
         /\ \A k \in 0..(Iterations - 1) : Makes("low", 2 * k + 2, "wait", "to_assist", "no")
         /\ \A k \in 0..(Iterations - 1) : Makes("low", 2 * k + 3, "post", "to_highest", "no")
         /\ Makes("low", 2 * Iterations + 2, "return", "low", "no")
<1>1. Makes("low", 1, "sleep", "cpu 0", "no")
  <2>1. Nth(Program("low"), 1) = Call("sleep", "cpu 0")
    BY LowAssists
  <2> QED
    BY <2>1, MakesCall DEF Semaphores
<1>2. ASSUME NEW k \in 0..(Iterations - 1)
      PROVE  Makes("low", 2 * k + 2, "wait", "to_assist", "no")
  <2>1. Nth(Program("low"), 2 * k + 2) = Wait("to_assist")
    BY LowAssists
  <2> QED
    BY <2>1, MakesPrimitive DEF Semaphores
<1>3. ASSUME NEW k \in 0..(Iterations - 1)
      PROVE  Makes("low", 2 * k + 3, "post", "to_highest", "no")
  <2>1. Nth(Program("low"), 2 * k + 3) = Post("to_highest")
    BY LowAssists
  <2> QED
    BY <2>1, MakesPrimitive DEF Semaphores
<1>4. Makes("low", 2 * Iterations + 2, "return", "low", "no")
  <2>1. Nth(Program("low"), 2 * Iterations + 2) = Call("return", "low")
    BY LowAssists
  <2> QED
    BY <2>1, MakesCall DEF Semaphores
<1>5. Program("low") \in Seq(Calls) /\ Len(Program("low")) = 2 * Iterations + 2
  BY LowAssists
<1> QED
  BY <1>1, <1>2, <1>3, <1>4, <1>5

-----------------------------------------------------------------------------
(* What the general part needs to know of a call. *)

\* What the generic part of the proof needs to know of a call: the c that is
\* the call i of the n calls of t.
Blocking == {"wait", "lock", "receive", "send", "join"}
Plain == {"post", "wait", "send", "receive", "lock", "unlock"}

\* The semaphores a thread of the test posts.
Posted(t) ==
  IF t = "middle" THEN {}
  ELSE IF Test = "4_2" THEN {"sem"} ELSE IF Test = "8_2" THEN {"to_locker", "to_unlocker"}
  ELSE IF Test = "5_3" THEN {"to_assist", "to_highest", "test_object"}
  ELSE IF Test \in {"6_3", "7_3", "9_3"} THEN {"to_assist", "to_highest"} ELSE {}

\* The thread that sends a message that may be refused or wait.
Sender ==
  IF Test = "7_3" THEN "middle" ELSE IF Test = "6_4" THEN "low"
  ELSE IF Test \in {"6_2", "6_3"} THEN "high" ELSE "none"

\* What a thread's calls are timed as.
TimedAs(t) ==
  {"no"} \cup IF t = "high" THEN (IF Test \in Readying THEN {"readies lower"} ELSE {"suspends"})
             ELSE IF t = "low" /\ Test \notin Readying THEN {"resumes higher"} ELSE {}

Belongs(t, c) ==
  /\ c.does = "post" => c.on \in Posted(t)
  /\ c.does = "send" => t = Sender
  /\ c.timed \in TimedAs(t)

Fits(t, c, i, n) ==
  /\ c \in Calls
  /\ c.does = "sleep" <=> i = 1
  /\ c.does = "return" <=> i = n
  /\ c.does = "return" => c.on = t
  /\ c.does = "create" <=> t = "high" /\ (i = 2 \/ (i = 3 /\ Test \in Readying))
  /\ c.does = "create" => c.on = IF Test \in Readying /\ i = 2 THEN "middle" ELSE "low"
  /\ c.does = "join" <=> t = "high" /\ (i = n - 1 \/ (i = n - 2 /\ Test \in Readying))
  /\ c.does = "join" => c.on = IF i = n - 2 THEN "middle" ELSE "low"
  /\ Belongs(t, c)
  /\ c.does \notin Plain => c.timed = "no"

\* As many calls as a program has at least.
Longer(t, n) == n > 2 /\ (t = "high" => n > 5)

LEMMA FitsSleep ==
  ASSUME NEW t, NEW c, NEW i, NEW n \in Nat, c \in Calls, Longer(t, n), i = 1, c.does = "sleep", c.timed = "no"
  PROVE  Fits(t, c, i, n)
  BY DEF Fits, Longer, Belongs, TimedAs

LEMMA FitsReturn ==
  ASSUME NEW t, NEW c, NEW i, NEW n \in Nat, c \in Calls, Longer(t, n), i = n, c.does = "return", c.on = t, c.timed = "no"
  PROVE  Fits(t, c, i, n)
  BY DEF Fits, Longer, Belongs, TimedAs

LEMMA FitsPlain ==
  ASSUME NEW t, NEW c, NEW i, NEW n \in Nat, c \in Calls, Longer(t, n), c.does \in Plain,
         Belongs(t, c), i \in 2..(n - 1), t = "high" => i \in 3..(n - 2) /\ (Test \in Readying => i \in 4..(n - 3))
  PROVE  Fits(t, c, i, n)
  BY DEF Fits, Longer, Plain

LEMMA FitsCreate ==
  ASSUME NEW t, NEW c, NEW i, NEW n \in Nat, c \in Calls, Longer(t, n), t = "high", c.does = "create", c.timed = "no",
         IF Test \in Readying THEN (i = 2 /\ c.on = "middle") \/ (i = 3 /\ c.on = "low") ELSE i = 2 /\ c.on = "low"
  PROVE  Fits(t, c, i, n)
  BY DEF Fits, Longer, Belongs, TimedAs

LEMMA FitsJoin ==
  ASSUME NEW t, NEW c, NEW i, NEW n \in Nat, c \in Calls, Longer(t, n), t = "high", c.does = "join", c.timed = "no",
         (i = n - 1 /\ c.on = "low") \/ (Test \in Readying /\ i = n - 2 /\ c.on = "middle")
  PROVE  Fits(t, c, i, n)
  BY DEF Fits, Longer, Belongs, TimedAs

Shaped(t, i) == Fits(t, Nth(Program(t), i), i, Len(Program(t)))

LEMMA HandingHighShape ==
  ASSUME Test \in {"4_2", "6_2", "6_4"}
  PROVE  /\ Program("high") \in Seq(Calls) /\ Len(Program("high")) = 2 * Iterations + 6
         /\ \A i \in 1..Len(Program("high")) : Shaped("high", i)
<1> DEFINE p == Program("high")
           n == 2 * Iterations + 6
<1>0. Iterations \in Nat \ {0}
  BY RealtimeAssumption
<1>1. p \in Seq(Calls) /\ Len(p) = n
  BY HandingHighKinds
<1>2. \A i \in 1..n : Nth(p, i) \in Calls
  BY <1>1 DEF Nth
<1>3. Test \notin Readying
  BY TestKinds DEF Handing, Readying
<1>4. Longer("high", n) /\ n \in Nat
  BY <1>0 DEF Longer
<1>5. ASSUME NEW i \in 1..n
      PROVE  Shaped("high", i)
  <2> DEFINE c == Nth(p, i)
  <2>0. c \in Calls
    BY <1>2
  <2>a. SUFFICES Fits("high", c, i, n)
    BY <1>1 DEF Shaped
  <2>1. CASE i = 1
    <3>1. c.does = "sleep" /\ c.on = "cpu 0" /\ c.timed = "no"
      BY <2>1, HandingHighKinds DEF Makes
    <3> HIDE DEF c
    <3> QED
      BY <3>1, <2>0, <2>1, <1>0, <1>3, <1>4, FitsSleep DEF Plain
  <2>2. CASE i = 2
    <3>1. c.does = "create" /\ c.on = "low" /\ c.timed = "no"
      BY <2>2, HandingHighKinds DEF Makes
    <3> HIDE DEF c
    <3> QED
      BY <3>1, <2>0, <2>2, <1>0, <1>3, <1>4, FitsCreate DEF Plain
  <2>3. CASE i \in 3..(2 * Iterations + 4)
    <3>1. c.does \in Plain /\ Belongs("high", c)
      BY <2>3, <1>0, HandingHighKinds, CallsUnderTest, <1>3 DEF Makes, Is, Plain, Posted, Belongs, Sender, TimedAs
    <3> HIDE DEF c
    <3> QED
      BY <3>1, <2>0, <2>3, <1>0, <1>3, <1>4, FitsPlain
  <2>4. CASE i = 2 * Iterations + 5
    <3>1. c.does = "join" /\ c.on = "low" /\ c.timed = "no"
      BY <2>4, HandingHighKinds DEF Makes
    <3> HIDE DEF c
    <3> QED
      BY <3>1, <2>0, <2>4, <1>0, <1>3, <1>4, FitsJoin DEF Plain
  <2>5. CASE i = 2 * Iterations + 6
    <3>1. c.does = "return" /\ c.on = "high" /\ c.timed = "no"
      BY <2>5, HandingHighKinds DEF Makes
    <3> HIDE DEF c
    <3> QED
      BY <3>1, <2>0, <2>5, <1>0, <1>3, <1>4, FitsReturn DEF Plain
  <2> QED
    BY <2>1, <2>2, <2>3, <2>4, <2>5, <1>0, <1>1
<1> QED
  BY <1>1, <1>5

LEMMA HandingLowShape ==
  ASSUME Test \in {"4_2", "6_2", "6_4"}
  PROVE  /\ Program("low") \in Seq(Calls) /\ Len(Program("low")) = 2 * Iterations + 4
         /\ \A i \in 1..Len(Program("low")) : Shaped("low", i)
<1> DEFINE p == Program("low")
           n == 2 * Iterations + 4
<1>0. Iterations \in Nat \ {0}
  BY RealtimeAssumption
<1>1. p \in Seq(Calls) /\ Len(p) = n
  BY HandingLowKinds
<1>2. \A i \in 1..n : Nth(p, i) \in Calls
  BY <1>1 DEF Nth
<1>3. Test \notin Readying
  BY TestKinds DEF Handing, Readying
<1>4. Longer("low", n) /\ n \in Nat
  BY <1>0 DEF Longer
<1>5. ASSUME NEW i \in 1..n
      PROVE  Shaped("low", i)
  <2> DEFINE c == Nth(p, i)
  <2>0. c \in Calls
    BY <1>2
  <2>a. SUFFICES Fits("low", c, i, n)
    BY <1>1 DEF Shaped
  <2>1. CASE i = 1
    <3>1. c.does = "sleep" /\ c.on = "cpu 0" /\ c.timed = "no"
      BY <2>1, HandingLowKinds DEF Makes
    <3> HIDE DEF c
    <3> QED
      BY <3>1, <2>0, <2>1, <1>0, <1>3, <1>4, FitsSleep DEF Plain
  <2>2. CASE i \in 2..(2 * Iterations + 3)
    <3>1. c.does \in Plain /\ Belongs("low", c)
      BY <2>2, <1>0, HandingLowKinds, CallsUnderTest, <1>3 DEF Makes, Is, Plain, Posted, Belongs, Sender, TimedAs
    <3> HIDE DEF c
    <3> QED
      BY <3>1, <2>0, <2>2, <1>0, <1>3, <1>4, FitsPlain
  <2>3. CASE i = 2 * Iterations + 4
    <3>1. c.does = "return" /\ c.on = "low" /\ c.timed = "no"
      BY <2>3, HandingLowKinds DEF Makes
    <3> HIDE DEF c
    <3> QED
      BY <3>1, <2>0, <2>3, <1>0, <1>3, <1>4, FitsReturn DEF Plain
  <2> QED
    BY <2>1, <2>2, <2>3, <1>0, <1>1
<1> QED
  BY <1>1, <1>5

LEMMA LockerHighShape ==
  ASSUME Test = "8_2"
  PROVE  /\ Program("high") \in Seq(Calls) /\ Len(Program("high")) = 8 * Iterations + 9
         /\ \A i \in 1..Len(Program("high")) : Shaped("high", i)
<1> DEFINE p == Program("high")
           n == 8 * Iterations + 9
<1>0. Iterations \in Nat \ {0}
  BY RealtimeAssumption
<1>1. p \in Seq(Calls) /\ Len(p) = n
  BY LockerHighKinds
<1>2. \A i \in 1..n : Nth(p, i) \in Calls
  BY <1>1 DEF Nth
<1>3. Test \notin Readying
  BY TestKinds DEF Handing, Readying
<1>4. Longer("high", n) /\ n \in Nat
  BY <1>0 DEF Longer
<1>5. ASSUME NEW i \in 1..n
      PROVE  Shaped("high", i)
  <2> DEFINE c == Nth(p, i)
  <2>0. c \in Calls
    BY <1>2
  <2>a. SUFFICES Fits("high", c, i, n)
    BY <1>1 DEF Shaped
  <2>1. CASE i = 1
    <3>1. c.does = "sleep" /\ c.on = "cpu 0" /\ c.timed = "no"
      BY <2>1, LockerHighKinds DEF Makes
    <3> HIDE DEF c
    <3> QED
      BY <3>1, <2>0, <2>1, <1>0, <1>3, <1>4, FitsSleep DEF Plain
  <2>2. CASE i = 2
    <3>1. c.does = "create" /\ c.on = "low" /\ c.timed = "no"
      BY <2>2, LockerHighKinds DEF Makes
    <3> HIDE DEF c
    <3> QED
      BY <3>1, <2>0, <2>2, <1>0, <1>3, <1>4, FitsCreate DEF Plain
  <2>3. CASE i \in 3..(8 * Iterations + 7)
    <3> DEFINE k == (i - 3) \div 4
    <3>1. k \in 0..(2 * Iterations + 1)
      BY <2>3, <1>0
    <3>2. i = 4 * k + 3 \/ (i = 4 * k + 4 /\ k # 2 * Iterations + 1) \/ (i = 4 * k + 5 /\ k # 2 * Iterations + 1) \/ (i = 4 * k + 6 /\ k # 2 * Iterations + 1)
      BY <2>3, <1>0
    <3> HIDE DEF k
    <3>3. c.does \in Plain /\ Belongs("high", c)
      <4>1. CASE i = 4 * k + 3
        <5>1. Makes("high", 4 * k + 3, "wait", "to_locker", "no")
          BY <3>1, LockerHighKinds
        <5>2. c.does = "wait" /\ c.on = "to_locker" /\ c.timed = "no"
          BY <5>1, <4>1 DEF Makes
        <5> HIDE DEF c
        <5> QED
          BY <5>2, <1>3 DEF Plain, Belongs, TimedAs
      <4>2. CASE i = 4 * k + 4 /\ k # 2 * Iterations + 1
        <5>1. k \in 0..(2 * Iterations)
          BY <4>2, <3>1, <1>0
        <5>2. i = 4 * k + 4
          BY <4>2
        <5> QED
          BY <5>1, <5>2, LockerHighKinds, <1>3 DEF Makes, Plain, Posted, Belongs, Sender, TimedAs
      <4>3. CASE i = 4 * k + 5 /\ k # 2 * Iterations + 1
        <5>1. k \in 0..(2 * Iterations)
          BY <4>3, <3>1, <1>0
        <5>2. i = 4 * k + 5
          BY <4>3
        <5> QED
          BY <5>1, <5>2, LockerHighKinds, <1>3 DEF Makes, Plain, Posted, Belongs, Sender, TimedAs
      <4>4. CASE i = 4 * k + 6 /\ k # 2 * Iterations + 1
        <5>1. k \in 0..(2 * Iterations)
          BY <4>4, <3>1, <1>0
        <5>2. i = 4 * k + 6
          BY <4>4
        <5> QED
          BY <5>1, <5>2, LockerHighKinds, <1>3 DEF Makes, Plain, Posted, Belongs, Sender, TimedAs
      <4> QED
        BY <3>2, <4>1, <4>2, <4>3, <4>4
    <3> HIDE DEF c
    <3> QED
      BY <3>3, <2>0, <2>3, <1>0, <1>3, <1>4, FitsPlain
  <2>4. CASE i = 8 * Iterations + 8
    <3>1. c.does = "join" /\ c.on = "low" /\ c.timed = "no"
      BY <2>4, LockerHighKinds DEF Makes
    <3> HIDE DEF c
    <3> QED
      BY <3>1, <2>0, <2>4, <1>0, <1>3, <1>4, FitsJoin DEF Plain
  <2>5. CASE i = 8 * Iterations + 9
    <3>1. c.does = "return" /\ c.on = "high" /\ c.timed = "no"
      BY <2>5, LockerHighKinds DEF Makes
    <3> HIDE DEF c
    <3> QED
      BY <3>1, <2>0, <2>5, <1>0, <1>3, <1>4, FitsReturn DEF Plain
  <2> QED
    BY <2>1, <2>2, <2>3, <2>4, <2>5, <1>0, <1>1
<1> QED
  BY <1>1, <1>5

LEMMA LockerLowShape ==
  ASSUME Test = "8_2"
  PROVE  /\ Program("low") \in Seq(Calls) /\ Len(Program("low")) = 8 * Iterations + 9
         /\ \A i \in 1..Len(Program("low")) : Shaped("low", i)
<1> DEFINE p == Program("low")
           n == 8 * Iterations + 9
<1>0. Iterations \in Nat \ {0}
  BY RealtimeAssumption
<1>1. p \in Seq(Calls) /\ Len(p) = n
  BY LockerLowKinds
<1>2. \A i \in 1..n : Nth(p, i) \in Calls
  BY <1>1 DEF Nth
<1>3. Test \notin Readying
  BY TestKinds DEF Handing, Readying
<1>4. Longer("low", n) /\ n \in Nat
  BY <1>0 DEF Longer
<1>5. ASSUME NEW i \in 1..n
      PROVE  Shaped("low", i)
  <2> DEFINE c == Nth(p, i)
  <2>0. c \in Calls
    BY <1>2
  <2>a. SUFFICES Fits("low", c, i, n)
    BY <1>1 DEF Shaped
  <2>1. CASE i = 1
    <3>1. c.does = "sleep" /\ c.on = "cpu 0" /\ c.timed = "no"
      BY <2>1, LockerLowKinds DEF Makes
    <3> HIDE DEF c
    <3> QED
      BY <3>1, <2>0, <2>1, <1>0, <1>3, <1>4, FitsSleep DEF Plain
  <2>2. CASE i \in 2..(8 * Iterations + 7)
    <3> DEFINE k == (i - 2) \div 4
    <3>1. k \in 0..(2 * Iterations + 1)
      BY <2>2, <1>0
    <3>2. i = 4 * k + 2 \/ i = 4 * k + 3 \/ (i = 4 * k + 4 /\ k # 2 * Iterations + 1) \/ (i = 4 * k + 5 /\ k # 2 * Iterations + 1)
      BY <2>2, <1>0
    <3> HIDE DEF k
    <3>3. c.does \in Plain /\ Belongs("low", c)
      <4>1. CASE i = 4 * k + 2
        <5>1. Makes("low", 4 * k + 2, "lock", "lock", "no")
          BY <3>1, LockerLowKinds
        <5>2. c.does = "lock" /\ c.on = "lock" /\ c.timed = "no"
          BY <5>1, <4>1 DEF Makes
        <5> HIDE DEF c
        <5> QED
          BY <5>2, <1>3 DEF Plain, Belongs, TimedAs
      <4>2. CASE i = 4 * k + 3
        <5>1. Makes("low", 4 * k + 3, "post", "to_locker", "no")
          BY <3>1, LockerLowKinds
        <5>2. c.does = "post" /\ c.on = "to_locker" /\ c.timed = "no"
          BY <5>1, <4>2 DEF Makes
        <5> HIDE DEF c
        <5> QED
          BY <5>2, <1>3 DEF Plain, Belongs, TimedAs, Posted
      <4>3. CASE i = 4 * k + 4 /\ k # 2 * Iterations + 1
        <5>1. k \in 0..(2 * Iterations)
          BY <4>3, <3>1, <1>0
        <5>2. i = 4 * k + 4
          BY <4>3
        <5> QED
          BY <5>1, <5>2, LockerLowKinds, <1>3 DEF Makes, Plain, Posted, Belongs, Sender, TimedAs
      <4>4. CASE i = 4 * k + 5 /\ k # 2 * Iterations + 1
        <5>1. k \in 0..(2 * Iterations)
          BY <4>4, <3>1, <1>0
        <5>2. i = 4 * k + 5
          BY <4>4
        <5> QED
          BY <5>1, <5>2, LockerLowKinds, <1>3 DEF Makes, Plain, Posted, Belongs, Sender, TimedAs
      <4> QED
        BY <3>2, <4>1, <4>2, <4>3, <4>4
    <3> HIDE DEF c
    <3> QED
      BY <3>3, <2>0, <2>2, <1>0, <1>3, <1>4, FitsPlain
  <2>3. CASE i = 8 * Iterations + 8
    <3>1. c.does = "unlock" /\ c.on = "lock" /\ c.timed = "no"
      BY <2>3, LockerLowKinds DEF Makes
    <3> HIDE DEF c
    <3>2. Belongs("low", c) /\ c.does \in Plain
      BY <3>1 DEF Belongs, TimedAs, Plain
    <3>3. i \in 2..(n - 1)
      BY <2>3, <1>0
    <3> QED
      BY <3>2, <3>3, <2>0, <1>0, <1>3, <1>4, FitsPlain
  <2>4. CASE i = 8 * Iterations + 9
    <3>1. c.does = "return" /\ c.on = "low" /\ c.timed = "no"
      BY <2>4, LockerLowKinds DEF Makes
    <3> HIDE DEF c
    <3> QED
      BY <3>1, <2>0, <2>4, <1>0, <1>3, <1>4, FitsReturn DEF Plain
  <2> QED
    BY <2>1, <2>2, <2>3, <2>4, <1>0, <1>1
<1> QED
  BY <1>1, <1>5

LEMMA ReadyingHighShape ==
  ASSUME Test \in {"5_3", "6_3", "7_3"}
  PROVE  /\ Program("high") \in Seq(Calls) /\ Len(Program("high")) = 3 * Iterations + 6
         /\ \A i \in 1..Len(Program("high")) : Shaped("high", i)
<1> DEFINE p == Program("high")
           n == 3 * Iterations + 6
<1>0. Iterations \in Nat \ {0}
  BY RealtimeAssumption
<1>1. p \in Seq(Calls) /\ Len(p) = n
  BY ReadyingHighKinds
<1>2. \A i \in 1..n : Nth(p, i) \in Calls
  BY <1>1 DEF Nth
<1>3. Test \in Readying
  BY TestKinds DEF Handing, Readying
<1>4. Longer("high", n) /\ n \in Nat
  BY <1>0 DEF Longer
<1>5. ASSUME NEW i \in 1..n
      PROVE  Shaped("high", i)
  <2> DEFINE c == Nth(p, i)
  <2>0. c \in Calls
    BY <1>2
  <2>a. SUFFICES Fits("high", c, i, n)
    BY <1>1 DEF Shaped
  <2>1. CASE i = 1
    <3>1. c.does = "sleep" /\ c.on = "cpu 0" /\ c.timed = "no"
      BY <2>1, ReadyingHighKinds DEF Makes
    <3> HIDE DEF c
    <3> QED
      BY <3>1, <2>0, <2>1, <1>0, <1>3, <1>4, FitsSleep DEF Plain
  <2>2. CASE i = 2
    <3>1. c.does = "create" /\ c.on = "middle" /\ c.timed = "no"
      BY <2>2, ReadyingHighKinds DEF Makes
    <3> HIDE DEF c
    <3> QED
      BY <3>1, <2>0, <2>2, <1>0, <1>3, <1>4, FitsCreate DEF Plain
  <2>3. CASE i = 3
    <3>1. c.does = "create" /\ c.on = "low" /\ c.timed = "no"
      BY <2>3, ReadyingHighKinds DEF Makes
    <3> HIDE DEF c
    <3> QED
      BY <3>1, <2>0, <2>3, <1>0, <1>3, <1>4, FitsCreate DEF Plain
  <2>4. CASE i \in 4..(3 * Iterations + 3)
    <3> DEFINE k == (i - 4) \div 3
    <3>1. k \in 0..(Iterations - 1)
      BY <2>4, <1>0
    <3>2. i = 3 * k + 4 \/ i = 3 * k + 5 \/ i = 3 * k + 6
      BY <2>4, <1>0
    <3> HIDE DEF k
    <3>3. c.does \in Plain /\ Belongs("high", c)
      <4>1. CASE i = 3 * k + 4
        <5>1. Makes("high", 3 * k + 4, "post", "to_assist", "no")
          BY <3>1, ReadyingHighKinds
        <5>2. c.does = "post" /\ c.on = "to_assist" /\ c.timed = "no"
          BY <5>1, <4>1 DEF Makes
        <5> HIDE DEF c
        <5> QED
          BY <5>2, <1>3 DEF Plain, Belongs, TimedAs, Posted
      <4>2. CASE i = 3 * k + 5
        <5>1. Makes("high", 3 * k + 5, "wait", "to_highest", "no")
          BY <3>1, ReadyingHighKinds
        <5>2. c.does = "wait" /\ c.on = "to_highest" /\ c.timed = "no"
          BY <5>1, <4>2 DEF Makes
        <5> HIDE DEF c
        <5> QED
          BY <5>2, <1>3 DEF Plain, Belongs, TimedAs
      <4>3. CASE i = 3 * k + 6
        <5>1. c.does = ReadyingCall.does /\ c.on = ReadyingCall.on /\ c.timed = "readies lower"
          BY <4>3, <3>1, ReadyingHighKinds DEF Makes
        <5>2. ReadyingCall.does \in Plain /\ (ReadyingCall.does = "post" => ReadyingCall.on \in Posted("high")) /\ (ReadyingCall.does = "send" => Sender = "high")
          BY CallsUnderTest DEF Is, Plain, Posted, Sender
        <5> QED
          BY <5>1, <5>2, <1>3 DEF Belongs, TimedAs
      <4> QED
        BY <3>2, <4>1, <4>2, <4>3
    <3> HIDE DEF c
    <3> QED
      BY <3>3, <2>0, <2>4, <1>0, <1>3, <1>4, FitsPlain
  <2>5. CASE i = 3 * Iterations + 4
    <3>1. c.does = "join" /\ c.on = "middle" /\ c.timed = "no"
      BY <2>5, ReadyingHighKinds DEF Makes
    <3> HIDE DEF c
    <3> QED
      BY <3>1, <2>0, <2>5, <1>0, <1>3, <1>4, FitsJoin DEF Plain
  <2>6. CASE i = 3 * Iterations + 5
    <3>1. c.does = "join" /\ c.on = "low" /\ c.timed = "no"
      BY <2>6, ReadyingHighKinds DEF Makes
    <3> HIDE DEF c
    <3> QED
      BY <3>1, <2>0, <2>6, <1>0, <1>3, <1>4, FitsJoin DEF Plain
  <2>7. CASE i = 3 * Iterations + 6
    <3>1. c.does = "return" /\ c.on = "high" /\ c.timed = "no"
      BY <2>7, ReadyingHighKinds DEF Makes
    <3> HIDE DEF c
    <3> QED
      BY <3>1, <2>0, <2>7, <1>0, <1>3, <1>4, FitsReturn DEF Plain
  <2> QED
    BY <2>1, <2>2, <2>3, <2>4, <2>5, <2>6, <2>7, <1>0, <1>1
<1> QED
  BY <1>1, <1>5

LEMMA ReadyingMutexHighShape ==
  ASSUME Test = "9_3"
  PROVE  /\ Program("high") \in Seq(Calls) /\ Len(Program("high")) = 4 * Iterations + 6
         /\ \A i \in 1..Len(Program("high")) : Shaped("high", i)
<1> DEFINE p == Program("high")
           n == 4 * Iterations + 6
<1>0. Iterations \in Nat \ {0}
  BY RealtimeAssumption
<1>1. p \in Seq(Calls) /\ Len(p) = n
  BY ReadyingMutexHighKinds
<1>2. \A i \in 1..n : Nth(p, i) \in Calls
  BY <1>1 DEF Nth
<1>3. Test \in Readying
  BY TestKinds DEF Handing, Readying
<1>4. Longer("high", n) /\ n \in Nat
  BY <1>0 DEF Longer
<1>5. ASSUME NEW i \in 1..n
      PROVE  Shaped("high", i)
  <2> DEFINE c == Nth(p, i)
  <2>0. c \in Calls
    BY <1>2
  <2>a. SUFFICES Fits("high", c, i, n)
    BY <1>1 DEF Shaped
  <2>1. CASE i = 1
    <3>1. c.does = "sleep" /\ c.on = "cpu 0" /\ c.timed = "no"
      BY <2>1, ReadyingMutexHighKinds DEF Makes
    <3> HIDE DEF c
    <3> QED
      BY <3>1, <2>0, <2>1, <1>0, <1>3, <1>4, FitsSleep DEF Plain
  <2>2. CASE i = 2
    <3>1. c.does = "create" /\ c.on = "middle" /\ c.timed = "no"
      BY <2>2, ReadyingMutexHighKinds DEF Makes
    <3> HIDE DEF c
    <3> QED
      BY <3>1, <2>0, <2>2, <1>0, <1>3, <1>4, FitsCreate DEF Plain
  <2>3. CASE i = 3
    <3>1. c.does = "create" /\ c.on = "low" /\ c.timed = "no"
      BY <2>3, ReadyingMutexHighKinds DEF Makes
    <3> HIDE DEF c
    <3> QED
      BY <3>1, <2>0, <2>3, <1>0, <1>3, <1>4, FitsCreate DEF Plain
  <2>4. CASE i \in 4..(4 * Iterations + 3)
    <3> DEFINE k == (i - 4) \div 4
    <3>1. k \in 0..(Iterations - 1)
      BY <2>4, <1>0
    <3>2. i = 4 * k + 4 \/ i = 4 * k + 5 \/ i = 4 * k + 6 \/ i = 4 * k + 7
      BY <2>4, <1>0
    <3> HIDE DEF k
    <3>3. c.does \in Plain /\ Belongs("high", c)
      <4>1. CASE i = 4 * k + 4
        <5>1. Makes("high", 4 * k + 4, "lock", "lock", "no")
          BY <3>1, ReadyingMutexHighKinds
        <5>2. c.does = "lock" /\ c.on = "lock" /\ c.timed = "no"
          BY <5>1, <4>1 DEF Makes
        <5> HIDE DEF c
        <5> QED
          BY <5>2, <1>3 DEF Plain, Belongs, TimedAs
      <4>2. CASE i = 4 * k + 5
        <5>1. Makes("high", 4 * k + 5, "post", "to_assist", "no")
          BY <3>1, ReadyingMutexHighKinds
        <5>2. c.does = "post" /\ c.on = "to_assist" /\ c.timed = "no"
          BY <5>1, <4>2 DEF Makes
        <5> HIDE DEF c
        <5> QED
          BY <5>2, <1>3 DEF Plain, Belongs, TimedAs, Posted
      <4>3. CASE i = 4 * k + 6
        <5>1. Makes("high", 4 * k + 6, "wait", "to_highest", "no")
          BY <3>1, ReadyingMutexHighKinds
        <5>2. c.does = "wait" /\ c.on = "to_highest" /\ c.timed = "no"
          BY <5>1, <4>3 DEF Makes
        <5> HIDE DEF c
        <5> QED
          BY <5>2, <1>3 DEF Plain, Belongs, TimedAs
      <4>4. CASE i = 4 * k + 7
        <5>1. Makes("high", 4 * k + 7, ReadyingCall.does, ReadyingCall.on, "readies lower")
          BY <3>1, ReadyingMutexHighKinds
        <5>2. c.does = ReadyingCall.does /\ c.on = ReadyingCall.on /\ c.timed = "readies lower"
          BY <5>1, <4>4 DEF Makes
        <5>3. c.does = "unlock" /\ c.timed = "readies lower"
          BY <5>2, CallsUnderTest DEF Is
        <5> HIDE DEF c
        <5> QED
          BY <5>3, <1>3 DEF Plain, Belongs, TimedAs
      <4> QED
        BY <3>2, <4>1, <4>2, <4>3, <4>4
    <3> HIDE DEF c
    <3> QED
      BY <3>3, <2>0, <2>4, <1>0, <1>3, <1>4, FitsPlain
  <2>5. CASE i = 4 * Iterations + 4
    <3>1. c.does = "join" /\ c.on = "middle" /\ c.timed = "no"
      BY <2>5, ReadyingMutexHighKinds DEF Makes
    <3> HIDE DEF c
    <3> QED
      BY <3>1, <2>0, <2>5, <1>0, <1>3, <1>4, FitsJoin DEF Plain
  <2>6. CASE i = 4 * Iterations + 5
    <3>1. c.does = "join" /\ c.on = "low" /\ c.timed = "no"
      BY <2>6, ReadyingMutexHighKinds DEF Makes
    <3> HIDE DEF c
    <3> QED
      BY <3>1, <2>0, <2>6, <1>0, <1>3, <1>4, FitsJoin DEF Plain
  <2>7. CASE i = 4 * Iterations + 6
    <3>1. c.does = "return" /\ c.on = "high" /\ c.timed = "no"
      BY <2>7, ReadyingMutexHighKinds DEF Makes
    <3> HIDE DEF c
    <3> QED
      BY <3>1, <2>0, <2>7, <1>0, <1>3, <1>4, FitsReturn DEF Plain
  <2> QED
    BY <2>1, <2>2, <2>3, <2>4, <2>5, <2>6, <2>7, <1>0, <1>1
<1> QED
  BY <1>1, <1>5

LEMMA MiddleServesShape ==
  ASSUME Test \in {"5_3", "6_3", "7_3"}
  PROVE  /\ Program("middle") \in Seq(Calls) /\ Len(Program("middle")) = Iterations + 2
         /\ \A i \in 1..Len(Program("middle")) : Shaped("middle", i)
<1> DEFINE p == Program("middle")
           n == Iterations + 2
<1>0. Iterations \in Nat \ {0}
  BY RealtimeAssumption
<1>1. p \in Seq(Calls) /\ Len(p) = n
  BY MiddleServesKinds
<1>2. \A i \in 1..n : Nth(p, i) \in Calls
  BY <1>1 DEF Nth
<1>3. Test \in Readying
  BY TestKinds DEF Handing, Readying
<1>4. Longer("middle", n) /\ n \in Nat
  BY <1>0 DEF Longer
<1>5. ASSUME NEW i \in 1..n
      PROVE  Shaped("middle", i)
  <2> DEFINE c == Nth(p, i)
  <2>0. c \in Calls
    BY <1>2
  <2>a. SUFFICES Fits("middle", c, i, n)
    BY <1>1 DEF Shaped
  <2>1. CASE i = 1
    <3>1. c.does = "sleep" /\ c.on = "cpu 0" /\ c.timed = "no"
      BY <2>1, MiddleServesKinds DEF Makes
    <3> HIDE DEF c
    <3> QED
      BY <3>1, <2>0, <2>1, <1>0, <1>3, <1>4, FitsSleep DEF Plain
  <2>2. CASE i \in 2..(Iterations + 1)
    <3> DEFINE k == i - 2
    <3>1. k \in 0..(Iterations - 1)
      BY <2>2, <1>0
    <3>2. i = k + 2
      BY <2>2, <1>0
    <3> HIDE DEF k
    <3>3. c.does \in Plain /\ Belongs("middle", c)
      <4>1. CASE i = k + 2
        BY <4>1, <3>1, MiddleServesKinds, CallsUnderTest, <1>3 DEF Makes, Is, Plain, Posted, Belongs, Sender, TimedAs
      <4> QED
        BY <3>2, <4>1
    <3> HIDE DEF c
    <3> QED
      BY <3>3, <2>0, <2>2, <1>0, <1>3, <1>4, FitsPlain
  <2>3. CASE i = Iterations + 2
    <3>1. c.does = "return" /\ c.on = "middle" /\ c.timed = "no"
      BY <2>3, MiddleServesKinds DEF Makes
    <3> HIDE DEF c
    <3> QED
      BY <3>1, <2>0, <2>3, <1>0, <1>3, <1>4, FitsReturn DEF Plain
  <2> QED
    BY <2>1, <2>2, <2>3, <1>0, <1>1
<1> QED
  BY <1>1, <1>5

LEMMA MiddleLocksShape ==
  ASSUME Test \notin {"5_3", "6_3", "7_3"}
  PROVE  /\ Program("middle") \in Seq(Calls) /\ Len(Program("middle")) = 2 * Iterations + 2
         /\ \A i \in 1..Len(Program("middle")) : Shaped("middle", i)
<1> DEFINE p == Program("middle")
           n == 2 * Iterations + 2
<1>0. Iterations \in Nat \ {0}
  BY RealtimeAssumption
<1>1. p \in Seq(Calls) /\ Len(p) = n
  BY MiddleLocksKinds
<1>2. \A i \in 1..n : Nth(p, i) \in Calls
  BY <1>1 DEF Nth
<1>3. TRUE
  OBVIOUS
<1>4. Longer("middle", n) /\ n \in Nat
  BY <1>0 DEF Longer
<1>5. ASSUME NEW i \in 1..n
      PROVE  Shaped("middle", i)
  <2> DEFINE c == Nth(p, i)
  <2>0. c \in Calls
    BY <1>2
  <2>a. SUFFICES Fits("middle", c, i, n)
    BY <1>1 DEF Shaped
  <2>1. CASE i = 1
    <3>1. c.does = "sleep" /\ c.on = "cpu 0" /\ c.timed = "no"
      BY <2>1, MiddleLocksKinds DEF Makes
    <3> HIDE DEF c
    <3> QED
      BY <3>1, <2>0, <2>1, <1>0, <1>3, <1>4, FitsSleep DEF Plain
  <2>2. CASE i \in 2..(2 * Iterations + 1)
    <3> DEFINE k == (i - 2) \div 2
    <3>1. k \in 0..(Iterations - 1)
      BY <2>2, <1>0
    <3>2. i = 2 * k + 2 \/ i = 2 * k + 3
      BY <2>2, <1>0
    <3> HIDE DEF k
    <3>3. c.does \in Plain /\ Belongs("middle", c)
      <4>1. CASE i = 2 * k + 2
        <5>1. Makes("middle", 2 * k + 2, "lock", "lock", "no")
          BY <3>1, MiddleLocksKinds
        <5>2. c.does = "lock" /\ c.on = "lock" /\ c.timed = "no"
          BY <5>1, <4>1 DEF Makes
        <5> HIDE DEF c
        <5> QED
          BY <5>2, <1>3 DEF Plain, Belongs, TimedAs
      <4>2. CASE i = 2 * k + 3
        <5>1. Makes("middle", 2 * k + 3, "unlock", "lock", "no")
          BY <3>1, MiddleLocksKinds
        <5>2. c.does = "unlock" /\ c.on = "lock" /\ c.timed = "no"
          BY <5>1, <4>2 DEF Makes
        <5> HIDE DEF c
        <5> QED
          BY <5>2, <1>3 DEF Plain, Belongs, TimedAs
      <4> QED
        BY <3>2, <4>1, <4>2
    <3> HIDE DEF c
    <3> QED
      BY <3>3, <2>0, <2>2, <1>0, <1>3, <1>4, FitsPlain
  <2>3. CASE i = 2 * Iterations + 2
    <3>1. c.does = "return" /\ c.on = "middle" /\ c.timed = "no"
      BY <2>3, MiddleLocksKinds DEF Makes
    <3> HIDE DEF c
    <3> QED
      BY <3>1, <2>0, <2>3, <1>0, <1>3, <1>4, FitsReturn DEF Plain
  <2> QED
    BY <2>1, <2>2, <2>3, <1>0, <1>1
<1> QED
  BY <1>1, <1>5

LEMMA LowAssistsShape ==
  ASSUME Test \in Readying
  PROVE  /\ Program("low") \in Seq(Calls) /\ Len(Program("low")) = 2 * Iterations + 2
         /\ \A i \in 1..Len(Program("low")) : Shaped("low", i)
<1> DEFINE p == Program("low")
           n == 2 * Iterations + 2
<1>0. Iterations \in Nat \ {0}
  BY RealtimeAssumption
<1>1. p \in Seq(Calls) /\ Len(p) = n
  BY LowAssistsKinds
<1>2. \A i \in 1..n : Nth(p, i) \in Calls
  BY <1>1 DEF Nth
<1>3. Test \in Readying
  BY TestKinds DEF Handing, Readying
<1>4. Longer("low", n) /\ n \in Nat
  BY <1>0 DEF Longer
<1>5. ASSUME NEW i \in 1..n
      PROVE  Shaped("low", i)
  <2> DEFINE c == Nth(p, i)
  <2>0. c \in Calls
    BY <1>2
  <2>a. SUFFICES Fits("low", c, i, n)
    BY <1>1 DEF Shaped
  <2>1. CASE i = 1
    <3>1. c.does = "sleep" /\ c.on = "cpu 0" /\ c.timed = "no"
      BY <2>1, LowAssistsKinds DEF Makes
    <3> HIDE DEF c
    <3> QED
      BY <3>1, <2>0, <2>1, <1>0, <1>3, <1>4, FitsSleep DEF Plain
  <2>2. CASE i \in 2..(2 * Iterations + 1)
    <3> DEFINE k == (i - 2) \div 2
    <3>1. k \in 0..(Iterations - 1)
      BY <2>2, <1>0
    <3>2. i = 2 * k + 2 \/ i = 2 * k + 3
      BY <2>2, <1>0
    <3> HIDE DEF k
    <3>3. c.does \in Plain /\ Belongs("low", c)
      <4>1. CASE i = 2 * k + 2
        BY <4>1, <3>1, LowAssistsKinds DEF Makes, Plain, Posted, Readying, Belongs, TimedAs
      <4>2. CASE i = 2 * k + 3
        BY <4>2, <3>1, LowAssistsKinds DEF Makes, Plain, Posted, Readying, Belongs, TimedAs
      <4> QED
        BY <3>2, <4>1, <4>2
    <3> HIDE DEF c
    <3> QED
      BY <3>3, <2>0, <2>2, <1>0, <1>3, <1>4, FitsPlain
  <2>3. CASE i = 2 * Iterations + 2
    <3>1. c.does = "return" /\ c.on = "low" /\ c.timed = "no"
      BY <2>3, LowAssistsKinds DEF Makes
    <3> HIDE DEF c
    <3> QED
      BY <3>1, <2>0, <2>3, <1>0, <1>3, <1>4, FitsReturn DEF Plain
  <2> QED
    BY <2>1, <2>2, <2>3, <1>0, <1>1
<1> QED
  BY <1>1, <1>5

LEMMA Shapes ==
  ASSUME Running, NEW t \in Threads
  PROVE  /\ Program(t) \in Seq(Calls) /\ Len(Program(t)) \in Nat /\ Len(Program(t)) > 2
         /\ t = "high" => Len(Program(t)) > 5
         /\ \A i \in 1..Len(Program(t)) : Shaped(t, i)
<1>0. Iterations \in Nat \ {0}
  BY RealtimeAssumption
<1>1. Test \in Handing \/ Test = "8_2" \/ Test \in {"5_3", "6_3", "7_3"} \/ Test = "9_3"
  BY TestKinds
<1>2. CASE Test \in Handing
  <2>1. Test \in {"4_2", "6_2", "6_4"} /\ Test \notin {"5_3", "6_3", "7_3"}
    BY <1>2 DEF Handing
  <2> QED
    BY <2>1, <1>0, HandingHighShape, HandingLowShape, MiddleLocksShape DEF Threads
<1>3. CASE Test = "8_2"
  BY <1>3, <1>0, LockerHighShape, LockerLowShape, MiddleLocksShape DEF Threads
<1>4. CASE Test \in {"5_3", "6_3", "7_3"}
  BY <1>4, <1>0, ReadyingHighShape, LowAssistsShape, MiddleServesShape DEF Threads, Readying
<1>5. CASE Test = "9_3"
  BY <1>5, <1>0, ReadyingMutexHighShape, LowAssistsShape, MiddleLocksShape DEF Threads, Readying
<1> QED
  BY <1>1, <1>2, <1>3, <1>4, <1>5

-----------------------------------------------------------------------------
(* What holds in every test: who has been created, joined, asleep. *)

Size(t) == Len(Program(t))

PartTypes ==
  /\ index \in 0..(Len(Tests) + 1) /\ {blocks, found, failed} \subseteq BOOLEAN
  /\ status \in [Threads -> {"none", "asleep", "ready", "waiting", "woken", "ended"}]
  /\ pc \in [Threads -> Nat]
  /\ count \in [Semaphores -> Nat] /\ holder \in Threads \cup {"free"}
  /\ messages \in 0..MaxMsg

\* The sleepers are the threads that are asleep, each once.
SleepInv ==
  /\ sleepers \in Seq(Threads)
  /\ \A i, j \in 1..Len(sleepers) : sleepers[i] = sleepers[j] => i = j
  /\ \A t \in Threads : status[t] = "asleep" <=> \E i \in 1..Len(sleepers) : sleepers[i] = t

ProgressInv ==
  Running => \A t \in Threads :
    /\ pc[t] \in 1..Size(t)
    /\ status[t] = "none" => pc[t] = 1
    /\ status[t] = "asleep" => pc[t] = 2
    /\ status[t] \in {"waiting", "woken"} => Now(t).does \in Blocking
    /\ status[t] = "ended" => pc[t] = Size(t)

\* A test that could not create a thread never has a low one, and its high
\* thread, if it has one, is at its return.
FailedInv ==
  Running /\ failed =>
    /\ status["low"] = "none"
    /\ status["high"] = "none" => status["middle"] = "none"
    /\ status["high"] # "none" => pc["high"] = Size("high")

CreatedInv ==
  Running /\ ~failed =>
    /\ status["high"] # "none"
    /\ Test \in Suspending => (status["low"] = "none" <=> pc["high"] <= 2)
    /\ Test \in Readying => (status["middle"] = "none" <=> pc["high"] <= 2)
    /\ Test \in Readying => (status["low"] = "none" <=> pc["high"] <= 3)

NoMiddle == Running /\ Test \in Suspending => status["middle"] = "none"

\* The helpers have ended where the high thread has joined them.
JoinedInv ==
  Running /\ ~failed =>
    /\ pc["high"] = Size("high") => status["low"] = "ended"
    /\ Test \in Readying /\ pc["high"] >= Size("high") - 1 => status["middle"] = "ended"

GeneralInv ==
  /\ PartTypes /\ SleepInv /\ ProgressInv
  /\ FailedInv /\ CreatedInv /\ NoMiddle /\ JoinedInv

\* A program is what the running test makes it.
LEMMA SameProgram ==
  ASSUME index' = index
  PROVE  /\ Test' = Test /\ Running' = Running
         /\ \A t : Program(t)' = Program(t) /\ Size(t)' = Size(t)
<1>1. Test' = Test /\ Running' = Running
  BY DEF Test, Running, Threaded
<1>2. HighCall' = HighCall /\ LowCall' = LowCall /\ HighRest' = HighRest /\ LowRest' = LowRest
      /\ ReadyingCall' = ReadyingCall
  BY <1>1 DEF HighCall, LowCall, HighRest, LowRest, ReadyingCall
<1>3. SuspendedProgram' = SuspendedProgram
  BY <1>1, <1>2 DEF SuspendedProgram
<1>4. ResumingProgram' = ResumingProgram
  BY <1>1, <1>2 DEF ResumingProgram
<1>5. ReadyingProgram' = ReadyingProgram
  BY <1>1, <1>2 DEF ReadyingProgram
<1>6. MiddleProgram' = MiddleProgram /\ AssistProgram' = AssistProgram
  BY <1>1 DEF MiddleProgram, AssistProgram
<1>7. \A t : Program(t)' = Program(t)
  BY <1>1, <1>3, <1>4, <1>5, <1>6 DEF Program
<1> QED
  BY <1>1, <1>7 DEF Size

\* Nor does a call change while its thread stays where it is.
LEMMA SameCall ==
  ASSUME index' = index
  PROVE  \A t : pc'[t] = pc[t] => Now(t)' = Now(t)
  BY SameProgram DEF Now

LongEnough == Running => \A t \in Threads : Size(t) \in Nat /\ Size(t) > 2 /\ (t = "high" => Size(t) > 5)

LEMMA AllLongEnough == LongEnough
  BY Shapes DEF Size, LongEnough

LEMMA NowFits ==
  ASSUME Running, NEW t \in Threads, pc[t] \in 1..Size(t)
  PROVE  /\ Fits(t, Now(t), pc[t], Size(t)) /\ Now(t) \in Calls
         /\ Size(t) \in Nat /\ Size(t) > 2 /\ (t = "high" => Size(t) > 5)
<1>1. Now(t) = Nth(Program(t), pc[t])
  BY DEF Now, Nth
<1>2. Shaped(t, pc[t])
  BY Shapes DEF Size
<1> QED
  BY <1>1, <1>2, Shapes DEF Shaped, Size, Fits

\* A thread goes on from a call that is no create, no return and no sleep.
LEMMA GoesKeeps ==
  ASSUME GeneralInv, Running, NEW t \in Threads, NEW S, Goes(t, S),
         Active(t), S \subseteq {u \in Threads : status[u] = "waiting"},
         Now(t).does \notin {"sleep", "create", "return"},
         Now(t).does = "join" => status[Now(t).on] \in {"none", "ended"},
         PartTypes'
  PROVE  GeneralInv'
<1>1. /\ status[t] \in {"ready", "woken"} /\ t \notin S
      /\ \A u \in Threads \ S : u # t => status'[u] = status[u]
      /\ \A u \in S : status'[u] = "woken" /\ status[u] = "waiting"
      /\ status'[t] = "ready"
      /\ pc'[t] = pc[t] + 1 /\ \A u \in Threads : u # t => pc'[u] = pc[u]
  BY DEF Goes, Active, GeneralInv, PartTypes
<1>2. index' = index /\ sleepers' = sleepers /\ failed' = failed
  BY DEF Goes, testVars
<1>3. /\ Test' = Test /\ Running' = Running /\ \A u : Size(u)' = Size(u)
  BY <1>2, SameProgram
<1>4. \A u \in Threads : u # t => Now(u)' = Now(u)
  BY <1>1, <1>2, SameCall
<1>5. /\ pc[t] \in 1..Size(t) /\ Fits(t, Now(t), pc[t], Size(t))
      /\ Size(t) \in Nat /\ Size(t) > 2 /\ (t = "high" => Size(t) > 5)
  BY NowFits DEF GeneralInv, ProgressInv
<1>6. pc[t] \in 2..(Size(t) - 1)
  BY <1>5 DEF Fits
<1>7. \A u \in Threads : status'[u] \in {"none", "asleep", "ended"} <=> (u # t /\ status[u] \in {"none", "asleep", "ended"})
  BY <1>1 DEF GeneralInv, PartTypes
<1>8. \A u \in Threads : status[u] \in {"none", "asleep", "ended"} => status'[u] = status[u]
  BY <1>1
<1>9. \A u \in Threads : status'[u] \in {"none", "asleep", "ended"} => status[u] = status'[u] /\ u # t
  BY <1>1, <1>7, <1>8
<1>10. SleepInv'
  BY <1>2, <1>8, <1>9 DEF SleepInv, GeneralInv
<1>11. ProgressInv'
  <2> SUFFICES ASSUME NEW u \in Threads
               PROVE  /\ pc'[u] \in 1..Size(u)
                      /\ status'[u] = "none" => pc'[u] = 1
                      /\ status'[u] = "asleep" => pc'[u] = 2
                      /\ status'[u] \in {"waiting", "woken"} => Now(u)'.does \in Blocking
                      /\ status'[u] = "ended" => pc'[u] = Size(u)
    BY <1>3 DEF ProgressInv
  <2>1. CASE u = t
    BY <2>1, <1>1, <1>6, <1>5
  <2>2. CASE u # t
    BY <2>2, <1>1, <1>4, <1>9 DEF GeneralInv, ProgressInv
  <2> QED
    BY <2>1, <2>2
<1>12. \A u \in Threads : status'[u] = "none" <=> status[u] = "none"
  BY <1>8, <1>9, <1>1
<1>13. FailedInv'
  BY <1>1, <1>2, <1>3, <1>6, <1>12 DEF FailedInv, GeneralInv, Threads
<1>14. NoMiddle'
  BY <1>3, <1>12 DEF NoMiddle, GeneralInv, Threads
<1>15. CASE t # "high"
  <2>1. pc'["high"] = pc["high"]
    BY <1>15, <1>1 DEF Threads
  <2> QED
    BY <2>1, <1>2, <1>3, <1>8, <1>10, <1>11, <1>12, <1>13, <1>14 DEF CreatedInv, JoinedInv, GeneralInv, Threads
<1>16. CASE t = "high"
  <2>0. pc["high"] \in Nat /\ (Test \in Suspending \/ Test \in Readying)
    BY TestKinds DEF GeneralInv, PartTypes, Threads
  <2>1. pc["high"] > 2 /\ (Test \in Readying => pc["high"] > 3)
    BY <1>16, <1>5, <1>6 DEF Fits
  <2>2. CreatedInv'
    BY <2>0, <2>1, <1>1, <1>16, <1>2, <1>3, <1>12 DEF CreatedInv, GeneralInv, Threads
  <2>3. ASSUME ~failed, pc["high"] = Size("high") - 1
        PROVE  status["low"] = "ended"
    <3>1. Now(t).does = "join" /\ Now(t).on = "low"
      BY <2>3, <1>16, <1>5 DEF Fits
    <3>2. status["low"] # "none"
      BY <2>0, <2>1, <2>3 DEF GeneralInv, CreatedInv
    <3> QED
      BY <3>1, <3>2
  <2>4. ASSUME ~failed, Test \in Readying, pc["high"] = Size("high") - 2
        PROVE  status["middle"] = "ended"
    <3>1. Now(t).does = "join" /\ Now(t).on = "middle"
      BY <2>4, <1>16, <1>5 DEF Fits
    <3>2. status["middle"] # "none"
      BY <2>0, <2>1, <2>4 DEF GeneralInv, CreatedInv
    <3> QED
      BY <3>1, <3>2
  <2>5. JoinedInv'
    BY <2>3, <2>4, <1>1, <1>2, <1>3, <1>8, <1>16, <1>5, <1>6 DEF JoinedInv, GeneralInv, Threads
  <2> QED
    BY <2>2, <2>5, <1>10, <1>11, <1>13, <1>14 DEF GeneralInv
<1> QED
  BY <1>15, <1>16

LEMMA SuspendKeeps ==
  ASSUME GeneralInv, NEW t \in Threads, Suspend(t)
  PROVE  GeneralInv'
<1>1. /\ status[t] \in {"ready", "woken"} /\ status'[t] = "waiting" /\ Running
      /\ \A u \in Threads : u # t => status'[u] = status[u]
      /\ pc' = pc /\ sleepers' = sleepers /\ index' = index /\ failed' = failed
  BY DEF Suspend, Runs, Active, GeneralInv, PartTypes, testVars
<1>2. Test' = Test /\ Running' = Running /\ \A u : Size(u)' = Size(u)
  BY <1>1, SameProgram
<1>3. \A u \in Threads : Now(u)' = Now(u)
  BY <1>1, SameCall
<1>4. Now(t).does \in Blocking
  BY DEF Suspend, Returns, Blocking
<1>5. \A u \in Threads : \A s \in {"none", "asleep", "ended"} : status'[u] = s <=> status[u] = s
  BY <1>1
<1>6. PartTypes'
  BY <1>1 DEF Suspend, GeneralInv, PartTypes, testVars, objectVars
<1>7. SleepInv'
  BY <1>1, <1>5 DEF SleepInv, GeneralInv
<1>8. ProgressInv'
  <2> SUFFICES ASSUME NEW u \in Threads
               PROVE  /\ pc'[u] \in 1..Size(u)
                      /\ status'[u] = "none" => pc'[u] = 1
                      /\ status'[u] = "asleep" => pc'[u] = 2
                      /\ status'[u] \in {"waiting", "woken"} => Now(u)'.does \in Blocking
                      /\ status'[u] = "ended" => pc'[u] = Size(u)
    BY <1>2 DEF ProgressInv
  <2> QED
    BY <1>1, <1>3, <1>4, <1>5 DEF GeneralInv, ProgressInv
<1> QED
  BY <1>1, <1>2, <1>5, <1>6, <1>7, <1>8 DEF GeneralInv, FailedInv, CreatedInv, NoMiddle, JoinedInv, Threads

LEMMA FallsAsleepKeeps ==
  ASSUME GeneralInv, NEW t \in Threads, FallsAsleep(t)
  PROVE  GeneralInv'
<1>1. /\ status[t] \in {"ready", "woken"} /\ status'[t] = "asleep" /\ Running /\ Now(t).does = "sleep"
      /\ \A u \in Threads : u # t => status'[u] = status[u]
      /\ pc'[t] = pc[t] + 1 /\ \A u \in Threads : u # t => pc'[u] = pc[u]
      /\ sleepers' = Append(sleepers, t) /\ index' = index /\ failed' = failed
  BY DEF FallsAsleep, At, Runs, Active, GeneralInv, PartTypes, testVars
<1>2. Test' = Test /\ Running' = Running /\ \A u : Size(u)' = Size(u)
  BY <1>1, SameProgram
<1>3. \A u \in Threads : u # t => Now(u)' = Now(u)
  BY <1>1, SameCall
<1>4. /\ pc[t] \in 1..Size(t) /\ Fits(t, Now(t), pc[t], Size(t))
      /\ Size(t) \in Nat /\ Size(t) > 2 /\ (t = "high" => Size(t) > 5)
  BY <1>1, NowFits DEF GeneralInv, ProgressInv
<1>5. pc[t] = 1
  BY <1>1, <1>4 DEF Fits
<1>6. PartTypes'
  BY <1>1 DEF FallsAsleep, GeneralInv, PartTypes, testVars, objectVars
<1>7. SleepInv'
  <2>1. sleepers \in Seq(Threads) /\ \A i \in 1..Len(sleepers) : sleepers[i] # t
    BY <1>1 DEF GeneralInv, SleepInv
  <2>2. /\ sleepers' \in Seq(Threads) /\ Len(sleepers') = Len(sleepers) + 1
        /\ sleepers'[Len(sleepers) + 1] = t
        /\ \A i \in 1..Len(sleepers) : sleepers'[i] = sleepers[i]
    BY <1>1, <2>1
  <2>3. \A i, j \in 1..Len(sleepers') : sleepers'[i] = sleepers'[j] => i = j
    BY <2>1, <2>2 DEF GeneralInv, SleepInv
  <2>4. \A u \in Threads : status'[u] = "asleep" <=> \E i \in 1..Len(sleepers') : sleepers'[i] = u
    <3> TAKE u \in Threads
    <3>1. CASE u = t
      BY <3>1, <1>1, <2>1, <2>2
    <3>2. CASE u # t
      <4>1. status'[u] = "asleep" <=> \E i \in 1..Len(sleepers) : sleepers[i] = u
        BY <3>2, <1>1 DEF GeneralInv, SleepInv
      <4>2. Len(sleepers) \in Nat
        BY <2>1
      <4> QED
        BY <3>2, <4>1, <4>2, <2>2
    <3> QED
      BY <3>1, <3>2
  <2> QED
    BY <2>2, <2>3, <2>4 DEF SleepInv
<1>8. ProgressInv'
  <2> SUFFICES ASSUME NEW u \in Threads
               PROVE  /\ pc'[u] \in 1..Size(u)
                      /\ status'[u] = "none" => pc'[u] = 1
                      /\ status'[u] = "asleep" => pc'[u] = 2
                      /\ status'[u] \in {"waiting", "woken"} => Now(u)'.does \in Blocking
                      /\ status'[u] = "ended" => pc'[u] = Size(u)
    BY <1>2 DEF ProgressInv
  <2>1. CASE u = t
    BY <2>1, <1>1, <1>4, <1>5
  <2>2. CASE u # t
    BY <2>2, <1>1, <1>3 DEF GeneralInv, ProgressInv
  <2> QED
    BY <2>1, <2>2
<1>9. \A u \in Threads : /\ status'[u] = "none" <=> status[u] = "none"
                         /\ status[u] = "ended" => status'[u] = "ended"
  BY <1>1
<1>10. CASE t # "high"
  <2>1. pc'["high"] = pc["high"]
    BY <1>10, <1>1 DEF Threads
  <2> QED
    BY <2>1, <1>1, <1>2, <1>6, <1>7, <1>8, <1>9 DEF GeneralInv, FailedInv, CreatedInv, NoMiddle, JoinedInv, Threads
<1>11. CASE t = "high"
  <2>1. pc["high"] = 1 /\ pc'["high"] = 2 /\ Size("high") > 5 /\ Size("high") \in Nat
    BY <1>11, <1>1, <1>4, <1>5
  <2> QED
    BY <2>1, <1>11, <1>1, <1>2, <1>6, <1>7, <1>8, <1>9 DEF GeneralInv, FailedInv, CreatedInv, NoMiddle, JoinedInv, Threads
<1> QED
  BY <1>10, <1>11

LEMMA WakesUpKeeps ==
  ASSUME GeneralInv, WakesUp
  PROVE  GeneralInv' /\ pc' = pc /\ \A u \in Threads : status'[u] = status[u] \/ (status[u] = "asleep" /\ status'[u] = "ready")
<1> DEFINE t == Head(sleepers)
<1>0. sleepers \in Seq(Threads) /\ sleepers # <<>> /\ Running
  BY DEF WakesUp, GeneralInv, SleepInv
<1>00. t = sleepers[1] /\ Len(sleepers) \in Nat /\ Len(sleepers) > 0 /\ t \in Threads
  BY <1>0
<1>a. status[t] = "asleep"
  BY <1>00 DEF GeneralInv, SleepInv
<1>b. /\ sleepers' \in Seq(Threads) /\ Len(sleepers') = Len(sleepers) - 1
      /\ \A i \in 1..Len(sleepers') : sleepers'[i] = sleepers[i + 1]
  BY <1>0 DEF WakesUp
<1>c. status' = [status EXCEPT ![t] = "ready"] /\ pc' = pc /\ index' = index /\ failed' = failed
  BY DEF WakesUp, testVars
<1> HIDE DEF t
<1>1. /\ status'[t] = "ready" /\ \A u \in Threads : u # t => status'[u] = status[u]
  BY <1>c, <1>00 DEF GeneralInv, PartTypes
<1>2. Test' = Test /\ Running' = Running /\ \A u : Size(u)' = Size(u)
  BY <1>c, SameProgram
<1>3. \A u \in Threads : Now(u)' = Now(u)
  BY <1>c, SameCall
<1>6. PartTypes'
  BY <1>c, <1>1, <1>00 DEF WakesUp, GeneralInv, PartTypes, testVars, objectVars
<1>7. SleepInv'
  <2>3. \A i, j \in 1..Len(sleepers') : sleepers'[i] = sleepers'[j] => i = j
    BY <1>b, <1>00 DEF GeneralInv, SleepInv
  <2>4. \A u \in Threads : status'[u] = "asleep" <=> \E i \in 1..Len(sleepers') : sleepers'[i] = u
    <3> TAKE u \in Threads
    <3>1. CASE u = t
      <4>1. \A i \in 1..Len(sleepers') : sleepers'[i] # u
        BY <3>1, <1>b, <1>00 DEF GeneralInv, SleepInv
      <4> QED
        BY <3>1, <4>1, <1>1
    <3>2. CASE u # t
      <4>1. status'[u] = "asleep" <=> \E i \in 1..Len(sleepers) : sleepers[i] = u
        BY <3>2, <1>1 DEF GeneralInv, SleepInv
      <4>2. ASSUME NEW i \in 1..Len(sleepers), sleepers[i] = u
            PROVE  \E j \in 1..Len(sleepers') : sleepers'[j] = u
        <5>1. i # 1 /\ i - 1 \in 1..Len(sleepers') /\ sleepers'[i - 1] = sleepers[i]
          BY <4>2, <3>2, <1>b, <1>00
        <5> QED
          BY <5>1, <4>2
      <4>3. ASSUME NEW j \in 1..Len(sleepers'), sleepers'[j] = u
            PROVE  \E i \in 1..Len(sleepers) : sleepers[i] = u
        <5>1. j + 1 \in 1..Len(sleepers) /\ sleepers[j + 1] = u
          BY <4>3, <1>b, <1>00
        <5> QED
          BY <5>1
      <4> QED
        BY <4>1, <4>2, <4>3
    <3> QED
      BY <3>1, <3>2
  <2> QED
    BY <1>b, <2>3, <2>4 DEF SleepInv
<1>8. ProgressInv'
  <2> SUFFICES ASSUME NEW u \in Threads
               PROVE  /\ pc'[u] \in 1..Size(u)
                      /\ status'[u] = "none" => pc'[u] = 1
                      /\ status'[u] = "asleep" => pc'[u] = 2
                      /\ status'[u] \in {"waiting", "woken"} => Now(u)'.does \in Blocking
                      /\ status'[u] = "ended" => pc'[u] = Size(u)
    BY <1>2 DEF ProgressInv
  <2>1. CASE u = t
    BY <2>1, <1>1, <1>c, <1>0 DEF GeneralInv, ProgressInv
  <2>2. CASE u # t
    BY <2>2, <1>1, <1>c, <1>0, <1>3 DEF GeneralInv, ProgressInv
  <2> QED
    BY <2>1, <2>2
<1>9. \A u \in Threads : /\ status'[u] = "none" <=> status[u] = "none"
                         /\ status[u] = "ended" => status'[u] = "ended"
  BY <1>1, <1>a
<1>10. GeneralInv'
  BY <1>c, <1>2, <1>6, <1>7, <1>8, <1>9 DEF GeneralInv, FailedInv, CreatedInv, NoMiddle, JoinedInv, Threads
<1> QED
  BY <1>10, <1>c, <1>1, <1>a

LEMMA CreatesKeeps ==
  ASSUME GeneralInv, NEW t \in Threads, Creates(t)
  PROVE  GeneralInv'
<1>1. /\ status[t] \in {"ready", "woken"} /\ Running /\ Now(t).does = "create"
      /\ sleepers' = sleepers /\ index' = index
      /\ \/ /\ status' = [status EXCEPT ![Now(t).on] = "ready"]
            /\ pc' = [pc EXCEPT ![t] = @ + 1] /\ failed' = failed
         \/ /\ pc' = [pc EXCEPT ![t] = Size(t)] /\ failed' = TRUE /\ status' = status
  BY DEF Creates, At, Runs, Active, Size
<1>2. Test' = Test /\ Running' = Running /\ \A u : Size(u)' = Size(u)
  BY <1>1, SameProgram
<1>4. /\ pc[t] \in 1..Size(t) /\ Fits(t, Now(t), pc[t], Size(t))
      /\ Size(t) \in Nat /\ Size(t) > 2 /\ (t = "high" => Size(t) > 5)
  BY <1>1, NowFits DEF GeneralInv, ProgressInv
<1>5. /\ t = "high"
      /\ \/ pc[t] = 2 /\ Now(t).on = IF Test \in Readying THEN "middle" ELSE "low"
         \/ pc[t] = 3 /\ Test \in Readying /\ Now(t).on = "low"
  BY <1>1, <1>4 DEF Fits
<1>50. Test \in Suspending \/ Test \in Readying
  BY <1>1, TestKinds
<1>51. ~(Test \in Suspending /\ Test \in Readying)
  BY TestKinds
<1>6. ~failed
  BY <1>1, <1>4, <1>5 DEF GeneralInv, FailedInv, PartTypes
<1>7. status[Now(t).on] = "none" /\ Now(t).on \in Threads
  BY <1>1, <1>5, <1>50, <1>51, <1>6 DEF GeneralInv, CreatedInv, Threads
<1>8. CASE status' = [status EXCEPT ![Now(t).on] = "ready"] /\ pc' = [pc EXCEPT ![t] = @ + 1] /\ failed' = failed
  <2> DEFINE v == Now(t).on
  <2>1. /\ v \in Threads /\ status[v] = "none" /\ status'[v] = "ready" /\ v # t
        /\ \A u \in Threads : u # v => status'[u] = status[u]
        /\ pc'[t] = pc[t] + 1 /\ \A u \in Threads : u # t => pc'[u] = pc[u]
    BY <1>8, <1>7, <1>1 DEF GeneralInv, PartTypes
  <2>2. PartTypes'
    BY <1>8, <1>7, <1>1, <2>1 DEF Creates, GeneralInv, PartTypes, objectVars
  <2>3. SleepInv'
    BY <1>1, <2>1 DEF GeneralInv, SleepInv
  <2>4. \A u \in Threads : u # t => Now(u)' = Now(u)
    BY <1>1, <2>1, SameCall
  <2>5. ProgressInv'
    <3> SUFFICES ASSUME NEW u \in Threads
                 PROVE  /\ pc'[u] \in 1..Size(u)
                        /\ status'[u] = "none" => pc'[u] = 1
                        /\ status'[u] = "asleep" => pc'[u] = 2
                        /\ status'[u] \in {"waiting", "woken"} => Now(u)'.does \in Blocking
                        /\ status'[u] = "ended" => pc'[u] = Size(u)
      BY <1>2 DEF ProgressInv
    <3>1. CASE u = t
      <4>1. status[t] = "ready"
        BY <1>1 DEF GeneralInv, ProgressInv, Blocking
      <4> QED
        BY <3>1, <4>1, <2>1, <1>1, <1>4, <1>5
    <3>2. CASE u # t
      BY <3>2, <2>1, <2>4, <1>1 DEF GeneralInv, ProgressInv
    <3> QED
      BY <3>1, <3>2
  <2> HIDE DEF v
  <2>6. CASE Test \in Readying
    <3>1. v = IF pc[t] = 2 THEN "middle" ELSE "low"
      BY <2>6, <1>5 DEF v
    <3>2. pc'["high"] \in {3, 4} /\ pc'["high"] = pc["high"] + 1 /\ pc["high"] \in {2, 3} /\ Size("high") > 5 /\ Size("high") \in Nat
      BY <1>4, <1>5, <2>1
    <3>3. pc'["high"] < Size("high") - 1
      BY <3>2
    <3> QED
      BY <3>1, <3>2, <3>3, <2>6, <2>1, <2>2, <2>3, <2>5, <1>1, <1>2, <1>5, <1>51, <1>6, <1>8 DEF GeneralInv, FailedInv, CreatedInv, NoMiddle, JoinedInv, Threads
  <2>7. CASE Test \in Suspending
    <3>1. v = "low"
      BY <2>7, <1>5, <1>51 DEF v
    <3>2. pc'["high"] = 3 /\ pc["high"] = 2 /\ Size("high") > 5 /\ Size("high") \in Nat
      BY <2>7, <1>51, <1>4, <1>5, <2>1
    <3> QED
      BY <3>1, <3>2, <2>7, <2>1, <2>2, <2>3, <2>5, <1>1, <1>2, <1>5, <1>51, <1>6, <1>8 DEF GeneralInv, FailedInv, CreatedInv, NoMiddle, JoinedInv, Threads
  <2> QED
    BY <2>6, <2>7, <1>50
<1>9. CASE pc' = [pc EXCEPT ![t] = Size(t)] /\ failed' = TRUE /\ status' = status
  <2>1. pc'[t] = Size(t) /\ \A u \in Threads : u # t => pc'[u] = pc[u]
    BY <1>9 DEF GeneralInv, PartTypes
  <2>2. PartTypes'
    BY <1>9, <1>1, <1>4 DEF Creates, GeneralInv, PartTypes, objectVars
  <2>3. SleepInv'
    BY <1>1, <1>9 DEF GeneralInv, SleepInv
  <2>4. \A u \in Threads : u # t => Now(u)' = Now(u)
    BY <1>1, <2>1, SameCall
  <2>5. ProgressInv'
    <3> SUFFICES ASSUME NEW u \in Threads
                 PROVE  /\ pc'[u] \in 1..Size(u)
                        /\ status'[u] = "none" => pc'[u] = 1
                        /\ status'[u] = "asleep" => pc'[u] = 2
                        /\ status'[u] \in {"waiting", "woken"} => Now(u)'.does \in Blocking
                        /\ status'[u] = "ended" => pc'[u] = Size(u)
      BY <1>2 DEF ProgressInv
    <3>1. CASE u = t
      <4>1. status[t] = "ready"
        BY <1>1 DEF GeneralInv, ProgressInv, Blocking
      <4> QED
        BY <3>1, <4>1, <2>1, <1>9, <1>4
    <3>2. CASE u # t
      BY <3>2, <2>1, <2>4, <1>9, <1>1 DEF GeneralInv, ProgressInv
    <3> QED
      BY <3>1, <3>2
  <2>6. status["low"] = "none"
    BY <1>5, <1>7, <1>1, <1>50, <1>51, <1>6 DEF GeneralInv, CreatedInv, Threads
  <2> QED
    BY <2>1, <2>2, <2>3, <2>5, <2>6, <1>1, <1>2, <1>5, <1>9 DEF GeneralInv, FailedInv, CreatedInv, NoMiddle, JoinedInv, Threads
<1> QED
  BY <1>1, <1>8, <1>9

LEMMA EndsKeeps ==
  ASSUME GeneralInv, NEW t \in Threads, Ends(t)
  PROVE  GeneralInv'
<1> DEFINE S == Suspended("join", t)
<1>1. /\ status[t] \in {"ready", "woken"} /\ Running /\ Now(t).does = "return"
      /\ pc' = pc /\ sleepers' = sleepers /\ index' = index /\ failed' = failed
      /\ status' = [u \in Threads |-> IF u = t THEN "ended" ELSE IF u \in S THEN "woken" ELSE status[u]]
      /\ S \subseteq {u \in Threads : status[u] = "waiting"}
  BY DEF Ends, At, Runs, Active, testVars, Suspended
<1> HIDE DEF S
<1>2. Test' = Test /\ Running' = Running /\ \A u : Size(u)' = Size(u)
  BY <1>1, SameProgram
<1>3. \A u \in Threads : Now(u)' = Now(u)
  BY <1>1, SameCall
<1>4. /\ pc[t] \in 1..Size(t) /\ Fits(t, Now(t), pc[t], Size(t))
  BY <1>1, NowFits DEF GeneralInv, ProgressInv
<1>5. pc[t] = Size(t)
  BY <1>1, <1>4 DEF Fits
<1>6. /\ status'[t] = "ended"
      /\ \A u \in Threads : u # t => status'[u] = status[u] \/ (status[u] = "waiting" /\ status'[u] = "woken")
  BY <1>1
<1>7. \A u \in Threads : /\ status'[u] = "none" <=> status[u] = "none"
                         /\ status'[u] = "asleep" <=> status[u] = "asleep"
                         /\ status[u] = "ended" => status'[u] = "ended"
  BY <1>1, <1>6
<1>8. PartTypes'
  BY <1>1 DEF Ends, GeneralInv, PartTypes, testVars, objectVars
<1>9. SleepInv'
  BY <1>1, <1>7 DEF SleepInv, GeneralInv
<1>10. ProgressInv'
  <2> SUFFICES ASSUME NEW u \in Threads
               PROVE  /\ pc'[u] \in 1..Size(u)
                      /\ status'[u] = "none" => pc'[u] = 1
                      /\ status'[u] = "asleep" => pc'[u] = 2
                      /\ status'[u] \in {"waiting", "woken"} => Now(u)'.does \in Blocking
                      /\ status'[u] = "ended" => pc'[u] = Size(u)
    BY <1>2 DEF ProgressInv
  <2>1. CASE u = t
    BY <2>1, <1>1, <1>4, <1>5, <1>6
  <2>2. CASE u # t
    BY <2>2, <1>1, <1>3, <1>6 DEF GeneralInv, ProgressInv
  <2> QED
    BY <2>1, <2>2
<1> QED
  BY <1>1, <1>2, <1>7, <1>8, <1>9, <1>10 DEF GeneralInv, FailedInv, CreatedInv, NoMiddle, JoinedInv, Threads

\* A test starts with its high thread or, when that cannot be created, with none.
LEMMA StartsKeeps ==
  ASSUME NEW i \in 0..(Len(Tests) + 1), Starts(i), {blocks', found'} \subseteq BOOLEAN
  PROVE  GeneralInv'
<1>0. PICK ok \in {Threaded(i), FALSE} :
        /\ failed' = (Threaded(i) /\ ~ok)
        /\ status' = [t \in Threads |-> IF t = "high" /\ ok THEN "ready" ELSE "none"]
  BY DEF Starts
<1>a. Threaded(i) \in BOOLEAN
  BY DEF Threaded
<1>b. ok \in BOOLEAN
  BY <1>a, <1>0
<1>c. index' = i /\ sleepers' = <<>> /\ pc' = [t \in Threads |-> 1]
  BY DEF Starts
<1>d. count' = [s \in Semaphores |-> 0] /\ holder' = "free"
  BY DEF Starts
<1>e. messages' \in 0..1
  BY DEF Starts, Prefill
<1>1. /\ index' = i /\ sleepers' = <<>> /\ failed' \in BOOLEAN
      /\ \A t \in Threads : pc'[t] = 1 /\ status'[t] \in {"none", "ready"}
      /\ status'["high"] = "none" \/ ~failed'
      /\ Threaded(i) => (failed' <=> status'["high"] = "none")
      /\ status'["low"] = "none" /\ status'["middle"] = "none"
      /\ pc' \in [Threads -> Nat]
      /\ status' \in [Threads -> {"none", "asleep", "ready", "waiting", "woken", "ended"}]
      /\ count' \in [Semaphores -> Nat] /\ holder' = "free" /\ messages' \in 0..1
  BY <1>0, <1>a, <1>b, <1>c, <1>d, <1>e DEF Threads
<1>2. PartTypes'
  BY <1>1 DEF PartTypes, MaxMsg
<1>3. SleepInv'
  BY <1>1 DEF SleepInv
<1>4. Running' <=> Threaded(i)
  BY <1>1 DEF Running, Threaded
<1>5. Running' => \A t \in Threads : Size(t)' \in Nat /\ Size(t)' > 2 /\ (t = "high" => Size(t)' > 5)
  <2>1. LongEnough'
    BY AllLongEnough, PTL
  <2> QED
    BY <2>1 DEF LongEnough
<1>6. ProgressInv'
  BY <1>1, <1>5 DEF ProgressInv
<1> QED
  BY <1>1, <1>2, <1>3, <1>4, <1>5, <1>6 DEF GeneralInv, FailedInv, CreatedInv, NoMiddle, JoinedInv, Threads

\* The part of PartTypes that is not about the objects.
LEMMA GoesTypes ==
  ASSUME PartTypes, NEW t \in Threads, NEW S, Goes(t, S)
  PROVE  /\ index' \in 0..(Len(Tests) + 1) /\ {blocks', found', failed'} \subseteq BOOLEAN
         /\ status' \in [Threads -> {"none", "asleep", "ready", "waiting", "woken", "ended"}]
         /\ pc' \in [Threads -> Nat]
  BY DEF PartTypes, Goes, testVars

\* A call that makes a semaphore, a queue or the mutex change hands, or joins.
Takes(t) ==
  Posts(t) \/ Waits(t) \/ Sends(t) \/ Receives(t) \/ Locks(t) \/ Unlocks(t) \/ Joins(t)

\* What a call of each kind does to the objects, and whom it wakes.
LEMMA TakesGoes ==
  ASSUME GeneralInv, NEW t \in Threads, Takes(t)
  PROVE  /\ Running /\ Active(t) /\ PartTypes'
         /\ Now(t).does \in {"post", "wait", "send", "receive", "lock", "unlock", "join"}
         /\ Now(t).does = "join" => status[Now(t).on] \in {"none", "ended"}
         /\ \E S \in SUBSET {u \in Threads : status[u] = "waiting"} : Goes(t, S)
<1>0. At(t, Now(t).does)
  BY DEF Takes, Posts, Waits, Sends, Receives, Locks, Unlocks, Joins, At
<1>1. Running /\ Active(t) /\ Returns(t)
  BY <1>0 DEF At, Runs
<1>2. Now(t) \in Calls
  BY <1>1, NowFits DEF GeneralInv, ProgressInv
<1>3. \A f, x : Suspended(f, x) \in SUBSET {u \in Threads : status[u] = "waiting"}
  BY DEF Suspended
<1>4. Now(t).does \in {"post", "wait"} => Now(t).on \in Semaphores
  BY <1>2 DEF Calls, CallsOf
<1>5. {} \in SUBSET {u \in Threads : status[u] = "waiting"}
  OBVIOUS
<1> DEFINE G == \E S \in SUBSET {u \in Threads : status[u] = "waiting"} : Goes(t, S)
           O == count' \in [Semaphores -> Nat] /\ holder' \in Threads \cup {"free"} /\ messages' \in 0..MaxMsg
<1> SUFFICES /\ Now(t).does \in {"post", "wait", "send", "receive", "lock", "unlock", "join"}
             /\ Now(t).does = "join" => status[Now(t).on] \in {"none", "ended"}
             /\ G /\ O
  <2>1. PartTypes
    BY DEF GeneralInv
  <2> QED
    BY <2>1, <1>1, GoesTypes DEF PartTypes
<1>6. CASE Posts(t)
  <2>1. Now(t).does = "post" /\ G
    BY <1>6, <1>3 DEF Posts, At
  <2>2. O
    BY <1>6, <1>4, <2>1 DEF Posts, GeneralInv, PartTypes
  <2> QED
    BY <2>1, <2>2
<1>7. CASE Waits(t)
  <2>1. Now(t).does = "wait" /\ G /\ count[Now(t).on] > 0
    BY <1>7, <1>5, <1>1 DEF Waits, At, Returns
  <2>2. O
    BY <1>7, <1>4, <2>1 DEF Waits, GeneralInv, PartTypes
  <2> QED
    BY <2>1, <2>2
<1>8. CASE Sends(t)
  <2>1. Now(t).does = "send" /\ G
    BY <1>8, <1>3 DEF Sends, At
  <2>2. O
    BY <1>8 DEF Sends, GeneralInv, PartTypes, MaxMsg
  <2> QED
    BY <2>1, <2>2
<1>9. CASE Receives(t)
  <2>1. Now(t).does = "receive" /\ G /\ messages > 0
    BY <1>9, <1>3, <1>1 DEF Receives, At, Returns
  <2>2. O
    BY <1>9, <2>1 DEF Receives, GeneralInv, PartTypes, MaxMsg
  <2> QED
    BY <2>1, <2>2
<1>10. CASE Locks(t)
  <2>1. Now(t).does = "lock" /\ G
    BY <1>10, <1>5 DEF Locks, At
  <2>2. O
    BY <1>10 DEF Locks, GeneralInv, PartTypes
  <2> QED
    BY <2>1, <2>2
<1>11. CASE Unlocks(t)
  <2>1. Now(t).does = "unlock" /\ G
    BY <1>11, <1>3 DEF Unlocks, At
  <2>2. O
    BY <1>11, <1>3 DEF Unlocks, GeneralInv, PartTypes
  <2> QED
    BY <2>1, <2>2
<1>12. CASE Joins(t)
  <2>1. Now(t).does = "join" /\ G
    BY <1>12, <1>5 DEF Joins, At
  <2>2. O
    BY <1>12 DEF Joins, GeneralInv, PartTypes, objectVars
  <2>3. status[Now(t).on] \in {"none", "ended"}
    BY <2>1, <1>1 DEF Returns
  <2> QED
    BY <2>1, <2>2, <2>3
<1> QED
  BY <1>6, <1>7, <1>8, <1>9, <1>10, <1>11, <1>12 DEF Takes

LEMMA StepKeeps ==
  ASSUME GeneralInv, NEW t \in Threads, Step(t)
  PROVE  GeneralInv'
<1>1. CASE Takes(t)
  <2>1. PICK S \in SUBSET {u \in Threads : status[u] = "waiting"} : Goes(t, S)
    BY <1>1, TakesGoes
  <2>2. /\ Running /\ Active(t) /\ PartTypes'
        /\ Now(t).does \notin {"sleep", "create", "return"}
        /\ Now(t).does = "join" => status[Now(t).on] \in {"none", "ended"}
    BY <1>1, TakesGoes
  <2> QED
    BY <2>1, <2>2, GoesKeeps
<1>2. CASE Suspend(t)
  BY <1>2, SuspendKeeps
<1>3. CASE FallsAsleep(t)
  BY <1>3, FallsAsleepKeeps
<1>4. CASE Creates(t)
  BY <1>4, CreatesKeeps
<1>5. CASE Ends(t)
  BY <1>5, EndsKeeps
<1> QED
  BY <1>1, <1>2, <1>3, <1>4, <1>5 DEF Step, Takes

LEMMA FollowingTest ==
  ASSUME index \in 0..(Len(Tests) + 1), NEW says \in BOOLEAN, Running \/ Test = "6_0"
  PROVE  Following(says) \in 1..(Len(Tests) + 1) /\ index \in 1..9 /\ Test = Tests[index]
<1>1. index \in 1..9
  BY DEF Running, Threaded, Test, Tests
<1>2. Test = "6_0" => index = 5
  BY <1>1 DEF Test, Tests
<1> QED
  BY <1>1, <1>2 DEF Following, Tests, Test

LEMMA NextKeeps ==
  ASSUME GeneralInv, [Next]_vars
  PROVE  GeneralInv'
<1>0. index \in 0..(Len(Tests) + 1) /\ {blocks, found, failed} \subseteq BOOLEAN
  BY DEF GeneralInv, PartTypes
<1>1. CASE Begin
  <2>1. 1 \in 0..(Len(Tests) + 1)
    BY DEF Tests
  <2> QED
    BY <1>1, <2>1, <1>0, StartsKeeps DEF Begin
<1>2. CASE Finish
  <2>1. Following(found) \in 0..(Len(Tests) + 1)
    BY <1>0, <1>2, FollowingTest DEF Finish, Tests
  <2> QED
    BY <1>2, <2>1, <1>0, StartsKeeps DEF Finish
<1>3. CASE Probe
  <2>1. found' \in BOOLEAN /\ blocks' \in BOOLEAN
    BY <1>3, <1>0 DEF Probe
  <2>2. Following(found') \in 0..(Len(Tests) + 1)
    BY <1>0, <1>3, <2>1, FollowingTest DEF Probe, Tests
  <2> QED
    BY <1>3, <2>1, <2>2, StartsKeeps DEF Probe
<1>4. CASE WakesUp
  BY <1>4, WakesUpKeeps
<1>5. ASSUME NEW t \in Threads, Step(t)
      PROVE  GeneralInv'
  BY <1>5, StepKeeps
<1>6. CASE UNCHANGED vars
  <2>1. UNCHANGED <<index, blocks, found, failed, status, pc, sleepers, count, holder, messages>>
    BY <1>6 DEF vars, testVars, objectVars
  <2>2. /\ Test' = Test /\ Running' = Running /\ \A u : Size(u)' = Size(u)
        /\ \A u \in Threads : Now(u)' = Now(u)
    BY <2>1, SameProgram, SameCall
  <2> QED
    BY <2>1, <2>2 DEF GeneralInv, PartTypes, SleepInv, ProgressInv, FailedInv, CreatedInv, NoMiddle, JoinedInv
<1> QED
  BY <1>1, <1>2, <1>3, <1>4, <1>5, <1>6 DEF Next

LEMMA InitGeneral ==
  ASSUME Init
  PROVE  GeneralInv
<1>1. ~Running
  BY DEF Init, Running, Threaded, Tests
<1>2. PartTypes
  <2>1. {blocks, found, failed} \subseteq BOOLEAN
    BY RealtimeAssumption DEF Init
  <2>2. index \in 0..(Len(Tests) + 1)
    BY DEF Init, Tests
  <2>3. status \in [Threads -> {"none", "asleep", "ready", "waiting", "woken", "ended"}] /\ pc \in [Threads -> Nat]
    BY DEF Init
  <2>4. count \in [Semaphores -> Nat] /\ holder \in Threads \cup {"free"} /\ messages \in 0..MaxMsg
    BY DEF Init, MaxMsg
  <2> QED
    BY <2>1, <2>2, <2>3, <2>4 DEF PartTypes
<1>3. SleepInv
  BY DEF Init, SleepInv
<1> QED
  BY <1>1, <1>2, <1>3 DEF GeneralInv, ProgressInv, FailedInv, CreatedInv, NoMiddle, JoinedInv

\* In every test each thread is where its program lets it be: asleep after its
\* first call, waiting in a call that can wait, created and joined by the high
\* thread as far as that has come.
THEOREM GeneralInvariance == Spec => []GeneralInv
<1>1. Init => GeneralInv
  BY InitGeneral
<1>2. GeneralInv /\ [Next]_vars => GeneralInv'
  BY NextKeeps
<1> QED
  BY <1>1, <1>2, PTL DEF Spec

\* Who has been created has ended when the high thread has been joined.
LEMMA FinishedOver ==
  ASSUME GeneralInv, Finish, ~failed
  PROVE  \A t \in Threads : status[t] \in {"none", "ended"}
<1>1. Running /\ status["high"] = "ended"
  BY DEF Finish, GeneralInv, CreatedInv
<1>2. pc["high"] = Size("high") /\ Size("high") \in Nat
  BY <1>1, AllLongEnough DEF GeneralInv, ProgressInv, Threads, LongEnough
<1>3. status["low"] = "ended"
  BY <1>1, <1>2 DEF GeneralInv, JoinedInv
<1>4. Test \in Suspending \/ Test \in Readying
  BY <1>1, TestKinds
<1>5. status["middle"] \in {"none", "ended"}
  BY <1>1, <1>2, <1>4 DEF GeneralInv, JoinedInv, NoMiddle
<1> QED
  BY <1>1, <1>3, <1>5 DEF Threads

\* A test that could create its threads returns when they have ended, so that
\* nobody uses an object that it destroys.
THEOREM OutliveThreads == Spec => ObjectsOutliveThreads
<1>1. GeneralInv =>
        [Finish /\ ~failed => \A t \in Threads : status[t] \in {"none", "ended"}]_vars
  BY FinishedOver
<1> QED
  BY <1>1, GeneralInvariance, PTL DEF ObjectsOutliveThreads

-----------------------------------------------------------------------------
(* What a step of a thread is, by the call it is at. *)

LEMMA StepByCall ==
  ASSUME NEW t \in Threads, Step(t)
  PROVE  /\ Running /\ Active(t) /\ \A u \in Above(t) : ~Active(u)
         /\ ~Returns(t) => Suspend(t)
         /\ Returns(t) =>
              /\ ~Suspend(t)
              /\ Now(t).does = "post" => Posts(t)
              /\ Now(t).does = "wait" => Waits(t)
              /\ Now(t).does = "send" => Sends(t)
              /\ Now(t).does = "receive" => Receives(t)
              /\ Now(t).does = "lock" => Locks(t)
              /\ Now(t).does = "unlock" => Unlocks(t)
              /\ Now(t).does = "join" => Joins(t)
              /\ Now(t).does = "sleep" => FallsAsleep(t)
              /\ Now(t).does = "create" => Creates(t)
              /\ Now(t).does = "return" => Ends(t)
<1>1. Runs(t)
  BY DEF Step, Suspend, Posts, Waits, Sends, Receives, Locks, Unlocks, Joins, FallsAsleep, Creates, Ends, At
<1>2. CASE Suspend(t)
  BY <1>1, <1>2 DEF Suspend, Runs
<1>3. CASE ~Suspend(t)
  <2>1. Returns(t) /\ At(t, Now(t).does)
    BY <1>3 DEF Step, Suspend, Posts, Waits, Sends, Receives, Locks, Unlocks, Joins, FallsAsleep, Creates, Ends, At
  <2> QED
    BY <1>1, <1>3, <2>1 DEF Step, Posts, Waits, Sends, Receives, Locks, Unlocks, Joins, FallsAsleep, Creates, Ends, At, Runs
<1> QED
  BY <1>2, <1>3

\* Where a thread is after it has gone on, and who is woken.
LEMMA GoesFacts ==
  ASSUME PartTypes, NEW t \in Threads, NEW S, Goes(t, S), Active(t), \A u \in S : status[u] = "waiting"
  PROVE  /\ pc'[t] = pc[t] + 1 /\ \A u \in Threads : u # t => pc'[u] = pc[u]
         /\ status'[t] = "ready"
         /\ \A u \in Threads : u \in S => status'[u] = "woken"
         /\ \A u \in Threads : u # t /\ u \notin S => status'[u] = status[u]
         /\ index' = index /\ blocks' = blocks /\ found' = found /\ failed' = failed
  BY DEF Goes, PartTypes, testVars, Active

LEMMA WokenWait ==
  \A f, x : \A u \in Suspended(f, x) : status[u] = "waiting"
  BY DEF Suspended

LEMMA SuspendFacts ==
  ASSUME PartTypes, NEW t \in Threads, Suspend(t)
  PROVE  /\ pc' = pc /\ status'[t] = "waiting" /\ \A u \in Threads : u # t => status'[u] = status[u]
         /\ index' = index /\ blocks' = blocks /\ found' = found /\ failed' = failed
         /\ count' = count /\ holder' = holder /\ messages' = messages
  BY DEF Suspend, PartTypes, testVars, objectVars

LEMMA FallsAsleepFacts ==
  ASSUME PartTypes, NEW t \in Threads, FallsAsleep(t)
  PROVE  /\ pc'[t] = pc[t] + 1 /\ \A u \in Threads : u # t => pc'[u] = pc[u]
         /\ status'[t] = "asleep" /\ \A u \in Threads : u # t => status'[u] = status[u]
         /\ index' = index /\ blocks' = blocks /\ found' = found /\ failed' = failed
         /\ count' = count /\ holder' = holder /\ messages' = messages
  BY DEF FallsAsleep, PartTypes, testVars, objectVars

LEMMA EndsFacts ==
  ASSUME PartTypes, NEW t \in Threads, Ends(t)
  PROVE  /\ pc' = pc /\ status'[t] = "ended"
         /\ \A u \in Threads : u # t => status'[u] = status[u] \/ (status[u] = "waiting" /\ Now(u).does = "join" /\ status'[u] = "woken")
         /\ index' = index /\ blocks' = blocks /\ found' = found /\ failed' = failed
         /\ count' = count /\ holder' = holder /\ messages' = messages
  BY DEF Ends, PartTypes, testVars, objectVars, Suspended

LEMMA CreatesFacts ==
  ASSUME GeneralInv, NEW t \in Threads, Creates(t), ~failed'
  PROVE  /\ t = "high" /\ pc'[t] = pc[t] + 1 /\ \A u \in Threads : u # t => pc'[u] = pc[u]
         /\ status["high"] = "ready" /\ status'["high"] = "ready" /\ ~failed
         /\ \A u \in Threads : u # Now(t).on => status'[u] = status[u]
         /\ Now(t).on \in Threads \ {"high"} /\ status'[Now(t).on] = "ready"
         /\ \/ pc[t] = 2 /\ Now(t).on = IF Test \in Readying THEN "middle" ELSE "low"
            \/ pc[t] = 3 /\ Test \in Readying /\ Now(t).on = "low"
         /\ index' = index /\ blocks' = blocks /\ found' = found
         /\ count' = count /\ holder' = holder /\ messages' = messages
<1>1. /\ Running /\ Active(t) /\ Now(t).does = "create"
      /\ status' = [status EXCEPT ![Now(t).on] = "ready"]
      /\ pc' = [pc EXCEPT ![t] = @ + 1] /\ failed' = failed
      /\ UNCHANGED <<index, blocks, found, sleepers, objectVars>>
  BY DEF Creates, At, Runs
<1>2. /\ pc[t] \in 1..Size(t) /\ Fits(t, Now(t), pc[t], Size(t))
  BY <1>1, NowFits DEF GeneralInv, ProgressInv
<1>3. /\ t = "high"
      /\ \/ pc[t] = 2 /\ Now(t).on = IF Test \in Readying THEN "middle" ELSE "low"
         \/ pc[t] = 3 /\ Test \in Readying /\ Now(t).on = "low"
  BY <1>1, <1>2 DEF Fits
<1>4. status["high"] = "ready"
  BY <1>1, <1>3 DEF GeneralInv, ProgressInv, Blocking, Active
<1>5. Now(t).on \in Threads \ {"high"}
  BY <1>3 DEF Threads
<1> QED
  BY <1>1, <1>3, <1>4, <1>5 DEF GeneralInv, PartTypes, objectVars

-----------------------------------------------------------------------------
(* What each call changes, whichever test makes it. *)

\* t goes on, is stopped; the others stay as they are, or those in a call on x are woken.
Moves(t) ==
  /\ pc'[t] = pc[t] + 1 /\ status'[t] = "ready"
  /\ \A u \in Threads : u # t => pc'[u] = pc[u]
Stays(t) ==
  /\ status'[t] = "waiting"
  /\ \A u \in Threads : pc'[u] = pc[u] /\ (u # t => status'[u] = status[u])
  /\ count' = count /\ holder' = holder /\ messages' = messages
Wakes(t, f, x) ==
  \A u \in Threads : u # t =>
    status'[u] = IF status[u] = "waiting" /\ Is(Now(u), f, x) THEN "woken" ELSE status[u]
WakesNone(t) == \A u \in Threads : u # t => status'[u] = status[u]

LEMMA StepContext ==
  ASSUME NEW t \in Threads, Step(t)
  PROVE  /\ index' = index /\ blocks' = blocks /\ found' = found
         /\ ~failed' => ~failed
         /\ Running /\ Active(t) /\ \A u \in Above(t) : ~Active(u)
<1>1. index' = index /\ blocks' = blocks /\ found' = found
  BY DEF Step, Suspend, Posts, Waits, Sends, Receives, Locks, Unlocks, Joins, FallsAsleep, Creates, Ends, Goes, testVars
<1>2. ~failed' => ~failed
  BY DEF Step, Suspend, Posts, Waits, Sends, Receives, Locks, Unlocks, Joins, FallsAsleep, Creates, Ends, Goes, testVars
<1> QED
  BY <1>1, <1>2, StepByCall

LEMMA HaltFacts ==
  ASSUME PartTypes, NEW t \in Threads, Step(t), ~Returns(t)
  PROVE  Stays(t)
  BY StepByCall, SuspendFacts DEF Stays

LEMMA GoesWakes ==
  ASSUME PartTypes, NEW t \in Threads, NEW f, NEW x, Active(t), Goes(t, Suspended(f, x))
  PROVE  Moves(t) /\ Wakes(t, f, x)
<1>1. /\ pc'[t] = pc[t] + 1 /\ status'[t] = "ready"
      /\ \A u \in Threads : u # t => pc'[u] = pc[u]
  BY WokenWait, GoesFacts
<1>2. \A u \in Threads : u # t => status'[u] = IF u \in Suspended(f, x) THEN "woken" ELSE status[u]
  BY WokenWait, GoesFacts
<1> QED
  BY <1>1, <1>2 DEF Moves, Wakes, Suspended, Is

LEMMA GoesAlone ==
  ASSUME PartTypes, NEW t \in Threads, Active(t), Goes(t, {})
  PROVE  Moves(t) /\ WakesNone(t)
  BY GoesFacts DEF Moves, WakesNone

LEMMA PostFacts ==
  ASSUME PartTypes, NEW t \in Threads, Step(t), NEW s \in Semaphores, Is(Now(t), "post", s)
  PROVE  /\ Moves(t) /\ Wakes(t, "wait", s)
         /\ count'[s] = count[s] + 1 /\ \A x \in Semaphores : x # s => count'[x] = count[x]
         /\ holder' = holder /\ messages' = messages
<1>1. Returns(t)
  BY DEF Is, Returns
<1>2. Posts(t) /\ Active(t)
  BY <1>1, StepByCall DEF Is
<1>3. count' = [count EXCEPT ![s] = @ + 1] /\ Goes(t, Suspended("wait", s)) /\ holder' = holder /\ messages' = messages
  BY <1>2 DEF Posts, Is
<1> QED
  BY <1>2, <1>3, GoesWakes DEF PartTypes

LEMMA WaitFacts ==
  ASSUME PartTypes, NEW t \in Threads, Step(t), NEW s \in Semaphores, Is(Now(t), "wait", s)
  PROVE  /\ count[s] = 0 => Stays(t)
         /\ count[s] > 0 =>
              /\ Moves(t) /\ WakesNone(t)
              /\ count'[s] = count[s] - 1 /\ \A x \in Semaphores : x # s => count'[x] = count[x]
              /\ holder' = holder /\ messages' = messages
<1>1. CASE count[s] = 0
  <2>1. ~Returns(t)
    BY <1>1 DEF Is, Returns
  <2> QED
    BY <1>1, <2>1, HaltFacts
<1>2. CASE count[s] > 0
  <2>1. Returns(t)
    BY <1>2 DEF Is, Returns
  <2>2. Waits(t) /\ Active(t)
    BY <2>1, StepByCall DEF Is
  <2>3. count' = [count EXCEPT ![s] = @ - 1] /\ Goes(t, {}) /\ holder' = holder /\ messages' = messages
    BY <2>2 DEF Waits, Is
  <2> QED
    BY <1>2, <2>2, <2>3, GoesAlone DEF PartTypes
<1> QED
  BY <1>1, <1>2 DEF PartTypes

LEMMA LockFacts ==
  ASSUME PartTypes, NEW t \in Threads, Step(t), Is(Now(t), "lock", "lock")
  PROVE  /\ holder \notin {"free", t} => Stays(t)
         /\ holder \in {"free", t} =>
              /\ Moves(t) /\ WakesNone(t)
              /\ holder' = t /\ count' = count /\ messages' = messages
<1>1. CASE holder \notin {"free", t}
  <2>1. ~Returns(t)
    BY <1>1 DEF Is, Returns
  <2> QED
    BY <1>1, <2>1, HaltFacts
<1>2. CASE holder \in {"free", t}
  <2>1. Returns(t)
    BY <1>2 DEF Is, Returns
  <2>2. Locks(t) /\ Active(t)
    BY <2>1, StepByCall DEF Is
  <2>3. holder' = t /\ Goes(t, {}) /\ count' = count /\ messages' = messages
    BY <2>2 DEF Locks
  <2> QED
    BY <1>2, <2>2, <2>3, GoesAlone
<1> QED
  BY <1>1, <1>2

LEMMA UnlockFacts ==
  ASSUME PartTypes, NEW t \in Threads, Step(t), Is(Now(t), "unlock", "lock")
  PROVE  /\ Moves(t) /\ Wakes(t, "lock", "lock")
         /\ holder' = "free" \/ (holder' \in Threads /\ holder' # t /\ status[holder'] = "waiting" /\ Is(Now(holder'), "lock", "lock"))
         /\ count' = count /\ messages' = messages
<1>1. Returns(t)
  BY DEF Is, Returns
<1>2. Unlocks(t) /\ Active(t)
  BY <1>1, StepByCall DEF Is
<1>3. /\ holder' \in {"free"} \cup Suspended("lock", "lock") /\ Goes(t, Suspended("lock", "lock"))
      /\ count' = count /\ messages' = messages
  BY <1>2 DEF Unlocks
<1>4. Moves(t) /\ Wakes(t, "lock", "lock")
  BY <1>2, <1>3, GoesWakes
<1>5. holder' = "free" \/ (holder' \in Threads /\ holder' # t /\ status[holder'] = "waiting" /\ Is(Now(holder'), "lock", "lock"))
  BY <1>2, <1>3 DEF Suspended, Is, Active
<1> QED
  BY <1>3, <1>4, <1>5

LEMMA SendFacts ==
  ASSUME PartTypes, NEW t \in Threads, Step(t), Is(Now(t), "send", "mq")
  PROVE  /\ messages = 1 /\ blocks => Stays(t)
         /\ messages = 0 =>
              /\ Moves(t) /\ Wakes(t, "receive", "mq")
              /\ messages' = 1 /\ count' = count /\ holder' = holder
         /\ messages = 1 /\ ~blocks =>
              /\ Moves(t) /\ Wakes(t, "receive", "mq")
              /\ messages' = 1 /\ count' = count /\ holder' = holder
<1>1. CASE messages = 1 /\ blocks
  <2>1. ~Returns(t)
    BY <1>1 DEF Is, Returns, MaxMsg
  <2> QED
    BY <1>1, <2>1, HaltFacts
<1>2. CASE messages = 0 \/ ~blocks
  <2>1. Returns(t)
    BY <1>2 DEF Is, Returns, MaxMsg
  <2>2. Sends(t) /\ Active(t)
    BY <2>1, StepByCall DEF Is
  <2>3. /\ messages' = IF messages < 1 THEN messages + 1 ELSE messages
        /\ Goes(t, Suspended("receive", "mq")) /\ count' = count /\ holder' = holder
    BY <2>2 DEF Sends, MaxMsg
  <2>4. Moves(t) /\ Wakes(t, "receive", "mq")
    BY <2>2, <2>3, GoesWakes
  <2> QED
    BY <1>2, <2>3, <2>4 DEF PartTypes, MaxMsg
<1> QED
  BY <1>1, <1>2 DEF PartTypes, MaxMsg

LEMMA ReceiveFacts ==
  ASSUME PartTypes, NEW t \in Threads, Step(t), Is(Now(t), "receive", "mq")
  PROVE  /\ messages = 0 => Stays(t)
         /\ messages = 1 =>
              /\ Moves(t) /\ Wakes(t, "send", "mq")
              /\ messages' = 0 /\ count' = count /\ holder' = holder
<1>1. CASE messages = 0
  <2>1. ~Returns(t)
    BY <1>1 DEF Is, Returns
  <2> QED
    BY <1>1, <2>1, HaltFacts
<1>2. CASE messages = 1
  <2>1. Returns(t)
    BY <1>2 DEF Is, Returns
  <2>2. Receives(t) /\ Active(t)
    BY <2>1, StepByCall DEF Is
  <2>3. /\ messages' = 0
        /\ Goes(t, Suspended("send", "mq")) /\ count' = count /\ holder' = holder
    BY <1>2, <2>2 DEF Receives
  <2> QED
    BY <1>2, <2>2, <2>3, GoesWakes
<1> QED
  BY <1>1, <1>2

LEMMA JoinFacts ==
  ASSUME PartTypes, NEW t \in Threads, Step(t), Now(t).does = "join"
  PROVE  /\ Stays(t) \/ (Moves(t) /\ WakesNone(t))
         /\ count' = count /\ holder' = holder /\ messages' = messages
<1>1. CASE ~Returns(t)
  BY <1>1, HaltFacts DEF Stays
<1>2. CASE Returns(t)
  <2>1. Joins(t) /\ Active(t)
    BY <1>2, StepByCall
  <2> QED
    BY <2>1, GoesAlone DEF Joins, objectVars
<1> QED
  BY <1>1, <1>2

LEMMA SleepFacts ==
  ASSUME PartTypes, NEW t \in Threads, Step(t), Now(t).does = "sleep"
  PROVE  /\ pc'[t] = pc[t] + 1 /\ status'[t] = "asleep"
         /\ \A u \in Threads : u # t => pc'[u] = pc[u]
         /\ WakesNone(t)
         /\ count' = count /\ holder' = holder /\ messages' = messages
<1>1. Returns(t)
  BY DEF Returns
<1>2. FallsAsleep(t)
  BY <1>1, StepByCall
<1> QED
  BY <1>2, FallsAsleepFacts DEF WakesNone

LEMMA ReturnFacts ==
  ASSUME PartTypes, NEW t \in Threads, Step(t), Now(t).does = "return"
  PROVE  /\ \A u \in Threads : pc'[u] = pc[u]
         /\ status'[t] = "ended"
         /\ \A u \in Threads : u # t => status'[u] = status[u] \/ (status[u] = "waiting" /\ Now(u).does = "join" /\ status'[u] = "woken")
         /\ count' = count /\ holder' = holder /\ messages' = messages
<1>1. Returns(t)
  BY DEF Returns
<1>2. Ends(t)
  BY <1>1, StepByCall
<1> QED
  BY <1>2, EndsFacts

LEMMA CreateFacts ==
  ASSUME GeneralInv, NEW t \in Threads, Step(t), Now(t).does = "create", ~failed'
  PROVE  /\ t = "high" /\ Moves(t) /\ status["high"] = "ready"
         /\ \A u \in Threads \ {"high"} : status'[u] = IF u = Now(t).on THEN "ready" ELSE status[u]
         /\ Now(t).on \in Threads \ {"high"}
         /\ count' = count /\ holder' = holder /\ messages' = messages
<1>1. Returns(t)
  BY DEF Returns
<1>2. Creates(t)
  BY <1>1, StepByCall
<1> QED
  BY <1>2, CreatesFacts DEF Moves

-----------------------------------------------------------------------------
(* 4_2, 6_2 and 6_4 *)

\* The queue blocks where the test needs it to.
Honest == Test \in {"6_2", "7_3"} => blocks

\* The place of a helper, which has none before it wakes up on CPU 0.
At2(t) == IF pc[t] = 1 THEN 2 ELSE pc[t]

\* What the object of the test holds when so much more has been given than taken.
Object(given) ==
  IF Test = "4_2" THEN count["sem"] = given
  ELSE IF Test = "5_3" THEN count["test_object"] = given
  ELSE IF Test \in {"6_2", "7_3"} THEN messages = 1 - given
  ELSE messages = given

\* The low thread has given as much as the high one has taken, or one more and
\* the high one is about to take it.
HandedRow(given) ==
  /\ Object(given)
  /\ At2("low") + 1 = pc["high"] + given
  /\ \/ status["high"] = "woken" /\ given = 1
     \/ status["high"] \in {"ready", "waiting"} /\ given = 0

HandedAt(top) ==
  /\ pc["high"] < 3 => Object(0)
  /\ pc["high"] \in 3..top => HandedRow(0) \/ HandedRow(1)
  /\ pc["high"] > top => Object(0) /\ At2("low") = top

HandedInv == Running /\ Test \in Handing /\ ~failed /\ Honest => HandedAt(2 * Iterations + 4)

\* The calls of the two threads.
LEMMA HandingCalls ==
  ASSUME Running, Test \in Handing
  PROVE  /\ pc["high"] = 1 => Now("high").does = "sleep"
         /\ pc["high"] = 2 => Now("high").does = "create"
         /\ pc["high"] \in 3..(2 * Iterations + 4) =>
              Is(Now("high"), HighCall.does, HighCall.on)
              /\ Now("high").timed = IF pc["high"] \in 4..(Iterations + 3) THEN "suspends" ELSE "no"
         /\ pc["high"] = 2 * Iterations + 5 => Is(Now("high"), "join", "low") /\ Now("high").timed = "no"
         /\ pc["low"] = 1 => Now("low").does = "sleep" /\ Now("low").timed = "no"
         /\ pc["low"] \in 2..(2 * Iterations + 3) =>
              Is(Now("low"), LowCall.does, LowCall.on)
              /\ Now("low").timed = IF pc["low"] >= Iterations + 4 THEN "resumes higher" ELSE "no"
<1>0. Test \in {"4_2", "6_2", "6_4"}
  BY DEF Handing
<1>1. Now("high") = Nth(Program("high"), pc["high"]) /\ Now("low") = Nth(Program("low"), pc["low"])
  BY DEF Now, Nth
<1>2. /\ pc["high"] = 1 => Now("high").does = "sleep"
      /\ pc["high"] = 2 => Now("high").does = "create"
      /\ pc["high"] = 2 * Iterations + 5 => Is(Now("high"), "join", "low") /\ Now("high").timed = "no"
  BY <1>0, <1>1, HandingHighKinds DEF Makes, Is
<1>3. pc["high"] \in 3..(2 * Iterations + 4) =>
        Is(Now("high"), HighCall.does, HighCall.on)
        /\ Now("high").timed = IF pc["high"] \in 4..(Iterations + 3) THEN "suspends" ELSE "no"
  BY <1>0, <1>1, HandingHighKinds DEF Makes, Is
<1>4. /\ pc["low"] = 1 => Now("low").does = "sleep" /\ Now("low").timed = "no"
      /\ pc["low"] \in 2..(2 * Iterations + 3) =>
              Is(Now("low"), LowCall.does, LowCall.on)
              /\ Now("low").timed = IF pc["low"] >= Iterations + 4 THEN "resumes higher" ELSE "no"
  BY <1>0, <1>1, HandingLowKinds DEF Makes, Is
<1> QED
  BY <1>2, <1>3, <1>4

LEMMA HandingSizes ==
  ASSUME Test \in Handing
  PROVE  Size("high") = 2 * Iterations + 6 /\ Size("low") = 2 * Iterations + 4
  BY HandingHighKinds, HandingLowKinds DEF Size, Handing

LEMMA LowGives ==
  ASSUME GeneralInv, Test \in Handing, Step("low"),
         pc["low"] \in 2..(2 * Iterations + 3), Object(0)
  PROVE  Object(1)' /\ Goes("low", Suspended(HighCall.does, HighCall.on))
<1>1. Running /\ (Returns("low") => ~Suspend("low"))
  BY StepByCall DEF Threads
<1>2. Is(Now("low"), LowCall.does, LowCall.on)
  BY <1>1, HandingCalls
<1>3. CASE Test = "4_2"
  <2>1. Now("low").does = "post" /\ Now("low").on = "sem" /\ Is(HighCall, "wait", "sem")
    BY <1>2, <1>3, CallsUnderTest DEF Is
  <2>2. Returns("low")
    BY <2>1 DEF Returns
  <2>3. Posts("low")
    BY <2>1, <2>2, StepByCall DEF Threads
  <2>4. count' = [count EXCEPT !["sem"] = @ + 1] /\ Goes("low", Suspended("wait", "sem"))
    BY <2>1, <2>3 DEF Posts
  <2>5. Test' = Test
    BY <2>4, SameProgram DEF Goes, testVars
  <2> QED
    BY <2>1, <2>4, <2>5, <1>3 DEF Object, Is, GeneralInv, PartTypes, Semaphores
<1>4. CASE Test = "6_2"
  <2>1. Now("low").does = "receive" /\ Now("low").on = "mq" /\ Is(HighCall, "send", "mq") /\ messages = 1
    BY <1>2, <1>4, CallsUnderTest DEF Is, Object
  <2>2. Returns("low")
    BY <2>1 DEF Returns
  <2>3. Receives("low")
    BY <2>1, <2>2, StepByCall DEF Threads
  <2>4. messages' = messages - 1 /\ Goes("low", Suspended("send", "mq"))
    BY <2>1, <2>3 DEF Receives
  <2>5. Test' = Test
    BY <2>4, SameProgram DEF Goes, testVars
  <2> QED
    BY <2>1, <2>4, <2>5, <1>4 DEF Object, Is
<1>5. CASE Test = "6_4"
  <2>1. Now("low").does = "send" /\ Now("low").on = "mq" /\ Is(HighCall, "receive", "mq") /\ messages = 0
    BY <1>2, <1>5, CallsUnderTest DEF Is, Object
  <2>2. Returns("low")
    BY <2>1 DEF Returns, MaxMsg
  <2>3. Sends("low")
    BY <2>1, <2>2, StepByCall DEF Threads
  <2>4. messages' = 1 /\ Goes("low", Suspended("receive", "mq"))
    BY <2>1, <2>3 DEF Sends, MaxMsg
  <2>5. Test' = Test
    BY <2>4, SameProgram DEF Goes, testVars
  <2> QED
    BY <2>1, <2>4, <2>5, <1>5 DEF Object, Is
<1> QED
  BY <1>3, <1>4, <1>5 DEF Handing

LEMMA HighTakes ==
  ASSUME GeneralInv, Test \in Handing, Honest, Step("high"),
         pc["high"] \in 3..(2 * Iterations + 4)
  PROVE  /\ Object(0) => Suspend("high")
         /\ Object(1) => Object(0)' /\ \E S \in SUBSET {u \in Threads : status[u] = "waiting"} : Goes("high", S)
<1>1. Running /\ (Returns("high") => ~Suspend("high")) /\ (~Returns("high") => Suspend("high"))
  BY StepByCall DEF Threads
<1>2. Is(Now("high"), HighCall.does, HighCall.on)
  BY <1>1, HandingCalls
<1>a. \A f, x : Suspended(f, x) \in SUBSET {u \in Threads : status[u] = "waiting"}
  BY DEF Suspended
<1>b. {} \in SUBSET {u \in Threads : status[u] = "waiting"}
  OBVIOUS
<1>3. CASE Test = "4_2"
  <2>1. Now("high").does = "wait" /\ Now("high").on = "sem"
    BY <1>2, <1>3, CallsUnderTest DEF Is
  <2>2. Object(0) => ~Returns("high")
    BY <2>1, <1>3 DEF Returns, Object
  <2>3. ASSUME Object(1)
        PROVE  Object(0)' /\ Goes("high", {})
    <3>1. Returns("high")
      BY <2>1, <2>3, <1>3 DEF Returns, Object
    <3>2. Waits("high")
      BY <2>1, <3>1, StepByCall DEF Threads
    <3>3. count' = [count EXCEPT !["sem"] = @ - 1] /\ Goes("high", {})
      BY <2>1, <3>2 DEF Waits
    <3>4. Test' = Test
      BY <3>3, SameProgram DEF Goes, testVars
    <3> QED
      BY <2>3, <3>3, <3>4, <1>3 DEF Object, GeneralInv, PartTypes, Semaphores
  <2> QED
    BY <2>2, <2>3, <1>1, <1>b
<1>4. CASE Test = "6_2"
  <2>1. Now("high").does = "send" /\ Now("high").on = "mq" /\ blocks
    BY <1>2, <1>4, CallsUnderTest DEF Is, Honest
  <2>2. Object(0) => ~Returns("high")
    BY <2>1, <1>4 DEF Returns, Object, MaxMsg
  <2>3. ASSUME Object(1)
        PROVE  Object(0)' /\ Goes("high", Suspended("receive", "mq"))
    <3>1. Returns("high") /\ messages = 0
      BY <2>1, <2>3, <1>4 DEF Returns, Object, MaxMsg
    <3>2. Sends("high")
      BY <2>1, <3>1, StepByCall DEF Threads
    <3>3. messages' = 1 /\ Goes("high", Suspended("receive", "mq"))
      BY <2>1, <3>1, <3>2 DEF Sends, MaxMsg
    <3>4. Test' = Test
      BY <3>3, SameProgram DEF Goes, testVars
    <3> QED
      BY <3>3, <3>4, <1>4 DEF Object
  <2> QED
    BY <2>2, <2>3, <1>1, <1>a
<1>5. CASE Test = "6_4"
  <2>1. Now("high").does = "receive" /\ Now("high").on = "mq"
    BY <1>2, <1>5, CallsUnderTest DEF Is
  <2>2. Object(0) => ~Returns("high")
    BY <2>1, <1>5 DEF Returns, Object
  <2>3. ASSUME Object(1)
        PROVE  Object(0)' /\ Goes("high", Suspended("send", "mq"))
    <3>1. Returns("high") /\ messages = 1
      BY <2>1, <2>3, <1>5 DEF Returns, Object
    <3>2. Receives("high")
      BY <2>1, <3>1, StepByCall DEF Threads
    <3>3. messages' = 0 /\ Goes("high", Suspended("send", "mq"))
      BY <2>1, <3>1, <3>2 DEF Receives
    <3>4. Test' = Test
      BY <3>3, SameProgram DEF Goes, testVars
    <3> QED
      BY <3>3, <3>4, <1>5 DEF Object
  <2> QED
    BY <2>2, <2>3, <1>1, <1>a
<1> QED
  BY <1>3, <1>4, <1>5 DEF Handing

LEMMA SameObject ==
  ASSUME index' = index, count' = count, messages' = messages
  PROVE  \A g : Object(g)' = Object(g)
  BY SameProgram DEF Object

LEMMA SameHonesty ==
  ASSUME index' = index, blocks' = blocks
  PROVE  Honest' = Honest
  BY SameProgram DEF Honest

\* A test starts with its objects as they are between two turns.
LEMMA StartsObjects ==
  ASSUME NEW i, Starts(i), Running'
  PROVE  /\ Object(0)' /\ \A t \in Threads : pc'[t] = 1
         /\ holder' = "free" /\ \A s \in Semaphores : count'[s] = 0
<1>1. Test' = Tests[i] /\ i \in DOMAIN Tests
  BY DEF Starts, Test, Running, Threaded
<1>2. /\ \A t \in Threads : pc'[t] = 1 
      /\ holder' = "free" /\ \A s \in Semaphores : count'[s] = 0
      /\ messages' = Prefill(Test')
  BY <1>1 DEF Starts
<1> QED
  BY <1>1, <1>2 DEF Object, Prefill, Semaphores

LEMMA HandedStep ==
  ASSUME GeneralInv, GeneralInv', HandedInv, NEW t \in Threads, Step(t)
  PROVE  HandedInv'
<1> DEFINE Top == 2 * Iterations + 4
<1> SUFFICES ASSUME Running', (Test \in Handing)', ~failed', Honest'
             PROVE  HandedAt(Top)'
  BY DEF HandedInv
<1>0. Iterations \in Nat \ {0} /\ Top \in Nat /\ Top > 5
  BY RealtimeAssumption
<1>1. Running /\ Active(t) /\ PartTypes /\ \A u \in Above(t) : ~Active(u)
  BY StepByCall DEF GeneralInv
<1>2. index' = index /\ blocks' = blocks
  BY DEF Step, Suspend, Posts, Waits, Sends, Receives, Locks, Unlocks, Joins, FallsAsleep, Creates, Ends, Goes, testVars
<1>3. Test' = Test /\ Honest' = Honest /\ \A u : Size(u)' = Size(u)
  BY <1>2, SameProgram, SameHonesty
<1>4. Test \in Handing /\ Honest /\ Test \in Suspending /\ Test \notin Readying
  BY <1>3, TestKinds
<1>5. status["middle"] = "none"
  BY <1>1, <1>4 DEF GeneralInv, NoMiddle
<1>6. t \in {"high", "low"}
  BY <1>1, <1>5 DEF Threads, Active
<1>7. /\ pc["high"] \in 1..Size("high") /\ pc["low"] \in 1..Size("low")
      /\ Size("high") = Top + 2 /\ Size("low") = Top
  <2>1. pc["high"] \in 1..Size("high") /\ pc["low"] \in 1..Size("low")
    BY <1>1 DEF GeneralInv, ProgressInv, Threads
  <2>2. Size("high") = Top + 2 /\ Size("low") = Top
    BY <1>0, <1>4, HandingSizes
  <2> QED
    BY <2>1, <2>2
<1>8. ~failed
  BY DEF Step, Suspend, Posts, Waits, Sends, Receives, Locks, Unlocks, Joins, FallsAsleep, Creates, Ends, Goes, testVars
<1> HIDE DEF Top
<1>9. /\ pc["high"] < 3 => Object(0)
      /\ pc["high"] \in 3..Top => HandedRow(0) \/ HandedRow(1)
      /\ pc["high"] > Top => Object(0) /\ At2("low") = Top
  BY <1>1, <1>4, <1>8 DEF HandedInv, HandedAt, Top
<1>a. /\ pc["high"] < 3 => status["low"] = "none" /\ pc["low"] = 1
      /\ pc["high"] >= 3 => status["low"] # "none"
  BY <1>1, <1>4, <1>7, <1>8 DEF GeneralInv, CreatedInv, ProgressInv, Threads
<1>10. CASE t = "high"
  <2>1. CASE pc["high"] = 1
    <3>1. Now("high").does = "sleep" /\ Returns("high")
      BY <2>1, <1>1, <1>4, HandingCalls DEF Returns
    <3>2. FallsAsleep("high")
      BY <3>1, <1>10, StepByCall
    <3>3. pc'["high"] = 2 /\ Object(0)'
      BY <3>2, <2>1, <1>1, <1>9, <1>10, FallsAsleepFacts, SameObject
    <3> QED
      BY <3>3, <1>0 DEF HandedAt
  <2>2. CASE pc["high"] = 2
    <3>1. Now("high").does = "create" /\ Returns("high")
      BY <2>2, <1>1, <1>4, HandingCalls DEF Returns
    <3>2. Creates("high")
      BY <3>1, <1>10, StepByCall
    <3>3. /\ pc'["high"] = 3 /\ pc'["low"] = 1 /\ status'["high"] = "ready" /\ Object(0)'
      BY <3>2, <2>2, <1>a, <1>9, CreatesFacts, SameObject DEF Threads
    <3>4. HandedRow(0)'
      BY <3>3 DEF HandedRow, At2
    <3> QED
      BY <3>3, <3>4, <1>0 DEF HandedAt
  <2>3. CASE pc["high"] \in 3..Top
    <3>1. CASE HandedRow(0)
      <4>1. Suspend("high")
        BY <3>1, <2>3, <1>4, <1>10, HighTakes DEF HandedRow, Top
      <4>2. /\ pc' = pc /\ status'["high"] = "waiting" /\ Object(0)'
        BY <4>1, <3>1, <1>1, SuspendFacts, SameObject DEF HandedRow, Threads
      <4>3. HandedRow(0)'
        BY <4>2, <3>1 DEF HandedRow, At2
      <4> QED
        BY <4>2, <4>3, <2>3, <1>0 DEF HandedAt
    <3>2. CASE HandedRow(1)
      <4>1. Object(0)' /\ \E S \in SUBSET {u \in Threads : status[u] = "waiting"} : Goes("high", S)
        BY <3>2, <2>3, <1>4, <1>10, HighTakes DEF HandedRow, Top
      <4>2. PICK S \in SUBSET {u \in Threads : status[u] = "waiting"} : Goes("high", S)
        BY <4>1
      <4>3. pc'["high"] = pc["high"] + 1 /\ pc'["low"] = pc["low"] /\ status'["high"] = "ready"
        BY <4>2, <1>1, <1>10, GoesFacts DEF Threads
      <4>4. At2("low")' = At2("low") /\ At2("low") = pc["high"]
        BY <4>3, <3>2, <1>7, <2>3 DEF At2, HandedRow
      <4>5. HandedRow(0)'
        BY <4>1, <4>3, <4>4, <1>7 DEF HandedRow
      <4> QED
        BY <4>1, <4>3, <4>4, <4>5, <2>3, <1>0, <1>7 DEF HandedAt
    <3> QED
      BY <3>1, <3>2, <2>3, <1>9
  <2>4. CASE pc["high"] > Top
    <3>1. pc' = pc \/ (pc'["high"] = pc["high"] + 1 /\ pc'["low"] = pc["low"])
      <4>1. CASE Returns("high") /\ pc["high"] = Top + 1
        <5>1. Joins("high")
          <6>1. Now("high").does = "join"
            <7>1. pc["high"] = 2 * Iterations + 5
              BY <4>1, <1>0 DEF Top
            <7> QED
              BY <7>1, <1>1, <1>4, HandingCalls DEF Is
          <6> QED
            BY <6>1, <4>1, <1>10, StepByCall
        <5> QED
          BY <5>1, <1>1, <1>10, GoesFacts DEF Joins, Threads
      <4>2. CASE ~Returns("high")
        BY <4>2, <1>1, <1>10, StepByCall, SuspendFacts
      <4>3. CASE Returns("high") /\ pc["high"] = Top + 2
        <5>1. Ends("high")
          BY <4>3, <1>1, <1>7, <1>10, NowFits, StepByCall DEF Fits
        <5> QED
          BY <5>1, <1>1, EndsFacts, <1>10
      <4> QED
        BY <4>1, <4>2, <4>3, <2>4, <1>0, <1>7
    <3>2. count' = count /\ messages' = messages
      <4>1. CASE Returns("high") /\ pc["high"] = Top + 1
        <5>1. Joins("high")
          <6>1. Now("high").does = "join"
            <7>1. pc["high"] = 2 * Iterations + 5
              BY <4>1, <1>0 DEF Top
            <7> QED
              BY <7>1, <1>1, <1>4, HandingCalls DEF Is
          <6> QED
            BY <6>1, <4>1, <1>10, StepByCall
        <5> QED
          BY <5>1 DEF Joins, objectVars
      <4>2. CASE ~Returns("high")
        BY <4>2, <1>1, <1>10, StepByCall, SuspendFacts
      <4>3. CASE Returns("high") /\ pc["high"] = Top + 2
        <5>1. Ends("high")
          BY <4>3, <1>1, <1>7, <1>10, NowFits, StepByCall DEF Fits
        <5> QED
          BY <5>1, <1>1, EndsFacts, <1>10
      <4> QED
        BY <4>1, <4>2, <4>3, <2>4, <1>0, <1>7
    <3>3. Object(0)' /\ At2("low")' = Top
      BY <3>1, <3>2, <2>4, <1>2, <1>9, SameObject DEF At2
    <3> QED
      BY <3>1, <3>3, <2>4, <1>0, <1>7 DEF HandedAt
  <2> QED
    BY <2>1, <2>2, <2>3, <2>4, <1>0, <1>7
<1>11. CASE t = "low"
  <2>0. pc["high"] >= 3
    BY <1>1, <1>11, <1>a, <1>7 DEF Active
  <2>1. CASE pc["low"] = 1
    <3>1. Now("low").does = "sleep" /\ Returns("low")
      BY <2>1, <1>1, <1>4, HandingCalls DEF Returns
    <3>2. FallsAsleep("low")
      BY <3>1, <1>11, StepByCall
    <3>3. pc'["high"] = pc["high"] /\ pc'["low"] = 2 /\ status'["high"] = status["high"] /\ \A g : Object(g)' = Object(g)
      BY <3>2, <2>1, <1>1, <1>11, FallsAsleepFacts, SameObject DEF Threads
    <3>4. At2("low")' = At2("low")
      BY <3>3, <2>1 DEF At2
    <3> QED
      BY <3>3, <3>4, <1>9 DEF HandedRow, HandedAt
  <2>2. CASE pc["low"] \in 2..(Top - 1)
    <3>1. pc["high"] \in 3..Top /\ status["high"] = "waiting" /\ HandedRow(0)
      <4>1. "high" \in Above("low") /\ ~Active("high")
        BY <1>1, <1>11 DEF Above, Threads
      <4>2. At2("low") # Top
        BY <2>2, <1>0 DEF At2
      <4> QED
        BY <4>1, <4>2, <2>0, <1>0, <1>7, <1>9 DEF Active, HandedRow
    <3>2. Object(1)' /\ Goes("low", Suspended(HighCall.does, HighCall.on))
      <4>1. Object(0)
        BY <3>1 DEF HandedRow
      <4>2. pc["low"] \in 2..(2 * Iterations + 3)
        BY <2>2, <1>0 DEF Top
      <4> QED
        BY <4>1, <4>2, <1>4, <1>11, LowGives
    <3>3. "high" \in Suspended(HighCall.does, HighCall.on)
      <4>1. Is(Now("high"), HighCall.does, HighCall.on)
        BY <3>1, <1>1, <1>4, HandingCalls DEF Top
      <4> QED
        BY <4>1, <3>1 DEF Suspended, Is, Threads
    <3>4. pc'["low"] = pc["low"] + 1 /\ pc'["high"] = pc["high"] /\ status'["high"] = "woken"
      BY <3>2, <3>3, <1>1, <1>11, GoesFacts, WokenWait DEF Threads
    <3>5. HandedRow(1)'
      BY <3>1, <3>2, <3>4, <2>2, <1>0 DEF HandedRow, At2
    <3> QED
      BY <3>1, <3>4, <3>5, <1>0 DEF HandedAt
  <2>3. CASE pc["low"] = Top
    <3>1. Ends("low")
      <4>1. Now("low").does = "return" /\ Returns("low")
        BY <2>3, <1>1, <1>7, NowFits DEF Fits, Returns, Threads
      <4> QED
        BY <4>1, <1>11, StepByCall
    <3>2. pc["high"] > Top
      BY <2>0, <2>3, <1>1, <1>7, <1>9, <1>0, <1>11 DEF HandedRow, At2, Active, Above, Threads
    <3>3. pc' = pc /\ Object(0)'
      BY <3>1, <3>2, <1>1, <1>9, <1>11, EndsFacts, SameObject
    <3> QED
      BY <3>2, <3>3, <1>0, <1>7, <1>9 DEF At2, HandedAt
  <2> QED
    BY <2>1, <2>2, <2>3, <1>7, <1>0
<1> QED
  BY <1>6, <1>10, <1>11

LEMMA HandedKeeps ==
  ASSUME GeneralInv, HandedInv, [Next]_vars
  PROVE  HandedInv'
<1>0. GeneralInv' /\ Iterations \in Nat \ {0}
  BY NextKeeps, RealtimeAssumption
<1>1. ASSUME NEW i, Starts(i)
      PROVE  HandedInv'
  <2> SUFFICES ASSUME Running'
               PROVE  HandedAt(2 * Iterations + 4)'
    BY DEF HandedInv
  <2>1. Object(0)' /\ pc'["high"] = 1
    BY <1>1, StartsObjects DEF Threads
  <2> QED
    BY <2>1, <1>0 DEF HandedAt
<1>2. CASE WakesUp
  <2> DEFINE Top == 2 * Iterations + 4
  <2> SUFFICES ASSUME Running', (Test \in Handing)', ~failed', Honest'
               PROVE  HandedAt(Top)'
    BY DEF HandedInv
  <2>1. UNCHANGED <<index, blocks, found, failed, pc, objectVars>>
    BY <1>2 DEF WakesUp, testVars
  <2>2. Test' = Test /\ Honest' = Honest /\ Running' = Running /\ \A g : Object(g)' = Object(g)
    BY <2>1, SameProgram, SameHonesty, SameObject DEF objectVars
  <2>3. HandedAt(Top)
    BY <2>1, <2>2 DEF HandedInv
  <2>4. status'["high"] = status["high"] \/ (status["high"] = "asleep")
    BY <1>2, WakesUpKeeps DEF Threads
  <2>5. At2("low")' = At2("low")
    BY <2>1 DEF At2
  <2>6. HandedRow(0) => HandedRow(0)'
    BY <2>1, <2>2, <2>4, <2>5 DEF HandedRow
  <2>7. HandedRow(1) => HandedRow(1)'
    BY <2>1, <2>2, <2>4, <2>5 DEF HandedRow
  <2> HIDE DEF Top
  <2> QED
    BY <2>1, <2>2, <2>3, <2>5, <2>6, <2>7 DEF HandedAt
<1>3. ASSUME NEW t \in Threads, Step(t)
      PROVE  HandedInv'
  BY <1>0, <1>3, HandedStep
<1>4. CASE UNCHANGED vars
  <2>1. UNCHANGED <<index, blocks, found, failed, status, pc, sleepers, count, holder, messages>>
    BY <1>4 DEF vars, testVars, objectVars
  <2>2. Test' = Test /\ Honest' = Honest /\ Running' = Running /\ \A g : Object(g)' = Object(g)
    BY <2>1, SameProgram, SameHonesty, SameObject
  <2> QED
    BY <2>1, <2>2 DEF HandedInv, HandedAt, HandedRow, At2
<1> QED
  BY <1>1, <1>2, <1>3, <1>4 DEF Next, Begin, Finish, Probe

-----------------------------------------------------------------------------
(* 8_2 *)

LockerRow(n, h, l, owners, a, b, S) ==
  /\ pc["high"] = 4 * n + h /\ At2("low") = 4 * n + l /\ holder \in owners
  /\ count["to_locker"] = a /\ count["to_unlocker"] = b /\ status["high"] \in S

\* In the turn n of the low thread the high one waits to be told, the mutex is
\* locked, told of and asked for ...
Idle(n) == LockerRow(n, 3, 2, {"free"}, 0, 0, {"ready", "waiting"})
Locked(n) == LockerRow(n, 3, 3, {"low"}, 0, 0, {"waiting"})
Told(n) == LockerRow(n, 3, 4, {"low"}, 1, 0, {"woken"})
Asked(n) == LockerRow(n, 4, 4, {"low"}, 0, 0, {"ready", "waiting"})
\* ... and the high thread gets it, has it, gives it up and says so.
Freed(n) == LockerRow(n, 4, 5, {"free", "high"}, 0, 0, {"woken"})
Owned(n) == LockerRow(n, 5, 5, {"high"}, 0, 0, {"ready"})
Released(n) == LockerRow(n, 6, 5, {"free"}, 0, 0, {"ready"})
Answered(n) == LockerRow(n, 7, 5, {"free"}, 0, 1, {"ready", "waiting"})
\* After the last turn the low thread has only to end.
Ending(n) ==
  /\ pc["high"] \in {4 * n + 4, 4 * n + 5} /\ pc["low"] = 4 * n + 5 /\ holder = "free"
  /\ count["to_locker"] = 0 /\ count["to_unlocker"] = 0

LockAt(last) ==
  /\ pc["high"] < 3 => holder = "free" /\ count["to_locker"] = 0 /\ count["to_unlocker"] = 0
  /\ pc["high"] >= 3 =>
       \/ \E n \in 0..last : Idle(n) \/ Locked(n) \/ Told(n) \/ Asked(n)
       \/ \E n \in 0..(last - 1) : Freed(n) \/ Owned(n) \/ Released(n) \/ Answered(n)
       \/ Ending(last)

LockInv == Running /\ Test = "8_2" /\ ~failed => LockAt(2 * Iterations + 1)

LEMMA LockerHighCalls ==
  ASSUME Test = "8_2", NEW n \in 0..(2 * Iterations + 1)
  PROVE  /\ pc["high"] = 1 => Now("high").does = "sleep"
         /\ pc["high"] = 2 => Now("high").does = "create"
         /\ pc["high"] = 4 * n + 3 => Is(Now("high"), "wait", "to_locker") /\ Now("high").timed = "no"
         /\ n # 2 * Iterations + 1 /\ pc["high"] = 4 * n + 4 =>
              Is(Now("high"), "lock", "lock") /\ Now("high").timed = IF n < Iterations THEN "suspends" ELSE "no"
         /\ n # 2 * Iterations + 1 /\ pc["high"] = 4 * n + 5 => Is(Now("high"), "unlock", "lock") /\ Now("high").timed = "no"
         /\ n # 2 * Iterations + 1 /\ pc["high"] = 4 * n + 6 => Is(Now("high"), "post", "to_unlocker") /\ Now("high").timed = "no"
         /\ n = 2 * Iterations + 1 /\ pc["high"] = 4 * n + 4 => Is(Now("high"), "join", "low") /\ Now("high").timed = "no"
         /\ n = 2 * Iterations + 1 /\ pc["high"] = 4 * n + 5 => Now("high").does = "return"
<1>0. Iterations \in Nat \ {0}
  BY RealtimeAssumption
<1>1. Now("high") = Nth(Program("high"), pc["high"])
  BY DEF Now, Nth
<1>2. /\ pc["high"] = 1 => Now("high").does = "sleep"
      /\ pc["high"] = 2 => Now("high").does = "create"
  BY <1>1, LockerHighKinds DEF Makes
<1>3. pc["high"] = 4 * n + 3 => Is(Now("high"), "wait", "to_locker") /\ Now("high").timed = "no"
  BY <1>1, LockerHighKinds DEF Makes, Is
<1>4. ASSUME n # 2 * Iterations + 1
      PROVE  /\ pc["high"] = 4 * n + 4 =>
                  Is(Now("high"), "lock", "lock") /\ Now("high").timed = IF n < Iterations THEN "suspends" ELSE "no"
             /\ pc["high"] = 4 * n + 5 => Is(Now("high"), "unlock", "lock") /\ Now("high").timed = "no"
             /\ pc["high"] = 4 * n + 6 => Is(Now("high"), "post", "to_unlocker") /\ Now("high").timed = "no"
  <2>1. n \in 0..(2 * Iterations)
    BY <1>4, <1>0
  <2>2. /\ Makes("high", 4 * n + 4, "lock", "lock", IF n < Iterations THEN "suspends" ELSE "no")
        /\ Makes("high", 4 * n + 5, "unlock", "lock", "no")
        /\ Makes("high", 4 * n + 6, "post", "to_unlocker", "no")
    BY <2>1, LockerHighKinds
  <2> QED
    BY <1>1, <2>2 DEF Makes, Is
<1>5. ASSUME n = 2 * Iterations + 1
      PROVE  /\ pc["high"] = 4 * n + 4 => Is(Now("high"), "join", "low") /\ Now("high").timed = "no"
             /\ pc["high"] = 4 * n + 5 => Now("high").does = "return"
  <2>1. 4 * n + 4 = 8 * Iterations + 8 /\ 4 * n + 5 = 8 * Iterations + 9
    BY <1>5, <1>0
  <2>2. /\ Makes("high", 8 * Iterations + 8, "join", "low", "no")
        /\ Makes("high", 8 * Iterations + 9, "return", "high", "no")
    BY LockerHighKinds
  <2> QED
    BY <1>1, <2>1, <2>2 DEF Makes, Is
<1> QED
  BY <1>2, <1>3, <1>4, <1>5

LEMMA LockerLowCalls ==
  ASSUME Test = "8_2", NEW n \in 0..(2 * Iterations + 1)
  PROVE  /\ pc["low"] = 1 => Now("low").does = "sleep" /\ Now("low").timed = "no"
         /\ pc["low"] = 4 * n + 2 => Is(Now("low"), "lock", "lock") /\ Now("low").timed = "no"
         /\ pc["low"] = 4 * n + 3 => Is(Now("low"), "post", "to_locker") /\ Now("low").timed = "no"
         /\ pc["low"] = 4 * n + 4 =>
              Is(Now("low"), "unlock", "lock")
              /\ Now("low").timed = IF n \in (Iterations + 1)..(2 * Iterations) THEN "resumes higher" ELSE "no"
         /\ n # 2 * Iterations + 1 /\ pc["low"] = 4 * n + 5 => Is(Now("low"), "wait", "to_unlocker") /\ Now("low").timed = "no"
         /\ n = 2 * Iterations + 1 /\ pc["low"] = 4 * n + 5 => Now("low").does = "return" /\ Now("low").timed = "no"
<1>0. Iterations \in Nat \ {0}
  BY RealtimeAssumption
<1>1. Now("low") = Nth(Program("low"), pc["low"])
  BY DEF Now, Nth
<1>2. /\ pc["low"] = 1 => Now("low").does = "sleep" /\ Now("low").timed = "no"
      /\ pc["low"] = 4 * n + 2 => Is(Now("low"), "lock", "lock") /\ Now("low").timed = "no"
      /\ pc["low"] = 4 * n + 3 => Is(Now("low"), "post", "to_locker") /\ Now("low").timed = "no"
  <2>1. /\ Makes("low", 1, "sleep", "cpu 0", "no")
        /\ Makes("low", 4 * n + 2, "lock", "lock", "no")
        /\ Makes("low", 4 * n + 3, "post", "to_locker", "no")
    BY LockerLowKinds
  <2> QED
    BY <1>1, <2>1 DEF Makes, Is
<1>4. ASSUME n # 2 * Iterations + 1
      PROVE  /\ pc["low"] = 4 * n + 4 =>
                  Is(Now("low"), "unlock", "lock") /\ Now("low").timed = IF n > Iterations THEN "resumes higher" ELSE "no"
             /\ pc["low"] = 4 * n + 5 => Is(Now("low"), "wait", "to_unlocker") /\ Now("low").timed = "no"
  <2>1. n \in 0..(2 * Iterations)
    BY <1>4, <1>0
  <2>2. /\ Makes("low", 4 * n + 4, "unlock", "lock", IF n > Iterations THEN "resumes higher" ELSE "no")
        /\ Makes("low", 4 * n + 5, "wait", "to_unlocker", "no")
    BY <2>1, LockerLowKinds
  <2> QED
    BY <1>1, <2>2 DEF Makes, Is
<1>5. ASSUME n = 2 * Iterations + 1
      PROVE  /\ pc["low"] = 4 * n + 4 => Is(Now("low"), "unlock", "lock") /\ Now("low").timed = "no"
             /\ pc["low"] = 4 * n + 5 => Now("low").does = "return" /\ Now("low").timed = "no"
  <2>1. 4 * n + 4 = 8 * Iterations + 8 /\ 4 * n + 5 = 8 * Iterations + 9
    BY <1>5, <1>0
  <2>2. /\ Makes("low", 8 * Iterations + 8, "unlock", "lock", "no")
        /\ Makes("low", 8 * Iterations + 9, "return", "low", "no")
    BY LockerLowKinds
  <2> QED
    BY <1>1, <2>1, <2>2 DEF Makes, Is
<1>6. n # 2 * Iterations + 1 => (n > Iterations <=> n \in (Iterations + 1)..(2 * Iterations))
  BY <1>0
<1>7. n = 2 * Iterations + 1 => n \notin (Iterations + 1)..(2 * Iterations)
  BY <1>0
<1> QED
  BY <1>2, <1>4, <1>5, <1>6, <1>7

LEMMA IdleStep ==
  ASSUME GeneralInv, Test = "8_2", NEW n \in 0..(2 * Iterations + 1), Idle(n),
         NEW t \in {"high", "low"}, Step(t)
  PROVE  Idle(n)' \/ Locked(n)'
<1>0. PartTypes /\ t \in Threads /\ Active(t) /\ \A u \in Above(t) : ~Active(u)
  BY StepContext DEF GeneralInv, Threads
<1>1. pc["low"] \in Nat /\ pc["high"] \in Nat /\ Iterations \in Nat \ {0}
  BY <1>0, RealtimeAssumption DEF PartTypes, Threads
<1>2. CASE t = "high"
  <2>1. Is(Now("high"), "wait", "to_locker") /\ count["to_locker"] = 0
    BY LockerHighCalls DEF Idle, LockerRow
  <2>2. Stays("high")
    BY <1>0, <1>2, <2>1, WaitFacts DEF Semaphores
  <2>3. Idle(n)'
    BY <2>2 DEF Idle, LockerRow, At2, Stays, Threads
  <2> QED
    BY <2>3
<1>3. CASE t = "low"
  <2>0. status["high"] = "waiting"
    BY <1>0, <1>3 DEF Idle, LockerRow, Active, Above, Threads
  <2>1. CASE pc["low"] = 1
    <3>1. /\ pc'["low"] = 2 /\ pc'["high"] = pc["high"] /\ status'["high"] = status["high"]
          /\ count' = count /\ holder' = holder
      <4>1. Now("low").does = "sleep"
        BY <2>1, LockerLowCalls
      <4> QED
        BY <1>0, <1>3, <2>1, <4>1, SleepFacts DEF WakesNone, Threads
    <3>2. Idle(n)'
      BY <3>1, <2>1 DEF Idle, LockerRow, At2
    <3> QED
      BY <3>2
  <2>2. CASE pc["low"] # 1
    <3>1. pc["low"] = 4 * n + 2 /\ holder = "free"
      BY <2>2 DEF Idle, LockerRow, At2
    <3>2. Is(Now("low"), "lock", "lock")
      BY <3>1, LockerLowCalls
    <3>3. /\ pc'["low"] = 4 * n + 3 /\ pc'["high"] = pc["high"] /\ status'["high"] = status["high"]
          /\ count' = count /\ holder' = "low"
      BY <1>0, <1>3, <3>1, <3>2, LockFacts DEF Moves, WakesNone, Threads
    <3>4. Locked(n)'
      BY <2>0, <3>3 DEF Idle, Locked, LockerRow, At2
    <3> QED
      BY <3>4
  <2> QED
    BY <2>1, <2>2
<1> QED
  BY <1>2, <1>3

LEMMA LockedStep ==
  ASSUME GeneralInv, Test = "8_2", NEW n \in 0..(2 * Iterations + 1), Locked(n),
         NEW t \in {"high", "low"}, Step(t)
  PROVE  Told(n)'
<1>0. PartTypes /\ t \in Threads /\ Active(t) /\ \A u \in Above(t) : ~Active(u)
  BY StepContext DEF GeneralInv, Threads
<1>1. pc["low"] \in Nat /\ pc["high"] \in Nat /\ Iterations \in Nat \ {0}
  BY <1>0, RealtimeAssumption DEF PartTypes, Threads
<1>2. CASE t = "high"
  BY <1>2, <1>0 DEF Locked, LockerRow, Active
<1>3. CASE t = "low"
  <2>0. status["high"] = "waiting"
    BY <1>0, <1>3 DEF Locked, LockerRow, Active, Above, Threads
  <2>1. pc["low"] = 4 * n + 3 /\ pc["high"] = 4 * n + 3
    BY DEF Locked, LockerRow, At2
  <2>2. Is(Now("low"), "post", "to_locker") /\ Is(Now("high"), "wait", "to_locker")
    BY <2>1, LockerLowCalls, LockerHighCalls
  <2>3. /\ pc'["low"] = 4 * n + 4 /\ pc'["high"] = pc["high"] /\ status'["high"] = "woken"
        /\ count'["to_locker"] = count["to_locker"] + 1 /\ count'["to_unlocker"] = count["to_unlocker"] /\ holder' = holder
    BY <1>0, <1>3, <2>0, <2>1, <2>2, PostFacts DEF Moves, Wakes, Threads, Semaphores
  <2> QED
    BY <2>3 DEF Locked, Told, LockerRow, At2
<1> QED
  BY <1>2, <1>3

LEMMA ToldStep ==
  ASSUME GeneralInv, Test = "8_2", NEW n \in 0..(2 * Iterations + 1), Told(n),
         NEW t \in {"high", "low"}, Step(t)
  PROVE  Asked(n)'
<1>0. PartTypes /\ t \in Threads /\ Active(t) /\ \A u \in Above(t) : ~Active(u)
  BY StepContext DEF GeneralInv, Threads
<1>1. pc["low"] \in Nat /\ pc["high"] \in Nat /\ Iterations \in Nat \ {0}
  BY <1>0, RealtimeAssumption DEF PartTypes, Threads
<1>2. CASE t = "high"
  <2>1. Is(Now("high"), "wait", "to_locker") /\ count["to_locker"] = 1
    BY LockerHighCalls DEF Told, LockerRow
  <2>2. /\ pc'["low"] = pc["low"] /\ pc'["high"] = pc["high"] + 1 /\ status'["high"] = "ready"
        /\ count'["to_locker"] = count["to_locker"] - 1 /\ count'["to_unlocker"] = count["to_unlocker"] /\ holder' = holder
    BY <1>0, <1>2, <2>1, WaitFacts DEF Moves, Threads, Semaphores
  <2> QED
    BY <2>1, <2>2 DEF Told, Asked, LockerRow, At2
<1>3. CASE t = "low"
  <2>1. "high" \in Above("low")
    BY DEF Above, Threads
  <2> QED
    BY <2>1, <1>3, <1>0 DEF Told, LockerRow, Active
<1> QED
  BY <1>2, <1>3

LEMMA AskedStep ==
  ASSUME GeneralInv, Test = "8_2", NEW n \in 0..(2 * Iterations + 1), Asked(n),
         NEW t \in {"high", "low"}, Step(t)
  PROVE  Asked(n)' \/ (n # 2 * Iterations + 1 /\ Freed(n)') \/ (n = 2 * Iterations + 1 /\ Ending(n)')
<1>0. PartTypes /\ t \in Threads /\ Active(t) /\ \A u \in Above(t) : ~Active(u)
  BY StepContext DEF GeneralInv, Threads
<1>1. pc["low"] \in Nat /\ pc["high"] \in Nat /\ Iterations \in Nat \ {0}
  BY <1>0, RealtimeAssumption DEF PartTypes, Threads
<1>2. CASE t = "high"
  <2>1. Stays("high")
    <3>1. CASE n # 2 * Iterations + 1
      <4>1. Is(Now("high"), "lock", "lock") /\ holder \notin {"free", "high"}
        BY <3>1, LockerHighCalls DEF Asked, LockerRow
      <4> QED
        BY <1>0, <1>2, <4>1, LockFacts
    <3>2. CASE n = 2 * Iterations + 1
      <4>1. Is(Now("high"), "join", "low")
        BY <3>2, LockerHighCalls DEF Asked, LockerRow
      <4>2. pc["low"] # 1 /\ pc["low"] # Size("low") /\ Running
        <5>1. Size("low") = 8 * Iterations + 9
          BY LockerLowKinds DEF Size
        <5> QED
          BY <1>1, <1>2, <3>2, <5>1, StepContext DEF Asked, LockerRow, At2, Threads
      <4>3. status["low"] \notin {"none", "ended"}
        BY <4>2 DEF GeneralInv, ProgressInv, Threads
      <4>4. ~Returns("high")
        BY <4>1, <4>3 DEF Is, Returns
      <4> QED
        BY <1>0, <1>2, <4>4, HaltFacts
    <3> QED
      BY <3>1, <3>2
  <2>2. Asked(n)'
    BY <2>1 DEF Asked, LockerRow, At2, Stays, Threads
  <2> QED
    BY <2>2
<1>3. CASE t = "low"
  <2>0. status["high"] = "waiting"
    BY <1>0, <1>3 DEF Asked, LockerRow, Active, Above, Threads
  <2>1. pc["low"] = 4 * n + 4 /\ pc["high"] = 4 * n + 4
    BY DEF Asked, LockerRow, At2
  <2>2. Is(Now("low"), "unlock", "lock")
    BY <2>1, LockerLowCalls
  <2>3. /\ pc'["low"] = 4 * n + 5 /\ pc'["high"] = pc["high"] /\ count' = count
        /\ Wakes("low", "lock", "lock")
        /\ holder' = "free" \/ (holder' \in Threads /\ holder' # "low" /\ status[holder'] = "waiting" /\ Is(Now(holder'), "lock", "lock"))
    BY <1>0, <1>3, <2>1, <2>2, UnlockFacts DEF Moves, Threads
  <2>4. status["middle"] = "none"
    BY <1>3, StepContext, TestKinds DEF GeneralInv, NoMiddle, Threads
  <2>5. holder' = "free" \/ (holder' = "high" /\ Is(Now("high"), "lock", "lock"))
    BY <2>3, <2>4 DEF Threads
  <2>6. CASE n # 2 * Iterations + 1
    <3>1. Is(Now("high"), "lock", "lock")
      BY <2>1, <2>6, LockerHighCalls
    <3>2. status'["high"] = "woken"
      BY <3>1, <2>0, <2>3 DEF Wakes, Threads
    <3>3. Freed(n)'
      BY <2>1, <2>3, <2>5, <3>2 DEF Asked, Freed, LockerRow, At2
    <3> QED
      BY <2>6, <3>3
  <2>7. CASE n = 2 * Iterations + 1
    <3>1. Is(Now("high"), "join", "low")
      BY <2>1, <2>7, LockerHighCalls
    <3>2. holder' = "free"
      BY <3>1, <2>5 DEF Is
    <3>3. Ending(n)'
      BY <2>1, <2>3, <3>2 DEF Asked, Ending, LockerRow
    <3> QED
      BY <2>7, <3>3
  <2> QED
    BY <2>6, <2>7
<1> QED
  BY <1>2, <1>3

LEMMA FreedStep ==
  ASSUME GeneralInv, Test = "8_2", NEW n \in 0..(2 * Iterations), Freed(n),
         NEW t \in {"high", "low"}, Step(t)
  PROVE  Owned(n)'
<1>0. PartTypes /\ t \in Threads /\ Active(t) /\ \A u \in Above(t) : ~Active(u)
  BY StepContext DEF GeneralInv, Threads
<1>1. pc["low"] \in Nat /\ pc["high"] \in Nat /\ Iterations \in Nat \ {0}
  BY <1>0, RealtimeAssumption DEF PartTypes, Threads
<1>a. n \in 0..(2 * Iterations + 1) /\ n # 2 * Iterations + 1
  BY <1>1
<1>2. CASE t = "high"
  <2>1. Is(Now("high"), "lock", "lock")
    BY <1>a, LockerHighCalls DEF Freed, LockerRow
  <2>2. /\ pc'["low"] = pc["low"] /\ pc'["high"] = pc["high"] + 1 /\ status'["high"] = "ready"
        /\ count' = count /\ holder' = "high"
    BY <1>0, <1>2, <2>1, LockFacts DEF Moves, Threads, Semaphores, Freed, LockerRow
  <2> QED
    BY <2>2 DEF Freed, Owned, LockerRow, At2
<1>3. CASE t = "low"
  <2>1. "high" \in Above("low")
    BY DEF Above, Threads
  <2> QED
    BY <2>1, <1>3, <1>0 DEF Freed, LockerRow, Active
<1> QED
  BY <1>2, <1>3

LEMMA OwnedStep ==
  ASSUME GeneralInv, Test = "8_2", NEW n \in 0..(2 * Iterations), Owned(n),
         NEW t \in {"high", "low"}, Step(t)
  PROVE  Released(n)'
<1>0. PartTypes /\ t \in Threads /\ Active(t) /\ \A u \in Above(t) : ~Active(u)
  BY StepContext DEF GeneralInv, Threads
<1>1. pc["low"] \in Nat /\ pc["high"] \in Nat /\ Iterations \in Nat \ {0}
  BY <1>0, RealtimeAssumption DEF PartTypes, Threads
<1>a. n \in 0..(2 * Iterations + 1) /\ n # 2 * Iterations + 1
  BY <1>1
<1>2. CASE t = "high"
  <2>1. Is(Now("high"), "unlock", "lock")
    BY <1>a, LockerHighCalls DEF Owned, LockerRow
  <2>2. /\ pc'["low"] = pc["low"] /\ pc'["high"] = pc["high"] + 1 /\ status'["high"] = "ready" /\ count' = count
        /\ holder' = "free" \/ (holder' \in Threads /\ holder' # "high" /\ status[holder'] = "waiting" /\ Is(Now(holder'), "lock", "lock"))
    BY <1>0, <1>2, <2>1, UnlockFacts DEF Moves, Threads
  <2>3. status["middle"] = "none"
    BY <1>2, StepContext, TestKinds DEF GeneralInv, NoMiddle, Threads
  <2>4. Is(Now("low"), "wait", "to_unlocker")
    <3>1. pc["low"] = 4 * n + 5
      BY <1>a, <1>1 DEF Owned, LockerRow, At2
    <3> QED
      BY <1>a, <3>1, LockerLowCalls
  <2>5. holder' = "free"
    BY <2>2, <2>3, <2>4 DEF Threads, Is
  <2> QED
    BY <2>2, <2>5 DEF Owned, Released, LockerRow, At2
<1>3. CASE t = "low"
  <2>1. "high" \in Above("low")
    BY DEF Above, Threads
  <2> QED
    BY <2>1, <1>3, <1>0 DEF Owned, LockerRow, Active
<1> QED
  BY <1>2, <1>3

LEMMA ReleasedStep ==
  ASSUME GeneralInv, Test = "8_2", NEW n \in 0..(2 * Iterations), Released(n),
         NEW t \in {"high", "low"}, Step(t)
  PROVE  Answered(n)'
<1>0. PartTypes /\ t \in Threads /\ Active(t) /\ \A u \in Above(t) : ~Active(u)
  BY StepContext DEF GeneralInv, Threads
<1>1. pc["low"] \in Nat /\ pc["high"] \in Nat /\ Iterations \in Nat \ {0}
  BY <1>0, RealtimeAssumption DEF PartTypes, Threads
<1>a. n \in 0..(2 * Iterations + 1) /\ n # 2 * Iterations + 1
  BY <1>1
<1>2. CASE t = "high"
  <2>1. Is(Now("high"), "post", "to_unlocker")
    BY <1>a, LockerHighCalls DEF Released, LockerRow
  <2>2. /\ pc'["low"] = pc["low"] /\ pc'["high"] = pc["high"] + 1 /\ status'["high"] = "ready"
        /\ count'["to_locker"] = count["to_locker"] /\ count'["to_unlocker"] = count["to_unlocker"] + 1 /\ holder' = holder
    BY <1>0, <1>2, <2>1, PostFacts DEF Moves, Threads, Semaphores, Released, LockerRow
  <2> QED
    BY <2>2 DEF Released, Answered, LockerRow, At2
<1>3. CASE t = "low"
  <2>1. "high" \in Above("low")
    BY DEF Above, Threads
  <2> QED
    BY <2>1, <1>3, <1>0 DEF Released, LockerRow, Active
<1> QED
  BY <1>2, <1>3

LEMMA AnsweredStep ==
  ASSUME GeneralInv, Test = "8_2", NEW n \in 0..(2 * Iterations), Answered(n),
         NEW t \in {"high", "low"}, Step(t)
  PROVE  Answered(n)' \/ Idle(n + 1)'
<1>0. PartTypes /\ t \in Threads /\ Active(t) /\ \A u \in Above(t) : ~Active(u)
  BY StepContext DEF GeneralInv, Threads
<1>1. pc["low"] \in Nat /\ pc["high"] \in Nat /\ Iterations \in Nat \ {0}
  BY <1>0, RealtimeAssumption DEF PartTypes, Threads
<1>a. n \in 0..(2 * Iterations + 1) /\ n # 2 * Iterations + 1 /\ n + 1 \in 0..(2 * Iterations + 1)
  BY <1>1
<1>2. CASE t = "high"
  <2>0. pc["high"] = 4 * (n + 1) + 3
    BY <1>a DEF Answered, LockerRow
  <2>1. Is(Now("high"), "wait", "to_locker") /\ count["to_locker"] = 0
    BY <1>a, <2>0, LockerHighCalls DEF Answered, LockerRow
  <2>2. Stays("high")
    BY <1>0, <1>2, <2>1, WaitFacts DEF Semaphores
  <2>3. Answered(n)'
    BY <2>2 DEF Answered, LockerRow, At2, Stays, Threads
  <2> QED
    BY <2>3
<1>3. CASE t = "low"
  <2>0. status["high"] = "waiting"
    BY <1>0, <1>3 DEF Answered, LockerRow, Active, Above, Threads
  <2>1. pc["low"] = 4 * n + 5 /\ count["to_unlocker"] = 1
    BY DEF Answered, LockerRow, At2
  <2>2. Is(Now("low"), "wait", "to_unlocker")
    BY <1>a, <2>1, LockerLowCalls
  <2>3. /\ pc'["low"] = pc["low"] + 1 /\ pc'["high"] = pc["high"] /\ status'["high"] = status["high"]
        /\ count'["to_locker"] = count["to_locker"] /\ count'["to_unlocker"] = count["to_unlocker"] - 1 /\ holder' = holder
    BY <1>0, <1>3, <2>1, <2>2, WaitFacts DEF Moves, WakesNone, Threads, Semaphores
  <2>4. Idle(n + 1)'
    BY <1>a, <2>0, <2>1, <2>3 DEF Answered, Idle, LockerRow, At2
  <2> QED
    BY <2>4
<1> QED
  BY <1>2, <1>3

LEMMA EndingStep ==
  ASSUME GeneralInv, Test = "8_2", NEW n, n = 2 * Iterations + 1, Ending(n),
         NEW t \in {"high", "low"}, Step(t)
  PROVE  Ending(n)'
<1>0. PartTypes /\ t \in Threads /\ Active(t) /\ Running
  BY StepContext DEF GeneralInv, Threads
<1>1. pc["low"] \in Nat /\ pc["high"] \in Nat /\ Iterations \in Nat \ {0} /\ n \in 0..(2 * Iterations + 1)
  BY <1>0, RealtimeAssumption DEF PartTypes, Threads
<1>2. CASE t = "high"
  <2>1. CASE pc["high"] = 4 * n + 4
    <3>1. Now("high").does = "join"
      BY <1>1, <2>1, LockerHighCalls DEF Is
    <3> QED
      BY <1>0, <1>2, <2>1, <3>1, JoinFacts DEF Ending, Moves, Stays, Threads
  <2>2. CASE pc["high"] = 4 * n + 5
    <3>1. Now("high").does = "return"
      BY <1>1, <2>2, LockerHighCalls
    <3> QED
      BY <1>0, <1>2, <2>2, <3>1, ReturnFacts DEF Ending, Threads
  <2> QED
    BY <2>1, <2>2 DEF Ending
<1>3. CASE t = "low"
  <2>1. Now("low").does = "return"
    BY <1>1, LockerLowCalls DEF Ending
  <2> QED
    BY <1>0, <1>3, <2>1, ReturnFacts DEF Ending, Threads
<1> QED
  BY <1>2, <1>3

LEMMA LockStep ==
  ASSUME GeneralInv, LockInv, NEW t \in Threads, Step(t)
  PROVE  LockInv'
<1> DEFINE last == 2 * Iterations + 1
<1> SUFFICES ASSUME Running', (Test = "8_2")', ~failed'
             PROVE  LockAt(last)'
  BY DEF LockInv
<1>1. /\ index' = index /\ ~failed /\ Running /\ Active(t) /\ PartTypes
  BY StepContext DEF GeneralInv
<1>2. Test = "8_2" /\ Iterations \in Nat \ {0}
  BY <1>1, SameProgram, RealtimeAssumption
<1>3. Test \in Suspending /\ Test \notin Readying
  BY <1>2 DEF Suspending, Readying
<1>4. t \in {"high", "low"}
  BY <1>1, <1>3 DEF GeneralInv, NoMiddle, Active, Threads
<1>5. LockAt(last)
  BY <1>1, <1>2 DEF LockInv
<1>6. last \in Nat /\ 0..(last - 1) = 0..(2 * Iterations) /\ 0 \in 0..last /\ last = 2 * Iterations + 1
  BY <1>2
<1> HIDE DEF last
<1>7. /\ pc["high"] \in Nat /\ pc["low"] \in Nat
      /\ pc["high"] < 3 => status["low"] = "none" /\ pc["low"] = 1
  BY <1>1, <1>3 DEF GeneralInv, PartTypes, CreatedInv, ProgressInv, Threads
<1>8. CASE pc["high"] < 3
  <2>1. t = "high"
    BY <1>1, <1>4, <1>7, <1>8 DEF Active
  <2>2. holder = "free" /\ count["to_locker"] = 0 /\ count["to_unlocker"] = 0
    BY <1>5, <1>8 DEF LockAt
  <2>3. pc["high"] \in 1..Size("high")
    BY <1>1 DEF GeneralInv, ProgressInv, Threads
  <2>4. pc["high"] \in {1, 2}
    BY <2>3, <1>7, <1>8
  <2>5. CASE pc["high"] = 1
    <3>1. Now("high").does = "sleep"
      BY <1>2, <2>5, LockerHighCalls
    <3>2. pc'["high"] = 2 /\ count' = count /\ holder' = holder
      BY <1>1, <2>1, <2>5, <3>1, SleepFacts
    <3> QED
      BY <2>2, <3>2 DEF LockAt
  <2>6. CASE pc["high"] = 2
    <3>1. Now("high").does = "create"
      BY <1>2, <2>6, LockerHighCalls
    <3>2. pc'["high"] = 3 /\ pc'["low"] = 1 /\ status'["high"] = "ready" /\ count' = count /\ holder' = holder
      BY <1>7, <1>8, <2>1, <2>6, <3>1, CreateFacts DEF Moves, Threads
    <3>3. Idle(0)'
      BY <2>2, <3>2 DEF Idle, LockerRow, At2
    <3> QED
      BY <3>2, <3>3, <1>6 DEF LockAt
  <2> QED
    BY <2>4, <2>5, <2>6
<1>9. CASE pc["high"] >= 3
  <2> DEFINE First(n) == Idle(n) \/ Locked(n) \/ Told(n) \/ Asked(n)
             Second(n) == Freed(n) \/ Owned(n) \/ Released(n) \/ Answered(n)
  <2> SUFFICES \/ \E n \in 0..last : First(n)'
               \/ \E n \in 0..(last - 1) : Second(n)'
               \/ Ending(last)'
    <3>1. (\E n \in 0..last : First(n)') => pc'["high"] \in Nat /\ pc'["high"] >= 3
      BY <1>6 DEF Idle, Locked, Told, Asked, LockerRow
    <3>2. (\E n \in 0..(last - 1) : Second(n)') => pc'["high"] \in Nat /\ pc'["high"] >= 3
      BY <1>6 DEF Freed, Owned, Released, Answered, LockerRow
    <3>3. Ending(last)' => pc'["high"] \in Nat /\ pc'["high"] >= 3
      BY <1>6 DEF Ending
    <3>4. last' = last
      BY DEF last
    <3>5. pc'["high"] \in Nat /\ pc'["high"] >= 3
      BY <3>1, <3>2, <3>3
    <3> QED
      BY <3>4, <3>5 DEF LockAt
  <2>1. CASE \E n \in 0..last : First(n)
    <3> PICK n \in 0..last : First(n)
      BY <2>1
    <3>0. n \in 0..(2 * Iterations + 1) /\ (n # 2 * Iterations + 1 => n \in 0..(last - 1)) /\ (n = 2 * Iterations + 1 => n = last)
      BY <1>6, <1>2
    <3>1. CASE Idle(n)
      BY <3>0, <3>1, <1>2, <1>4, IdleStep
    <3>2. CASE Locked(n)
      BY <3>0, <3>2, <1>2, <1>4, LockedStep
    <3>3. CASE Told(n)
      BY <3>0, <3>3, <1>2, <1>4, ToldStep
    <3>4. CASE Asked(n)
      BY <3>0, <3>4, <1>2, <1>4, AskedStep
    <3> QED
      BY <3>1, <3>2, <3>3, <3>4
  <2>2. CASE \E n \in 0..(last - 1) : Second(n)
    <3> PICK n \in 0..(last - 1) : Second(n)
      BY <2>2
    <3>0. n \in 0..(2 * Iterations) /\ n + 1 \in 0..last
      BY <1>6, <1>2
    <3>1. CASE Freed(n)
      BY <3>0, <3>1, <1>2, <1>4, FreedStep
    <3>2. CASE Owned(n)
      BY <3>0, <3>2, <1>2, <1>4, OwnedStep
    <3>3. CASE Released(n)
      BY <3>0, <3>3, <1>2, <1>4, ReleasedStep
    <3>4. CASE Answered(n)
      BY <3>0, <3>4, <1>2, <1>4, AnsweredStep
    <3> QED
      BY <3>1, <3>2, <3>3, <3>4
  <2>3. CASE Ending(last)
    BY <2>3, <1>2, <1>4, <1>6, EndingStep
  <2> QED
    BY <1>5, <1>9, <2>1, <2>2, <2>3 DEF LockAt
<1> QED
  BY <1>7, <1>8, <1>9

LEMMA LockKeeps ==
  ASSUME GeneralInv, LockInv, [Next]_vars
  PROVE  LockInv'
<1> DEFINE last == 2 * Iterations + 1
<1>1. ASSUME NEW i, Starts(i)
      PROVE  LockInv'
  <2> SUFFICES ASSUME Running'
               PROVE  LockAt(last)'
    BY DEF LockInv
  <2>1. pc'["high"] = 1 /\ holder' = "free" /\ count'["to_locker"] = 0 /\ count'["to_unlocker"] = 0
    BY <1>1, StartsObjects DEF Threads, Semaphores
  <2> QED
    BY <2>1 DEF LockAt
<1>2. CASE WakesUp
  <2> SUFFICES ASSUME Running', (Test = "8_2")', ~failed'
               PROVE  LockAt(last)'
    BY DEF LockInv
  <2>1. UNCHANGED <<index, blocks, found, failed, pc, count, holder, messages>>
    BY <1>2 DEF WakesUp, testVars, objectVars
  <2>2. LockAt(last)
    BY <2>1, SameProgram DEF LockInv
  <2>3. status'["high"] = status["high"] \/ (status["high"] = "asleep")
    BY <1>2, WakesUpKeeps DEF Threads
  <2>4. \A n, h, l, owners, a, b : \A S \in SUBSET {"ready", "waiting", "woken"} :
          LockerRow(n, h, l, owners, a, b, S) => LockerRow(n, h, l, owners, a, b, S)'
    BY <2>1, <2>3 DEF LockerRow, At2
  <2>5. \A n : (Idle(n) => Idle(n)') /\ (Locked(n) => Locked(n)') /\ (Told(n) => Told(n)') /\ (Asked(n) => Asked(n)')
    BY <2>4 DEF Idle, Locked, Told, Asked
  <2>6. \A n : (Freed(n) => Freed(n)') /\ (Owned(n) => Owned(n)') /\ (Released(n) => Released(n)') /\ (Answered(n) => Answered(n)')
    BY <2>4 DEF Freed, Owned, Released, Answered
  <2>7. Ending(last) => Ending(last)'
    BY <2>1 DEF Ending
  <2>8. last' = last
    OBVIOUS
  <2> HIDE DEF last
  <2> QED
    BY <2>1, <2>2, <2>5, <2>6, <2>7, <2>8 DEF LockAt
<1>3. ASSUME NEW t \in Threads, Step(t)
      PROVE  LockInv'
  BY <1>3, LockStep
<1>4. CASE UNCHANGED vars
  <2>1. UNCHANGED <<index, blocks, found, failed, status, pc, sleepers, count, holder, messages>>
    BY <1>4 DEF vars, testVars, objectVars
  <2>2. Test' = Test /\ Running' = Running
    BY <2>1, SameProgram
  <2> QED
    BY <2>1, <2>2 DEF LockInv, LockAt, Idle, Locked, Told, Asked, Freed, Owned, Released, Answered, Ending, LockerRow, At2
<1> QED
  BY <1>1, <1>2, <1>3, <1>4 DEF Next, Begin, Finish, Probe

-----------------------------------------------------------------------------
(* 5_3, 6_3, 7_3 and 9_3 *)

\* The middle thread is on its CPU before the low one asks for it.
OrderInv ==
  Running /\ Test \in Readying /\ ~failed =>
    /\ pc["high"] = 3 => status["high"] = "ready" /\ pc["middle"] = 1
    /\ pc["low"] > 1 => pc["middle"] > 1
    /\ pc["low"] > 1 /\ status["low"] # "asleep" => status["middle"] # "asleep"
    /\ \A i, j \in 1..Len(sleepers) : sleepers[i] = "middle" /\ sleepers[j] = "low" => i < j

\* Where the turn k of the high thread begins, and where it asks for help in it.
First(k) == IF Test = "9_3" THEN 4 * k + 4 ELSE 3 * k + 4
Asks(k) == IF Test = "9_3" THEN 4 * k + 5 ELSE 3 * k + 4

AssistRow(H, l, a, b) ==
  pc["high"] \in H /\ At2("low") = l /\ count["to_assist"] = a /\ count["to_highest"] = b

\* In the turn k the high thread has not asked, has asked, is heard, ...
Begun(k) == AssistRow(First(k)..Asks(k), 2 * k + 2, 0, 0)
Calling(k) == AssistRow({Asks(k) + 1}, 2 * k + 2, 1, 0)
Heard(k) == AssistRow({Asks(k) + 1}, 2 * k + 3, 0, 0)
\* ... is helped and goes on.
Helped(k) == AssistRow({Asks(k) + 1}, 2 * k + 4, 0, 1)
Resumed(k) == AssistRow({Asks(k) + 2}, 2 * k + 4, 0, 0)
\* After the last turn.
Over(k) == AssistRow(First(k)..(First(k) + 2), 2 * k + 2, 0, 0)

\* The middle thread has taken what it was given in the turns before k, or has
\* been woken to take the last of it.
Served(k) ==
  \/ At2("middle") = k + 2 /\ Object(0)
  \/ k > 0 /\ At2("middle") = k + 1 /\ Object(1) /\ status["middle"] = "woken"

\* The high thread has the mutex when it asks for help, and the middle one
\* never has it more often than the high one has given it up.
Excluded(k) ==
  /\ holder # "low"
  /\ k < Iterations /\ pc["high"] > First(k) => holder = "high"
  /\ k < Iterations /\ pc["high"] = First(k) /\ status["high"] = "waiting" => holder = "middle"
  /\ \E m \in 0..k :
       \/ At2("middle") = 2 * m + 2 /\ (holder = "middle" => m < k)
       \/ At2("middle") = 2 * m + 3 /\ m < k /\ holder = "middle"

Serves(k) == Honest => IF Test = "9_3" THEN Excluded(k) ELSE Served(k)

Before(k) ==
  \/ k < Iterations /\ (Begun(k) \/ Calling(k) \/ Heard(k))
  \/ k = Iterations /\ Over(k)
After(k) ==
  /\ k < Iterations /\ (Helped(k) \/ Resumed(k))
  /\ Honest => status["middle"] = "waiting"

AssistAt ==
  /\ pc["high"] < 4 =>
       count["to_assist"] = 0 /\ count["to_highest"] = 0 /\ Object(0) /\ holder = "free"
  /\ pc["high"] >= 4 => \E k \in 0..Iterations : Serves(k) /\ (Before(k) \/ After(k))

AssistInv == Running /\ Test \in Readying /\ ~failed => AssistAt

\* No semaphore is used that the running test does not have, nor any when it
\* could not create a thread.
QuietInv ==
  \A s \in Semaphores :
    ~Running \/ failed \/ s \notin Posted("high") \cup Posted("low") => count[s] = 0

\* The tests that need a queue that blocks run where test6_0 says that it does.
JudgedInv == Test \in {"6_2", "7_3"} => found

LEMMA TurnPlaces ==
  ASSUME NEW k \in 0..Iterations
  PROVE  /\ First(k) \in Nat /\ Asks(k) \in Nat /\ First(k) > 3 /\ First(0) = 4
         /\ First(k + 1) = Asks(k) + 3
         /\ Test = "9_3" => Asks(k) = First(k) + 1
         /\ Test # "9_3" => Asks(k) = First(k)
<1>1. Iterations \in Nat \ {0}
  BY RealtimeAssumption
<1> QED
  BY <1>1 DEF First, Asks

LEMMA AssistHighCalls ==
  ASSUME Test \in Readying, NEW k \in 0..Iterations
  PROVE  /\ pc["high"] = 1 => Now("high").does = "sleep" /\ Now("high").timed = "no"
         /\ pc["high"] \in {2, 3} => Now("high").does = "create" /\ Now("high").timed = "no"
         /\ k < Iterations /\ pc["high"] = First(k) /\ Test = "9_3" => Is(Now("high"), "lock", "lock") /\ Now("high").timed = "no"
         /\ k < Iterations /\ pc["high"] = Asks(k) => Is(Now("high"), "post", "to_assist") /\ Now("high").timed = "no"
         /\ k < Iterations /\ pc["high"] = Asks(k) + 1 => Is(Now("high"), "wait", "to_highest") /\ Now("high").timed = "no"
         /\ k < Iterations /\ pc["high"] = Asks(k) + 2 => Is(Now("high"), ReadyingCall.does, ReadyingCall.on) /\ Now("high").timed = "readies lower"
         /\ k = Iterations /\ pc["high"] \in {First(k), First(k) + 1} => Now("high").does = "join" /\ Now("high").timed = "no"
         /\ k = Iterations /\ pc["high"] = First(k) + 2 => Now("high").does = "return" /\ Now("high").timed = "no"
<1>0. Iterations \in Nat \ {0} /\ (k < Iterations => k \in 0..(Iterations - 1))
  BY RealtimeAssumption
<1>1. Now("high") = Nth(Program("high"), pc["high"])
  BY DEF Now, Nth
<1>2. CASE Test = "9_3"
  <2>1. First(k) = 4 * k + 4 /\ Asks(k) = 4 * k + 5
    BY <1>2 DEF First, Asks
  <2>2. /\ pc["high"] = 1 => Now("high").does = "sleep" /\ Now("high").timed = "no"
        /\ pc["high"] = 2 => Now("high").does = "create" /\ Now("high").timed = "no"
        /\ pc["high"] = 3 => Now("high").does = "create" /\ Now("high").timed = "no"
    <3>1. /\ Makes("high", 1, "sleep", "cpu 0", "no") /\ Makes("high", 2, "create", "middle", "no")
          /\ Makes("high", 3, "create", "low", "no")
      BY <1>2, ReadyingMutexHighKinds
    <3> QED
      BY <1>1, <3>1 DEF Makes
  <2>3. ASSUME k \in 0..(Iterations - 1)
        PROVE  /\ pc["high"] = 4 * k + 4 => Is(Now("high"), "lock", "lock") /\ Now("high").timed = "no"
               /\ pc["high"] = 4 * k + 5 => Is(Now("high"), "post", "to_assist") /\ Now("high").timed = "no"
               /\ pc["high"] = 4 * k + 6 => Is(Now("high"), "wait", "to_highest") /\ Now("high").timed = "no"
               /\ pc["high"] = 4 * k + 7 => Is(Now("high"), ReadyingCall.does, ReadyingCall.on) /\ Now("high").timed = "readies lower"
    <3>1. /\ Makes("high", 4 * k + 4, "lock", "lock", "no") /\ Makes("high", 4 * k + 5, "post", "to_assist", "no")
          /\ Makes("high", 4 * k + 6, "wait", "to_highest", "no")
          /\ Makes("high", 4 * k + 7, ReadyingCall.does, ReadyingCall.on, "readies lower")
      BY <2>3, <1>2, ReadyingMutexHighKinds
    <3> QED
      BY <3>1, <1>1 DEF Makes, Is
  <2>4. /\ pc["high"] = 4 * Iterations + 4 => Now("high").does = "join" /\ Now("high").timed = "no"
        /\ pc["high"] = 4 * Iterations + 5 => Now("high").does = "join" /\ Now("high").timed = "no"
        /\ pc["high"] = 4 * Iterations + 6 => Now("high").does = "return" /\ Now("high").timed = "no"
    <3>1. /\ Makes("high", 4 * Iterations + 4, "join", "middle", "no")
          /\ Makes("high", 4 * Iterations + 5, "join", "low", "no")
          /\ Makes("high", 4 * Iterations + 6, "return", "high", "no")
      BY <1>2, ReadyingMutexHighKinds
    <3> QED
      BY <1>1, <3>1 DEF Makes
  <2>5. 4 * k + 5 + 1 = 4 * k + 6 /\ 4 * k + 5 + 2 = 4 * k + 7 /\ 4 * k + 4 + 1 = 4 * k + 5 /\ 4 * k + 4 + 2 = 4 * k + 6
    BY <1>0
  <2> QED
    BY <1>0, <2>1, <2>2, <2>3, <2>4, <2>5
<1>3. CASE Test \in {"5_3", "6_3", "7_3"}
  <2>1. First(k) = 3 * k + 4 /\ Asks(k) = 3 * k + 4
    BY <1>3 DEF First, Asks
  <2>2. /\ pc["high"] = 1 => Now("high").does = "sleep" /\ Now("high").timed = "no"
        /\ pc["high"] = 2 => Now("high").does = "create" /\ Now("high").timed = "no"
        /\ pc["high"] = 3 => Now("high").does = "create" /\ Now("high").timed = "no"
    BY <1>1, <1>3, ReadyingHighKinds DEF Makes
  <2>3. ASSUME k \in 0..(Iterations - 1)
        PROVE  /\ pc["high"] = 3 * k + 4 => Is(Now("high"), "post", "to_assist") /\ Now("high").timed = "no"
               /\ pc["high"] = 3 * k + 5 => Is(Now("high"), "wait", "to_highest") /\ Now("high").timed = "no"
               /\ pc["high"] = 3 * k + 6 => Is(Now("high"), ReadyingCall.does, ReadyingCall.on) /\ Now("high").timed = "readies lower"
    <3>1. /\ Makes("high", 3 * k + 4, "post", "to_assist", "no")
          /\ Makes("high", 3 * k + 5, "wait", "to_highest", "no")
          /\ Makes("high", 3 * k + 6, ReadyingCall.does, ReadyingCall.on, "readies lower")
      BY <2>3, <1>3, ReadyingHighKinds
    <3> QED
      BY <3>1, <1>1 DEF Makes, Is
  <2>4. /\ pc["high"] = 3 * Iterations + 4 => Now("high").does = "join" /\ Now("high").timed = "no"
        /\ pc["high"] = 3 * Iterations + 5 => Now("high").does = "join" /\ Now("high").timed = "no"
        /\ pc["high"] = 3 * Iterations + 6 => Now("high").does = "return" /\ Now("high").timed = "no"
    BY <1>1, <1>3, ReadyingHighKinds DEF Makes
  <2>5. 3 * k + 4 + 1 = 3 * k + 5 /\ 3 * k + 4 + 2 = 3 * k + 6 /\ Test # "9_3"
    BY <1>0, <1>3
  <2> QED
    BY <1>0, <2>1, <2>2, <2>3, <2>4, <2>5
<1> QED
  BY <1>2, <1>3 DEF Readying

LEMMA AssistLowCalls ==
  ASSUME Test \in Readying, NEW k \in 0..Iterations
  PROVE  /\ pc["low"] = 1 => Now("low").does = "sleep" /\ Now("low").timed = "no"
         /\ k < Iterations /\ pc["low"] = 2 * k + 2 => Is(Now("low"), "wait", "to_assist") /\ Now("low").timed = "no"
         /\ k < Iterations /\ pc["low"] = 2 * k + 3 => Is(Now("low"), "post", "to_highest") /\ Now("low").timed = "no"
         /\ k = Iterations /\ pc["low"] = 2 * k + 2 => Now("low").does = "return" /\ Now("low").timed = "no"
<1>0. Iterations \in Nat \ {0} /\ (k < Iterations => k \in 0..(Iterations - 1))
  BY RealtimeAssumption
<1>1. Now("low") = Nth(Program("low"), pc["low"])
  BY DEF Now, Nth
<1>2. /\ pc["low"] = 1 => Now("low").does = "sleep" /\ Now("low").timed = "no"
      /\ pc["low"] = 2 * Iterations + 2 => Now("low").does = "return" /\ Now("low").timed = "no"
  BY <1>1, LowAssistsKinds DEF Makes
<1>3. ASSUME k \in 0..(Iterations - 1)
      PROVE  /\ pc["low"] = 2 * k + 2 => Is(Now("low"), "wait", "to_assist") /\ Now("low").timed = "no"
             /\ pc["low"] = 2 * k + 3 => Is(Now("low"), "post", "to_highest") /\ Now("low").timed = "no"
  BY <1>1, <1>3, LowAssistsKinds DEF Makes, Is
<1> QED
  BY <1>0, <1>2, <1>3

LEMMA ServingCalls ==
  ASSUME Test \in Readying, Test # "9_3", NEW k \in 0..Iterations
  PROVE  /\ pc["middle"] = 1 => Now("middle").does = "sleep" /\ Now("middle").timed = "no"
         /\ k < Iterations /\ pc["middle"] = k + 2 => Is(Now("middle"), MiddleCall.does, MiddleCall.on) /\ Now("middle").timed = "no"
         /\ k = Iterations /\ pc["middle"] = k + 2 => Now("middle").does = "return" /\ Now("middle").timed = "no"
<1>0. Iterations \in Nat \ {0} /\ (k < Iterations => k \in 0..(Iterations - 1)) /\ Test \in {"5_3", "6_3", "7_3"}
  BY RealtimeAssumption DEF Readying
<1>1. Now("middle") = Nth(Program("middle"), pc["middle"])
  BY DEF Now, Nth
<1>2. /\ pc["middle"] = 1 => Now("middle").does = "sleep" /\ Now("middle").timed = "no"
      /\ pc["middle"] = Iterations + 2 => Now("middle").does = "return" /\ Now("middle").timed = "no"
  BY <1>0, <1>1, MiddleServesKinds DEF Makes
<1>3. ASSUME k \in 0..(Iterations - 1)
      PROVE  pc["middle"] = k + 2 => Is(Now("middle"), MiddleCall.does, MiddleCall.on) /\ Now("middle").timed = "no"
  BY <1>0, <1>1, <1>3, MiddleServesKinds DEF Makes, Is
<1> QED
  BY <1>0, <1>2, <1>3

LEMMA ExcludedCalls ==
  ASSUME Test = "9_3", NEW k \in 0..Iterations
  PROVE  /\ pc["middle"] = 1 => Now("middle").does = "sleep" /\ Now("middle").timed = "no"
         /\ k < Iterations /\ pc["middle"] = 2 * k + 2 => Is(Now("middle"), "lock", "lock") /\ Now("middle").timed = "no"
         /\ k < Iterations /\ pc["middle"] = 2 * k + 3 => Is(Now("middle"), "unlock", "lock") /\ Now("middle").timed = "no"
         /\ k = Iterations /\ pc["middle"] = 2 * k + 2 => Now("middle").does = "return" /\ Now("middle").timed = "no"
<1>0. Iterations \in Nat \ {0} /\ (k < Iterations => k \in 0..(Iterations - 1))
  BY RealtimeAssumption
<1>1. Now("middle") = Nth(Program("middle"), pc["middle"])
  BY DEF Now, Nth
<1>2. /\ pc["middle"] = 1 => Now("middle").does = "sleep" /\ Now("middle").timed = "no"
      /\ pc["middle"] = 2 * Iterations + 2 => Now("middle").does = "return" /\ Now("middle").timed = "no"
  BY <1>1, MiddleLocksKinds DEF Makes
<1>3. ASSUME k \in 0..(Iterations - 1)
      PROVE  /\ pc["middle"] = 2 * k + 2 => Is(Now("middle"), "lock", "lock") /\ Now("middle").timed = "no"
             /\ pc["middle"] = 2 * k + 3 => Is(Now("middle"), "unlock", "lock") /\ Now("middle").timed = "no"
  BY <1>1, <1>3, MiddleLocksKinds DEF Makes, Is
<1> QED
  BY <1>0, <1>2, <1>3

LEMMA AssistSizes ==
  ASSUME Test \in Readying
  PROVE  /\ Size("low") = 2 * Iterations + 2
         /\ Size("middle") = IF Test = "9_3" THEN 2 * Iterations + 2 ELSE Iterations + 2
<1>1. Size("low") = 2 * Iterations + 2
  BY LowAssistsKinds DEF Size
<1>2. CASE Test = "9_3"
  BY <1>1, <1>2, MiddleLocksKinds DEF Size
<1>3. CASE Test \in {"5_3", "6_3", "7_3"}
  BY <1>1, <1>3, MiddleServesKinds DEF Size
<1> QED
  BY <1>2, <1>3 DEF Readying

-----------------------------------------------------------------------------
(* 5_3, 6_3, 7_3 and 9_3: the steps of each thread in its turn. *)

\* What a thread's step does to the others, unless it creates one.
LEMMA OthersStay ==
  ASSUME GeneralInv, NEW t \in Threads, Step(t), Now(t).does # "create", NEW u \in Threads, u # t
  PROVE  pc'[u] = pc[u] /\ (status'[u] = status[u] \/ (status[u] = "waiting" /\ status'[u] = "woken"))
<1>0. PartTypes
  BY DEF GeneralInv
<1>1. CASE Takes(t)
  <2>1. PICK S \in SUBSET {v \in Threads : status[v] = "waiting"} : Goes(t, S)
    BY <1>1, TakesGoes
  <2>2. Active(t)
    BY <1>1, TakesGoes
  <2>3. \A v \in S : status[v] = "waiting"
    OBVIOUS
  <2> QED
    BY <1>0, <2>1, <2>2, <2>3, GoesFacts
<1>2. CASE Suspend(t)
  BY <1>0, <1>2, SuspendFacts
<1>3. CASE FallsAsleep(t)
  BY <1>0, <1>3, FallsAsleepFacts
<1>4. CASE Creates(t)
  BY <1>4 DEF Creates, At
<1>5. CASE Ends(t)
  BY <1>0, <1>5, EndsFacts
<1> QED
  BY <1>1, <1>2, <1>3, <1>4, <1>5 DEF Step, Takes

\* The middle thread waits for no semaphore of the other two, and joins nobody.
LEMMA MiddleElsewhere ==
  ASSUME GeneralInv, Running, Test \in Readying
  PROVE  /\ \A x \in {"to_assist", "to_highest"} : ~Is(Now("middle"), "wait", x)
         /\ Now("middle").does \notin {"join", "create"}
<1>0. Iterations \in Nat \ {0}
  BY RealtimeAssumption
<1>1. pc["middle"] \in 1..Size("middle")
  BY DEF GeneralInv, ProgressInv, Threads
<1>2. CASE Test = "9_3"
  <2>1. pc["middle"] \in 1..(2 * Iterations + 2)
    BY <1>1, <1>2, AssistSizes
  <2>2. pc["middle"] = 1 \/ \E k \in 0..Iterations : pc["middle"] = 2 * k + 2 \/ (k < Iterations /\ pc["middle"] = 2 * k + 3)
    <3> DEFINE k == (pc["middle"] - 2) \div 2
    <3> SUFFICES ASSUME pc["middle"] # 1
                 PROVE  k \in 0..Iterations /\ (pc["middle"] = 2 * k + 2 \/ (k < Iterations /\ pc["middle"] = 2 * k + 3))
      BY Zenon
    <3> QED
      BY <2>1, <1>0
  <2>3. pc["middle"] = 1 => Now("middle").does = "sleep"
    BY <1>0, <1>2, ExcludedCalls
  <2>4. ASSUME NEW k \in 0..Iterations, pc["middle"] = 2 * k + 2 \/ (k < Iterations /\ pc["middle"] = 2 * k + 3)
        PROVE  Now("middle").does \in {"lock", "unlock", "return"}
    BY <1>0, <1>2, <2>4, ExcludedCalls DEF Is
  <2> QED
    BY <2>2, <2>3, <2>4 DEF Is
<1>3. CASE Test # "9_3"
  <2>1. pc["middle"] \in 1..(Iterations + 2)
    BY <1>1, <1>3, AssistSizes
  <2>2. pc["middle"] = 1 \/ \E k \in 0..Iterations : pc["middle"] = k + 2
    <3>1. pc["middle"] # 1 => pc["middle"] - 2 \in 0..Iterations /\ pc["middle"] = (pc["middle"] - 2) + 2
      BY <2>1, <1>0
    <3> QED
      BY <3>1
  <2>3. MiddleCall.does \in {"wait", "send", "receive"} /\ MiddleCall.on \notin {"to_assist", "to_highest"}
    BY <1>3, CallsUnderTest DEF Is, Readying
  <2>4. pc["middle"] = 1 => Now("middle").does = "sleep"
    BY <1>0, <1>3, ServingCalls
  <2>5. ASSUME NEW k \in 0..Iterations, pc["middle"] = k + 2
        PROVE  Now("middle").does = "return" \/ Is(Now("middle"), MiddleCall.does, MiddleCall.on)
    BY <1>0, <1>3, <2>5, ServingCalls
  <2> QED
    BY <2>2, <2>3, <2>4, <2>5 DEF Is
<1> QED
  BY <1>2, <1>3

\* The objects of the test and the middle thread stay as they are.
Apart ==
  /\ pc'["middle"] = pc["middle"] /\ status'["middle"] = status["middle"]
  /\ holder' = holder /\ messages' = messages /\ count'["test_object"] = count["test_object"]

LEMMA LowIdles ==
  ASSUME GeneralInv, Test \in Readying, Step("low"), NEW k \in 0..Iterations,
         At2("low") = 2 * k + 2, k < Iterations => count["to_assist"] = 0
  PROVE  Apart /\ At2("low")' = At2("low") /\ count' = count
<1>0. PartTypes /\ "low" \in Threads /\ "middle" \in Threads /\ "to_assist" \in Semaphores /\ Running
  BY StepContext DEF GeneralInv, Threads, Semaphores
<1>1. CASE pc["low"] = 1
  <2>1. Now("low").does = "sleep"
    BY <1>1, AssistLowCalls
  <2>2. /\ pc'["low"] = 2 /\ pc'["middle"] = pc["middle"] /\ status'["middle"] = status["middle"]
        /\ count' = count /\ holder' = holder /\ messages' = messages
    BY <1>0, <1>1, <2>1, SleepFacts DEF WakesNone
  <2> QED
    BY <1>1, <2>2 DEF Apart, At2
<1>2. CASE pc["low"] # 1 /\ k < Iterations
  <2>1. Is(Now("low"), "wait", "to_assist")
    BY <1>2, AssistLowCalls DEF At2
  <2>2. Stays("low")
    BY <1>0, <1>2, <2>1, WaitFacts
  <2> QED
    BY <1>0, <2>2 DEF Stays, Apart, At2
<1>3. CASE pc["low"] # 1 /\ k = Iterations
  <2>1. Now("low").does = "return"
    BY <1>3, AssistLowCalls DEF At2
  <2>2. Now("middle").does # "join"
    BY <1>0, MiddleElsewhere
  <2>3. /\ \A u \in Threads : pc'[u] = pc[u]
        /\ status'["middle"] = status["middle"]
        /\ count' = count /\ holder' = holder /\ messages' = messages
    BY <1>0, <2>1, <2>2, ReturnFacts
  <2> QED
    BY <1>0, <2>3 DEF Apart, At2
<1> QED
  BY <1>1, <1>2, <1>3, RealtimeAssumption

LEMMA LowHears ==
  ASSUME GeneralInv, Test \in Readying, Step("low"), NEW k \in 0..Iterations, k < Iterations,
         At2("low") = 2 * k + 2, count["to_assist"] = 1
  PROVE  /\ Apart
         /\ \/ At2("low")' = At2("low") /\ count' = count
            \/ At2("low")' = 2 * k + 3 /\ count'["to_assist"] = 0 /\ count'["to_highest"] = count["to_highest"]
<1>0. PartTypes /\ "low" \in Threads /\ "middle" \in Threads /\ "to_assist" \in Semaphores /\ Running
      /\ "to_highest" \in Semaphores /\ "test_object" \in Semaphores
  BY StepContext DEF GeneralInv, Threads, Semaphores
<1>1. CASE pc["low"] = 1
  <2>1. Now("low").does = "sleep"
    BY <1>1, AssistLowCalls
  <2>2. /\ pc'["low"] = 2 /\ pc'["middle"] = pc["middle"] /\ status'["middle"] = status["middle"]
        /\ count' = count /\ holder' = holder /\ messages' = messages
    BY <1>0, <1>1, <2>1, SleepFacts DEF WakesNone
  <2> QED
    BY <1>1, <2>2 DEF Apart, At2
<1>2. CASE pc["low"] # 1
  <2>1. Is(Now("low"), "wait", "to_assist") /\ pc["low"] = 2 * k + 2
    BY <1>2, AssistLowCalls DEF At2
  <2>2. /\ Moves("low") /\ WakesNone("low") /\ count'["to_assist"] = 0
        /\ count'["to_highest"] = count["to_highest"] /\ count'["test_object"] = count["test_object"]
        /\ holder' = holder /\ messages' = messages
    BY <1>0, <2>1, WaitFacts
  <2>3. pc'["low"] = 2 * k + 3
    BY <2>1, <2>2 DEF Moves
  <2> QED
    BY <1>0, <2>2, <2>3 DEF Moves, WakesNone, Apart, At2
<1> QED
  BY <1>1, <1>2

LEMMA LowHelps ==
  ASSUME GeneralInv, Test \in Readying, Step("low"), NEW k \in 0..Iterations, k < Iterations,
         At2("low") = 2 * k + 3
  PROVE  /\ Apart /\ At2("low")' = 2 * k + 4
         /\ count'["to_assist"] = count["to_assist"] /\ count'["to_highest"] = count["to_highest"] + 1
<1>0. PartTypes /\ "low" \in Threads /\ "middle" \in Threads /\ "to_assist" \in Semaphores /\ Running
      /\ "to_highest" \in Semaphores /\ "test_object" \in Semaphores
  BY StepContext DEF GeneralInv, Threads, Semaphores
<1>1. pc["low"] = 2 * k + 3
  BY DEF At2
<1>2. Is(Now("low"), "post", "to_highest")
  BY <1>1, AssistLowCalls
<1>3. /\ Moves("low") /\ Wakes("low", "wait", "to_highest") /\ count'["to_highest"] = count["to_highest"] + 1
      /\ count'["to_assist"] = count["to_assist"] /\ count'["test_object"] = count["test_object"]
      /\ holder' = holder /\ messages' = messages
  BY <1>0, <1>2, PostFacts
<1>4. ~Is(Now("middle"), "wait", "to_highest")
  BY <1>0, MiddleElsewhere
<1>5. status'["middle"] = status["middle"]
  BY <1>0, <1>3, <1>4 DEF Wakes
<1>6. pc'["low"] = 2 * k + 4
  BY <1>1, <1>3 DEF Moves
<1> QED
  BY <1>0, <1>3, <1>5, <1>6 DEF Moves, Apart, At2

LEMMA AssistNames ==
  /\ {"high", "middle", "low"} \subseteq Threads
  /\ {"to_assist", "to_highest", "test_object"} \subseteq Semaphores
  BY DEF Threads, Semaphores

LEMMA HighAsks ==
  ASSUME GeneralInv, Test \in Readying, Step("high"), NEW k \in 0..Iterations, k < Iterations,
         pc["high"] = Asks(k)
  PROVE  /\ Apart /\ pc'["high"] = pc["high"] + 1 /\ pc'["low"] = pc["low"] /\ status'["high"] = "ready"
         /\ count'["to_assist"] = count["to_assist"] + 1 /\ count'["to_highest"] = count["to_highest"]
<1>0. PartTypes /\ Running
  BY AssistNames, StepContext DEF GeneralInv
<1>1. Is(Now("high"), "post", "to_assist")
  BY AssistHighCalls
<1>2. /\ Moves("high") /\ Wakes("high", "wait", "to_assist") /\ count'["to_assist"] = count["to_assist"] + 1
      /\ count'["to_highest"] = count["to_highest"] /\ count'["test_object"] = count["test_object"]
      /\ holder' = holder /\ messages' = messages
  BY <1>0, <1>1, AssistNames, PostFacts
<1>3. status'["middle"] = status["middle"]
  BY <1>0, <1>2, AssistNames, MiddleElsewhere DEF Wakes
<1> QED
  BY <1>2, <1>3, AssistNames DEF Moves, Apart

LEMMA HighWaits ==
  ASSUME GeneralInv, Test \in Readying, Step("high"), NEW k \in 0..Iterations, k < Iterations,
         pc["high"] = Asks(k) + 1, count["to_highest"] = 0
  PROVE  Apart /\ pc'["high"] = pc["high"] /\ pc'["low"] = pc["low"] /\ count' = count
<1>0. PartTypes
  BY DEF GeneralInv
<1>1. Is(Now("high"), "wait", "to_highest")
  BY AssistHighCalls
<1>2. Stays("high")
  BY <1>0, <1>1, AssistNames, WaitFacts
<1> QED
  BY <1>2, AssistNames DEF Stays, Apart

LEMMA HighResumes ==
  ASSUME GeneralInv, Test \in Readying, Step("high"), NEW k \in 0..Iterations, k < Iterations,
         pc["high"] = Asks(k) + 1, count["to_highest"] = 1
  PROVE  /\ Apart /\ pc'["high"] = pc["high"] + 1 /\ pc'["low"] = pc["low"]
         /\ count'["to_assist"] = count["to_assist"] /\ count'["to_highest"] = 0
<1>0. PartTypes
  BY DEF GeneralInv
<1>1. Is(Now("high"), "wait", "to_highest")
  BY AssistHighCalls
<1>2. /\ Moves("high") /\ WakesNone("high") /\ count'["to_highest"] = 0
      /\ count'["to_assist"] = count["to_assist"] /\ count'["test_object"] = count["test_object"]
      /\ holder' = holder /\ messages' = messages
  BY <1>0, <1>1, AssistNames, WaitFacts
<1> QED
  BY <1>2, AssistNames DEF Moves, WakesNone, Apart

LEMMA HighLeaves ==
  ASSUME GeneralInv, Test \in Readying, Step("high"),
         pc["high"] \in First(Iterations)..(First(Iterations) + 2)
  PROVE  /\ Apart /\ pc'["high"] \in First(Iterations)..(First(Iterations) + 2) /\ pc'["low"] = pc["low"]
         /\ count' = count
<1>0. PartTypes /\ Running
  BY AssistNames, StepContext DEF GeneralInv
<1>1. Iterations \in 0..Iterations /\ First(Iterations) \in Nat
  BY RealtimeAssumption, TurnPlaces
<1>2. CASE pc["high"] \in {First(Iterations), First(Iterations) + 1}
  <2>1. Now("high").does = "join"
    BY <1>1, <1>2, AssistHighCalls
  <2>2. /\ Stays("high") \/ (Moves("high") /\ WakesNone("high"))
        /\ count' = count /\ holder' = holder /\ messages' = messages
    BY <1>0, <2>1, AssistNames, JoinFacts
  <2>3. Apart /\ pc'["low"] = pc["low"] /\ pc'["high"] \in {pc["high"], pc["high"] + 1}
    BY <2>2, AssistNames DEF Stays, Moves, WakesNone, Apart
  <2> QED
    BY <1>1, <1>2, <2>2, <2>3
<1>3. CASE pc["high"] = First(Iterations) + 2
  <2>1. Now("high").does = "return"
    BY <1>1, <1>3, AssistHighCalls
  <2>2. Now("middle").does # "join"
    BY <1>0, MiddleElsewhere
  <2> QED
    BY <1>0, <1>1, <1>3, <2>1, <2>2, AssistNames, ReturnFacts DEF Apart
<1> QED
  BY <1>1, <1>2, <1>3

\* The call under test, whatever the state of its object.
LEMMA HighReadies ==
  ASSUME GeneralInv, Test \in Readying, Step("high"), NEW k \in 0..Iterations, k < Iterations,
         pc["high"] = Asks(k) + 2
  PROVE  /\ pc'["high"] \in {pc["high"], pc["high"] + 1} /\ pc'["low"] = pc["low"]
         /\ count'["to_assist"] = count["to_assist"] /\ count'["to_highest"] = count["to_highest"]
<1>0. PartTypes /\ messages \in {0, 1} /\ blocks \in BOOLEAN
  BY DEF GeneralInv, PartTypes, MaxMsg
<1>1. Is(Now("high"), ReadyingCall.does, ReadyingCall.on)
  BY AssistHighCalls
<1>2. CASE Test = "5_3"
  <2>1. Is(Now("high"), "post", "test_object")
    BY <1>1, <1>2, CallsUnderTest DEF Is
  <2> QED
    BY <1>0, <2>1, AssistNames, PostFacts DEF Moves
<1>3. CASE Test = "6_3"
  <2>1. Is(Now("high"), "send", "mq")
    BY <1>1, <1>3, CallsUnderTest DEF Is
  <2> QED
    BY <1>0, <2>1, AssistNames, SendFacts DEF Moves, Stays
<1>4. CASE Test = "7_3"
  <2>1. Is(Now("high"), "receive", "mq")
    BY <1>1, <1>4, CallsUnderTest DEF Is
  <2> QED
    BY <1>0, <2>1, AssistNames, ReceiveFacts DEF Moves, Stays
<1>5. CASE Test = "9_3"
  <2>1. Is(Now("high"), "unlock", "lock")
    BY <1>1, <1>5, CallsUnderTest DEF Is
  <2> QED
    BY <1>0, <2>1, AssistNames, UnlockFacts DEF Moves
<1> QED
  BY <1>2, <1>3, <1>4, <1>5 DEF Readying

\* 5_3, 6_3 and 7_3: the middle thread waits for the object, which the call
\* under test gives and wakes it.
LEMMA HighGives ==
  ASSUME GeneralInv, Test \in Readying, Test # "9_3", Honest, Step("high"), NEW k \in 0..Iterations,
         k < Iterations, pc["high"] = Asks(k) + 2, Served(k), status["middle"] = "waiting"
  PROVE  pc'["high"] = pc["high"] + 1 /\ Served(k + 1)' /\ status'["middle"] = "woken"
<1>0. PartTypes /\ Running /\ Iterations \in Nat \ {0}
  BY AssistNames, StepContext, RealtimeAssumption DEF GeneralInv
<1>1. Is(Now("high"), ReadyingCall.does, ReadyingCall.on)
  BY AssistHighCalls
<1>2. At2("middle") = k + 2 /\ Object(0)
  BY DEF Served
<1>3. pc["middle"] = k + 2
  <2>1. pc["middle"] = 1 => Now("middle").does = "sleep"
    BY <1>0, ServingCalls
  <2>2. Now("middle").does # "sleep"
    BY <1>0, AssistNames DEF GeneralInv, ProgressInv, Blocking
  <2> QED
    BY <1>2, <2>1, <2>2 DEF At2
<1>4. Is(Now("middle"), MiddleCall.does, MiddleCall.on)
  BY <1>3, ServingCalls
<1>5. Test' = Test
  BY AssistNames, StepContext, SameProgram
<1> DEFINE Given == /\ Moves("high") /\ Wakes("high", MiddleCall.does, MiddleCall.on) /\ Object(1)'
<1>6. Given
  <2>1. CASE Test = "5_3"
    <3>1. Is(Now("high"), "post", "test_object") /\ Is(MiddleCall, "wait", "test_object") /\ count["test_object"] = 0
      BY <1>1, <1>2, <2>1, CallsUnderTest DEF Is, Object
    <3>2. Moves("high") /\ Wakes("high", "wait", "test_object") /\ count'["test_object"] = count["test_object"] + 1
      BY <1>0, <3>1, AssistNames, PostFacts
    <3> QED
      BY <1>5, <2>1, <3>1, <3>2 DEF Object, Is
  <2>2. CASE Test = "6_3"
    <3>1. Is(Now("high"), "send", "mq") /\ Is(MiddleCall, "receive", "mq") /\ messages = 0
      BY <1>1, <1>2, <2>2, CallsUnderTest DEF Is, Object
    <3>2. Moves("high") /\ Wakes("high", "receive", "mq") /\ messages' = 1
      BY <1>0, <3>1, AssistNames, SendFacts
    <3> QED
      BY <1>5, <2>2, <3>1, <3>2 DEF Object, Is
  <2>3. CASE Test = "7_3"
    <3>1. Is(Now("high"), "receive", "mq") /\ Is(MiddleCall, "send", "mq") /\ messages = 1
      BY <1>1, <1>2, <2>3, CallsUnderTest DEF Is, Object
    <3>2. Moves("high") /\ Wakes("high", "send", "mq") /\ messages' = 0
      BY <1>0, <3>1, AssistNames, ReceiveFacts
    <3> QED
      BY <1>5, <2>3, <3>1, <3>2 DEF Object, Is
  <2> QED
    BY <2>1, <2>2, <2>3 DEF Readying
<1>7. status'["middle"] = "woken" /\ pc'["middle"] = pc["middle"] /\ pc'["high"] = pc["high"] + 1 /\ Object(1)'
  BY <1>4, <1>6, AssistNames DEF Wakes, Moves
<1>8. At2("middle")' = (k + 1) + 1 /\ k + 1 > 0
  BY <1>3, <1>7 DEF At2
<1> QED
  BY <1>7, <1>8 DEF Served

\* The middle thread takes the object it is given, and touches no semaphore of the other two.
LEMMA MiddleApart ==
  ASSUME GeneralInv, Test \in Readying, Step("middle")
  PROVE  /\ count'["to_assist"] = count["to_assist"] /\ count'["to_highest"] = count["to_highest"]
         /\ pc'["high"] = pc["high"] /\ pc'["low"] = pc["low"]
         /\ status'["high"] = status["high"] \/ (status["high"] = "waiting" /\ status'["high"] = "woken")
<1>0. PartTypes /\ Running
  BY AssistNames, StepContext DEF GeneralInv
<1>1. /\ \A x \in {"to_assist", "to_highest"} : ~Is(Now("middle"), "wait", x)
      /\ Now("middle").does \notin {"join", "create"}
  BY <1>0, MiddleElsewhere
<1>2. /\ pc'["high"] = pc["high"] /\ pc'["low"] = pc["low"]
      /\ status'["high"] = status["high"] \/ (status["high"] = "waiting" /\ status'["high"] = "woken")
  BY <1>1, AssistNames, OthersStay
<1>3. Now("middle").does # "post"
  <2>1. Now("middle").does = "post" => Now("middle").on \in Posted("middle")
    BY <1>0, AssistNames, NowFits DEF GeneralInv, ProgressInv, Fits, Belongs
  <2> QED
    BY <2>1 DEF Posted
<1>4. ~Posts("middle")
  BY <1>3 DEF Posts, At
<1>5. CASE Waits("middle")
  <2>1. Now("middle").does = "wait" /\ count' = [count EXCEPT ![Now("middle").on] = @ - 1]
    BY <1>5 DEF Waits, At
  <2> QED
    BY <1>0, <1>1, <1>2, <2>1 DEF PartTypes, Is
<1>6. CASE ~Waits("middle")
  <2>1. count' = count
    BY <1>4, <1>6 DEF Step, Suspend, Sends, Receives, Locks, Unlocks, Joins, FallsAsleep, Creates, Ends, objectVars
  <2> QED
    BY <1>2, <2>1
<1> QED
  BY <1>5, <1>6

LEMMA LowElsewhere ==
  ASSUME GeneralInv, Running, Test \in Readying
  PROVE  Now("low").does \in {"sleep", "wait", "post", "return"}
<1>0. Iterations \in Nat \ {0}
  BY RealtimeAssumption
<1>1. pc["low"] \in 1..(2 * Iterations + 2)
  BY AssistNames, AssistSizes DEF GeneralInv, ProgressInv
<1>2. pc["low"] = 1 \/ \E k \in 0..Iterations : pc["low"] = 2 * k + 2 \/ (k < Iterations /\ pc["low"] = 2 * k + 3)
  <2> DEFINE k == (pc["low"] - 2) \div 2
  <2> SUFFICES ASSUME pc["low"] # 1
               PROVE  k \in 0..Iterations /\ (pc["low"] = 2 * k + 2 \/ (k < Iterations /\ pc["low"] = 2 * k + 3))
    BY Zenon
  <2> QED
    BY <1>0, <1>1
<1>3. pc["low"] = 1 => Now("low").does = "sleep"
  BY <1>0, AssistLowCalls
<1>4. ASSUME NEW k \in 0..Iterations, pc["low"] = 2 * k + 2 \/ (k < Iterations /\ pc["low"] = 2 * k + 3)
      PROVE  Now("low").does \in {"wait", "post", "return"}
  BY <1>0, <1>4, AssistLowCalls DEF Is
<1> QED
  BY <1>2, <1>3, <1>4

\* A thread that has slept is past its first call.
LEMMA PastSleep ==
  ASSUME GeneralInv, Running, NEW t \in Threads, status[t] \in {"waiting", "woken"}
  PROVE  Now(t).does # "sleep" /\ pc[t] # 1
<1>1. Now(t).does # "sleep"
  BY DEF GeneralInv, ProgressInv, Blocking
<1>2. Fits(t, Now(t), pc[t], Size(t))
  BY NowFits DEF GeneralInv, ProgressInv
<1> QED
  BY <1>1, <1>2 DEF Fits

\* The middle thread takes the object it is given or waits for it.
LEMMA MiddleTakes ==
  ASSUME GeneralInv, Test \in Readying, Test # "9_3", Honest, Step("middle"),
         NEW k \in 0..Iterations, Served(k)
  PROVE  Served(k)'
<1>0. PartTypes /\ Running /\ Iterations \in Nat \ {0}
  BY AssistNames, StepContext, RealtimeAssumption DEF GeneralInv
<1>1. Test' = Test /\ index' = index
  BY AssistNames, StepContext, SameProgram
<1>2. CASE pc["middle"] = 1
  <2>1. Now("middle").does = "sleep"
    BY <1>0, <1>2, ServingCalls
  <2>2. pc'["middle"] = 2 /\ count' = count /\ messages' = messages
    BY <1>0, <1>2, <2>1, AssistNames, SleepFacts
  <2>3. status["middle"] # "woken"
    BY <1>0, <1>2, AssistNames, PastSleep
  <2>4. At2("middle")' = At2("middle") /\ Object(0)' = Object(0)
    BY <1>1, <1>2, <2>2, SameObject DEF At2
  <2> QED
    BY <2>3, <2>4 DEF Served
<1>3. CASE pc["middle"] = k + 2 /\ Object(0) /\ k = Iterations
  <2>1. Now("middle").does = "return"
    BY <1>0, <1>3, ServingCalls
  <2>2. pc'["middle"] = pc["middle"] /\ count' = count /\ messages' = messages
    BY <1>0, <2>1, AssistNames, ReturnFacts
  <2>3. Object(0)'
    BY <1>1, <1>3, <2>2, SameObject
  <2>4. At2("middle")' = k + 2
    BY <1>0, <1>3, <2>2 DEF At2
  <2> QED
    BY <2>3, <2>4 DEF Served
<1>4. CASE pc["middle"] = k + 2 /\ Object(0) /\ k < Iterations
  <2>1. Is(Now("middle"), MiddleCall.does, MiddleCall.on)
    BY <1>4, ServingCalls
  <2>2. Stays("middle")
    <3>1. CASE Test = "5_3"
      BY <1>0, <1>4, <2>1, <3>1, AssistNames, CallsUnderTest, WaitFacts DEF Is, Object
    <3>2. CASE Test = "6_3"
      BY <1>0, <1>4, <2>1, <3>2, AssistNames, CallsUnderTest, ReceiveFacts DEF Is, Object
    <3>3. CASE Test = "7_3"
      BY <1>0, <1>4, <2>1, <3>3, AssistNames, CallsUnderTest, SendFacts DEF Is, Object, Honest
    <3> QED
      BY <3>1, <3>2, <3>3 DEF Readying
  <2>3. pc'["middle"] = pc["middle"] /\ count' = count /\ messages' = messages
    BY <2>2, AssistNames DEF Stays
  <2>4. Object(0)'
    BY <1>1, <1>4, <2>3, SameObject
  <2>5. At2("middle")' = k + 2
    BY <1>0, <1>4, <2>3 DEF At2
  <2> QED
    BY <2>4, <2>5 DEF Served
<1>5. CASE pc["middle"] = k + 1 /\ k > 0 /\ Object(1)
  <2>0. k - 1 \in 0..Iterations /\ k - 1 < Iterations /\ (k - 1) + 2 = k + 1
    BY <1>0, <1>5
  <2>1. Is(Now("middle"), MiddleCall.does, MiddleCall.on)
    BY <1>5, <2>0, ServingCalls
  <2>2. Moves("middle") /\ Object(0)'
    <3>1. CASE Test = "5_3"
      <4>1. Is(Now("middle"), "wait", "test_object") /\ count["test_object"] = 1
        BY <1>5, <2>1, <3>1, CallsUnderTest DEF Is, Object
      <4>2. Moves("middle") /\ count'["test_object"] = count["test_object"] - 1
        BY <1>0, <4>1, AssistNames, WaitFacts
      <4> QED
        BY <1>1, <3>1, <4>1, <4>2 DEF Object
    <3>2. CASE Test = "6_3"
      <4>1. Is(Now("middle"), "receive", "mq") /\ messages = 1
        BY <1>5, <2>1, <3>2, CallsUnderTest DEF Is, Object
      <4>2. Moves("middle") /\ messages' = 0
        BY <1>0, <4>1, AssistNames, ReceiveFacts
      <4> QED
        BY <1>1, <3>2, <4>2 DEF Object
    <3>3. CASE Test = "7_3"
      <4>1. Is(Now("middle"), "send", "mq") /\ messages = 0
        BY <1>5, <2>1, <3>3, CallsUnderTest DEF Is, Object
      <4>2. Moves("middle") /\ messages' = 1
        BY <1>0, <4>1, AssistNames, SendFacts
      <4> QED
        BY <1>1, <3>3, <4>2 DEF Object
    <3> QED
      BY <3>1, <3>2, <3>3 DEF Readying
  <2>3. At2("middle")' = k + 2
    BY <1>0, <1>5, <2>2 DEF At2, Moves
  <2> QED
    BY <2>2, <2>3 DEF Served
<1>6. pc["middle"] # 1 => (pc["middle"] = k + 2 /\ Object(0)) \/ (pc["middle"] = k + 1 /\ k > 0 /\ Object(1))
  BY DEF Served, At2
<1> QED
  BY <1>0, <1>2, <1>3, <1>4, <1>5, <1>6

LEMMA MiddleExcludes ==
  ASSUME GeneralInv, Test = "9_3", Step("middle"),
         NEW k \in 0..Iterations, Excluded(k), pc["high"] >= First(k), First(k) \in Nat, First(k) > 3
  PROVE  Excluded(k)'
<1>0. PartTypes /\ Running /\ Iterations \in Nat \ {0} /\ Test \in Readying /\ index' = index
  BY AssistNames, StepContext, RealtimeAssumption DEF GeneralInv, Readying
<1>1. Test' = Test /\ First(k)' = First(k)
  BY <1>0, SameProgram DEF First
<1>2. /\ pc'["high"] = pc["high"] /\ pc["high"] \in Nat
      /\ status'["high"] = status["high"] \/ (status["high"] = "waiting" /\ status'["high"] = "woken")
  BY <1>0, AssistNames, MiddleApart DEF PartTypes
<1>3. PICK m \in 0..k : \/ At2("middle") = 2 * m + 2 /\ (holder = "middle" => m < k)
                        \/ At2("middle") = 2 * m + 3 /\ m < k /\ holder = "middle"
  BY DEF Excluded
<1>4. ASSUME At2("middle")' = At2("middle"), holder' = holder
      PROVE  Excluded(k)'
  BY <1>1, <1>2, <1>4 DEF Excluded
<1>5. CASE pc["middle"] = 1
  <2>1. Now("middle").does = "sleep"
    BY <1>0, <1>5, ExcludedCalls
  <2>2. pc'["middle"] = 2 /\ holder' = holder
    BY <1>0, <1>5, <2>1, AssistNames, SleepFacts
  <2> QED
    BY <1>4, <1>5, <2>2 DEF At2
<1>6. CASE pc["middle"] = 2 * m + 2 /\ m = Iterations
  <2>1. Now("middle").does = "return"
    BY <1>0, <1>6, ExcludedCalls
  <2>2. pc'["middle"] = pc["middle"] /\ holder' = holder
    BY <1>0, <2>1, AssistNames, ReturnFacts
  <2> QED
    BY <1>4, <2>2 DEF At2
<1>7. CASE pc["middle"] = 2 * m + 2 /\ m < Iterations /\ (holder = "middle" => m < k)
  <2>1. Is(Now("middle"), "lock", "lock")
    BY <1>0, <1>7, ExcludedCalls
  <2>2. CASE holder \notin {"free", "middle"}
    <3>1. Stays("middle")
      BY <1>0, <2>1, <2>2, AssistNames, LockFacts
    <3>2. pc'["middle"] = pc["middle"] /\ holder' = holder
      BY <3>1, AssistNames DEF Stays
    <3> QED
      BY <1>4, <3>2 DEF At2
  <2>3. CASE holder \in {"free", "middle"}
    <3>1. Moves("middle") /\ holder' = "middle"
      BY <1>0, <2>1, <2>3, AssistNames, LockFacts
    <3>2. At2("middle")' = 2 * m + 3
      BY <1>3, <1>7, <3>1 DEF At2, Moves
    <3>3. ~(k < Iterations /\ pc["high"] > First(k))
      BY <2>3 DEF Excluded
    <3>4. ASSUME k < Iterations
          PROVE  holder = "middle"
      <4>1. pc["high"] = First(k) /\ pc["high"] > 3
        BY <1>2, <3>3, <3>4
      <4>2. status["high"] \notin {"ready", "woken"}
        BY <1>0, AssistNames, StepContext DEF Above, Active
      <4>3. status["high"] # "none" /\ status["high"] # "asleep"
        BY <1>0, <4>1, AssistNames DEF GeneralInv, ProgressInv
      <4>4. status["high"] # "ended"
        <5>1. Is(Now("high"), "lock", "lock")
          BY <1>0, <3>4, <4>1, AssistHighCalls
        <5>2. Fits("high", Now("high"), pc["high"], Size("high"))
          BY <1>0, AssistNames, NowFits DEF GeneralInv, ProgressInv
        <5>3. pc["high"] # Size("high")
          BY <5>1, <5>2 DEF Is, Fits
        <5> QED
          BY <1>0, <5>3, AssistNames DEF GeneralInv, ProgressInv
      <4>5. status["high"] = "waiting"
        BY <1>0, <4>2, <4>3, <4>4, AssistNames DEF PartTypes
      <4> QED
        BY <3>4, <4>1, <4>5 DEF Excluded
    <3>5. m < k
      BY <1>0, <1>3, <1>7, <3>4
    <3>6. ~(k < Iterations /\ pc'["high"] > First(k)')
      BY <1>1, <1>2, <3>3
    <3> QED
      BY <3>1, <3>2, <3>5, <3>6 DEF Excluded
  <2> QED
    BY <2>2, <2>3
<1>8. CASE pc["middle"] = 2 * m + 3 /\ m < k /\ holder = "middle"
  <2>0. m \in 0..Iterations /\ m < Iterations /\ m + 1 \in 0..k
    BY <1>0, <1>3, <1>8
  <2>1. Is(Now("middle"), "unlock", "lock")
    BY <1>8, <2>0, ExcludedCalls
  <2>2. /\ Moves("middle") /\ Wakes("middle", "lock", "lock")
        /\ holder' = "free" \/ (holder' \in Threads /\ holder' # "middle" /\ status[holder'] = "waiting" /\ Is(Now(holder'), "lock", "lock"))
    BY <1>0, <2>1, AssistNames, UnlockFacts
  <2>3. holder' \in {"free", "high"}
    <3>1. Now("low").does # "lock"
      BY <1>0, LowElsewhere
    <3> QED
      BY <2>2, <3>1 DEF Is, Threads
  <2>4. At2("middle")' = 2 * (m + 1) + 2
    BY <1>3, <1>8, <2>2 DEF At2, Moves
  <2>5. ~(k < Iterations /\ pc'["high"] > First(k)')
    BY <1>1, <1>2, <1>8 DEF Excluded
  <2>6. ASSUME k < Iterations, pc'["high"] = First(k)'
        PROVE  status'["high"] # "waiting"
    <3>1. Is(Now("high"), "lock", "lock")
      BY <1>0, <1>1, <1>2, <2>6, AssistHighCalls
    <3> QED
      BY <2>2, <3>1, AssistNames DEF Wakes
  <2> QED
    BY <2>0, <2>3, <2>4, <2>5, <2>6 DEF Excluded
<1>9. pc["middle"] # 1 => \/ pc["middle"] = 2 * m + 2 /\ (holder = "middle" => m < k)
                          \/ pc["middle"] = 2 * m + 3 /\ m < k /\ holder = "middle"
  BY <1>3 DEF At2
<1>10. m = Iterations \/ m < Iterations
  BY <1>0
<1> QED
  BY <1>5, <1>6, <1>7, <1>8, <1>9, <1>10

-----------------------------------------------------------------------------
(* 5_3, 6_3, 7_3 and 9_3: who comes to his CPU first. *)

\* The middle thread has slept when the low one first runs.
LEMMA MiddleIsOn ==
  ASSUME GeneralInv, Test \in Readying, ~failed, Step("low")
  PROVE  pc["middle"] > 1 /\ status["middle"] \in {"asleep", "waiting", "ended"} /\ pc["high"] > 3
<1>0. PartTypes /\ Running /\ Active("low") /\ ~Active("middle")
  BY AssistNames, StepContext DEF GeneralInv, Above
<1>1. pc["high"] > 3
  BY <1>0, AssistNames DEF GeneralInv, CreatedInv, PartTypes, Active
<1>2. status["middle"] # "none"
  BY <1>0, <1>1, AssistNames DEF GeneralInv, CreatedInv, PartTypes
<1>3. status["middle"] \in {"asleep", "waiting", "ended"}
  BY <1>0, <1>2, AssistNames DEF PartTypes, Active
<1>4. Size("middle") \in Nat /\ Size("middle") > 2 /\ pc["middle"] \in 1..Size("middle")
  BY <1>0, AssistNames, AllLongEnough DEF LongEnough, GeneralInv, ProgressInv
<1>5. status["middle"] = "waiting" => pc["middle"] # 1
  BY <1>0, AssistNames, PastSleep
<1>6. status["middle"] = "asleep" => pc["middle"] = 2
  BY <1>0, AssistNames DEF GeneralInv, ProgressInv
<1>7. status["middle"] = "ended" => pc["middle"] = Size("middle")
  BY <1>0, AssistNames DEF GeneralInv, ProgressInv
<1> QED
  BY <1>1, <1>3, <1>4, <1>5, <1>6, <1>7

\* Who sleeps is left alone by every other call.
LEMMA SleepersStay ==
  ASSUME GeneralInv, NEW t \in Threads, Step(t), Now(t).does # "sleep"
  PROVE  sleepers' = sleepers /\ \A u \in Threads : status'[u] = "asleep" <=> status[u] = "asleep"
<1>1. sleepers' = sleepers
  BY DEF Step, Suspend, Posts, Waits, Sends, Receives, Locks, Unlocks, Joins, FallsAsleep, Creates, Ends, Goes, At
<1>2. SleepInv /\ SleepInv'
  BY StepKeeps DEF GeneralInv
<1> QED
  BY <1>1, <1>2 DEF SleepInv

LEMMA OrderStep ==
  ASSUME GeneralInv, OrderInv, NEW t \in Threads, Step(t)
  PROVE  OrderInv'
<1> SUFFICES ASSUME Running', (Test \in Readying)', ~failed'
             PROVE  /\ pc'["high"] = 3 => status'["high"] = "ready" /\ pc'["middle"] = 1
                    /\ pc'["low"] > 1 => pc'["middle"] > 1
                    /\ pc'["low"] > 1 /\ status'["low"] # "asleep" => status'["middle"] # "asleep"
                    /\ \A i, j \in 1..Len(sleepers') : sleepers'[i] = "middle" /\ sleepers'[j] = "low" => i < j
  BY DEF OrderInv
<1>0. /\ PartTypes /\ Running /\ ~failed /\ Test \in Readying /\ GeneralInv'
      /\ Active(t) /\ \A u \in Above(t) : ~Active(u)
  BY StepContext, SameProgram, StepKeeps DEF GeneralInv
<1>1. /\ pc["high"] = 3 => status["high"] = "ready" /\ pc["middle"] = 1
      /\ pc["low"] > 1 => pc["middle"] > 1
      /\ pc["low"] > 1 /\ status["low"] # "asleep" => status["middle"] # "asleep"
      /\ \A i, j \in 1..Len(sleepers) : sleepers[i] = "middle" /\ sleepers[j] = "low" => i < j
  BY <1>0 DEF OrderInv
<1>2. /\ pc["high"] \in Nat /\ pc["middle"] \in Nat /\ pc["low"] \in Nat
      /\ pc[t] \in 1..Size(t) /\ Fits(t, Now(t), pc[t], Size(t))
  BY <1>0, AssistNames, NowFits DEF PartTypes, GeneralInv, ProgressInv
<1>3. pc["high"] = 3 => t = "high"
  BY <1>0, <1>1 DEF Above, Active, Threads
<1>4. status["low"] = "none" => pc["low"] = 1
  BY <1>0, AssistNames DEF GeneralInv, ProgressInv
<1>5. status["low"] = "asleep" => pc["low"] = 2
  BY <1>0, AssistNames DEF GeneralInv, ProgressInv
<1>6. CASE Now(t).does = "sleep"
  <2>1. /\ pc[t] = 1 /\ pc'[t] = 2 /\ status'[t] = "asleep" /\ sleepers' = Append(sleepers, t)
        /\ \A u \in Threads : u # t => pc'[u] = pc[u] /\ status'[u] = status[u]
    <3>1. Returns(t)
      BY <1>6 DEF Returns
    <3>2. FallsAsleep(t)
      BY <1>6, <3>1, StepByCall
    <3>3. pc[t] = 1
      BY <1>2, <1>6 DEF Fits
    <3> QED
      <4>1. sleepers' = Append(sleepers, t)
        BY <3>2 DEF FallsAsleep
      <4> QED
        BY <1>0, <3>2, <3>3, <4>1, FallsAsleepFacts
  <2>2. sleepers \in Seq(Threads) /\ Len(sleepers) \in Nat
    BY DEF GeneralInv, SleepInv
  <2>3. /\ Len(sleepers') = Len(sleepers) + 1 /\ sleepers'[Len(sleepers) + 1] = t
        /\ \A i \in 1..Len(sleepers) : sleepers'[i] = sleepers[i]
    BY <2>1, <2>2
  <2>4. \A i \in 1..Len(sleepers') : i \in 1..Len(sleepers) \/ i = Len(sleepers) + 1
    BY <2>2, <2>3
  <2>5. CASE t = "high"
    <3>1. \A i \in 1..Len(sleepers') : sleepers'[i] \in {"middle", "low"} => i \in 1..Len(sleepers) /\ sleepers'[i] = sleepers[i]
      BY <2>3, <2>4, <2>5
    <3> QED
      BY <1>1, <2>1, <2>5, <3>1, AssistNames
  <2>6. CASE t = "middle"
    <3>1. pc["low"] = 1
      <4>1. pc["middle"] = 1 /\ pc["low"] \in 1..Size("low")
        BY <1>0, <2>1, <2>6, AssistNames DEF GeneralInv, ProgressInv
      <4> QED
        BY <1>1, <1>2, <4>1
    <3>2. \A j \in 1..Len(sleepers) : sleepers[j] # "low"
      BY <1>5, <3>1, AssistNames DEF GeneralInv, SleepInv
    <3> QED
      BY <1>3, <2>1, <2>3, <2>4, <2>6, <3>1, <3>2, AssistNames
  <2>7. CASE t = "low"
    <3>1. pc["middle"] > 1
      BY <1>0, <2>7, MiddleIsOn
    <3>2. \A i \in 1..Len(sleepers') : sleepers'[i] = "middle" => i \in 1..Len(sleepers) /\ sleepers'[i] = sleepers[i]
      BY <2>3, <2>4, <2>7
    <3>3. \A j \in 1..Len(sleepers) : sleepers[j] # "low"
      BY <1>0, <2>7, AssistNames DEF GeneralInv, SleepInv, Active
    <3> QED
      BY <1>3, <2>1, <2>2, <2>3, <2>4, <2>7, <3>1, <3>2, <3>3, AssistNames
  <2> QED
    BY <2>5, <2>6, <2>7 DEF Threads
<1>7. CASE Now(t).does = "create"
  <2>1. sleepers' = sleepers /\ \A u \in Threads : status'[u] = "asleep" <=> status[u] = "asleep"
    BY <1>7, SleepersStay
  <2>2. /\ t = "high" /\ pc'["high"] = pc["high"] + 1 /\ status'["high"] = "ready"
        /\ pc'["middle"] = pc["middle"] /\ pc'["low"] = pc["low"]
    BY <1>7, CreateFacts, AssistNames DEF Moves
  <2>3. pc["high"] \in {2, 3}
    BY <1>2, <1>7, <2>2 DEF Fits
  <2>4. pc["low"] = 1
    BY <1>0, <1>4, <2>3 DEF GeneralInv, CreatedInv
  <2>5. pc["high"] = 2 => pc["middle"] = 1
    BY <1>0, AssistNames DEF GeneralInv, CreatedInv, ProgressInv
  <2> QED
    BY <1>1, <2>1, <2>2, <2>3, <2>4, <2>5
<1>8. CASE Now(t).does \notin {"sleep", "create"}
  <2>1. sleepers' = sleepers /\ \A u \in Threads : status'[u] = "asleep" <=> status[u] = "asleep"
    BY <1>8, SleepersStay
  <2>2. \A u \in Threads : u # t => pc'[u] = pc[u]
    BY <1>8, OthersStay
  <2>3. pc'[t] \in {pc[t], pc[t] + 1}
    <3>1. CASE Takes(t)
      BY <1>0, <3>1, TakesGoes, GoesFacts
    <3>2. CASE Suspend(t)
      BY <1>0, <3>2, SuspendFacts
    <3>3. CASE Ends(t)
      BY <1>0, <3>3, EndsFacts
    <3> QED
      BY <1>8, <3>1, <3>2, <3>3 DEF Step, Takes, FallsAsleep, Creates, At
  <2>4. pc[t] > 1 /\ (t = "high" => pc[t] > 3)
    <3>1. pc[t] # 1
      BY <1>2, <1>8 DEF Fits
    <3>2. t = "high" => pc[t] \notin {2, 3}
      BY <1>0, <1>2, <1>8 DEF Fits
    <3> QED
      BY <1>2, <3>1, <3>2
  <2>5. CASE t = "high"
    BY <1>1, <1>2, <2>1, <2>2, <2>3, <2>4, <2>5, AssistNames
  <2>6. CASE t \in {"middle", "low"}
    BY <1>1, <1>2, <1>3, <2>1, <2>2, <2>3, <2>4, <2>6, AssistNames
  <2> QED
    BY <2>5, <2>6 DEF Threads
<1> QED
  BY <1>6, <1>7, <1>8

LEMMA OrderKeeps ==
  ASSUME GeneralInv, OrderInv, [Next]_vars
  PROVE  OrderInv'
<1>1. ASSUME NEW i, Starts(i)
      PROVE  OrderInv'
  <2> SUFFICES ASSUME Running'
               PROVE  /\ pc'["high"] # 3 /\ ~(pc'["low"] > 1) /\ Len(sleepers') = 0
    BY DEF OrderInv
  <2>1. \A t \in Threads : pc'[t] = 1
    BY <1>1, StartsObjects
  <2>2. sleepers' = <<>>
    BY <1>1 DEF Starts
  <2> QED
    BY <2>1, <2>2, AssistNames
<1>2. CASE WakesUp
  <2> SUFFICES ASSUME Running', (Test \in Readying)', ~failed'
               PROVE  /\ pc'["high"] = 3 => status'["high"] = "ready" /\ pc'["middle"] = 1
                      /\ pc'["low"] > 1 => pc'["middle"] > 1
                      /\ pc'["low"] > 1 /\ status'["low"] # "asleep" => status'["middle"] # "asleep"
                      /\ \A i, j \in 1..Len(sleepers') : sleepers'[i] = "middle" /\ sleepers'[j] = "low" => i < j
    BY DEF OrderInv
  <2>1. /\ sleepers # <<>> /\ sleepers' = Tail(sleepers) /\ pc' = pc /\ index' = index /\ failed' = failed
        /\ status' = [status EXCEPT ![Head(sleepers)] = "ready"]
    BY <1>2 DEF WakesUp, testVars
  <2>2. Running /\ Test \in Readying /\ ~failed /\ PartTypes
    BY <2>1, SameProgram DEF GeneralInv
  <2>3. /\ pc["high"] = 3 => status["high"] = "ready" /\ pc["middle"] = 1
        /\ pc["low"] > 1 => pc["middle"] > 1
        /\ pc["low"] > 1 /\ status["low"] # "asleep" => status["middle"] # "asleep"
        /\ \A i, j \in 1..Len(sleepers) : sleepers[i] = "middle" /\ sleepers[j] = "low" => i < j
    BY <2>2 DEF OrderInv
  <2>4. sleepers \in Seq(Threads) /\ Len(sleepers) \in Nat /\ Len(sleepers) > 0
    BY <2>1 DEF GeneralInv, SleepInv
  <2>5. /\ Len(sleepers') = Len(sleepers) - 1 /\ Head(sleepers) = sleepers[1]
        /\ \A i \in 1..Len(sleepers') : sleepers'[i] = sleepers[i + 1]
    BY <2>1, <2>4
  <2>6. \A u \in Threads : status'[u] = IF u = sleepers[1] THEN "ready" ELSE status[u]
    BY <2>1, <2>2, <2>5 DEF PartTypes
  <2>7. sleepers[1] = "low" => status["middle"] # "asleep"
    <3> SUFFICES ASSUME sleepers[1] = "low", status["middle"] = "asleep"
                 PROVE  FALSE
      OBVIOUS
    <3>1. PICK i \in 1..Len(sleepers) : sleepers[i] = "middle"
      BY AssistNames DEF GeneralInv, SleepInv
    <3>2. i < 1
      BY <2>3, <2>4, <3>1
    <3> QED
      BY <3>1, <3>2
  <2>8. \A i, j \in 1..Len(sleepers') : sleepers'[i] = "middle" /\ sleepers'[j] = "low" => i < j
    <3> SUFFICES ASSUME NEW i \in 1..Len(sleepers'), NEW j \in 1..Len(sleepers'), sleepers'[i] = "middle", sleepers'[j] = "low"
                 PROVE  i < j
      OBVIOUS
    <3>1. i + 1 \in 1..Len(sleepers) /\ j + 1 \in 1..Len(sleepers)
      BY <2>4, <2>5
    <3>2. i + 1 < j + 1
      BY <2>3, <2>5, <3>1
    <3> QED
      BY <3>1, <3>2
  <2> QED
    BY <2>1, <2>3, <2>6, <2>7, <2>8, AssistNames
<1>3. ASSUME NEW t \in Threads, Step(t)
      PROVE  OrderInv'
  BY <1>3, OrderStep
<1>4. CASE UNCHANGED vars
  <2>1. UNCHANGED <<index, failed, status, pc, sleepers>>
    BY <1>4 DEF vars, testVars
  <2> QED
    BY <2>1, SameProgram DEF OrderInv
<1> QED
  BY <1>1, <1>2, <1>3, <1>4 DEF Next, Begin, Finish, Probe

-----------------------------------------------------------------------------
(* 9_3: the mutex of the high and the middle thread. *)

LEMMA SamePlaces ==
  ASSUME index' = index
  PROVE  \A k : First(k)' = First(k) /\ Asks(k)' = Asks(k)
  BY SameProgram DEF First, Asks

\* The high thread comes to the mutex and has it or waits for it.
LEMMA HighLocks ==
  ASSUME GeneralInv, Test = "9_3", Step("high"), NEW k \in 0..Iterations, k < Iterations,
         pc["high"] = First(k), Excluded(k)
  PROVE  /\ pc'["high"] \in {First(k), Asks(k)} /\ pc'["low"] = pc["low"] /\ count' = count
         /\ Excluded(k)'
<1>0. PartTypes /\ Test \in Readying /\ index' = index
  BY AssistNames, StepContext DEF GeneralInv, Readying
<1>1. Is(Now("high"), "lock", "lock")
  BY <1>0, AssistHighCalls
<1>2. Asks(k) = First(k) + 1 /\ First(k) \in Nat /\ First(k)' = First(k)
  BY <1>0, TurnPlaces, SamePlaces
<1>3. holder \in {"free", "high", "middle"}
  BY <1>0 DEF Excluded, PartTypes, Threads
<1>4. CASE holder = "middle"
  <2>1. Stays("high")
    BY <1>0, <1>1, <1>4, AssistNames, LockFacts
  <2>2. pc'["high"] = pc["high"] /\ pc'["low"] = pc["low"] /\ pc'["middle"] = pc["middle"] /\ count' = count /\ holder' = holder
    BY <2>1, AssistNames DEF Stays
  <2>3. At2("middle")' = At2("middle")
    BY <2>2 DEF At2
  <2> QED
    BY <1>2, <1>4, <2>2, <2>3 DEF Excluded
<1>5. CASE holder \in {"free", "high"}
  <2>1. Moves("high") /\ holder' = "high" /\ count' = count
    BY <1>0, <1>1, <1>5, AssistNames, LockFacts
  <2>2. pc'["high"] = pc["high"] + 1 /\ pc'["low"] = pc["low"] /\ pc'["middle"] = pc["middle"]
    BY <2>1, AssistNames DEF Moves
  <2>3. At2("middle")' = At2("middle")
    BY <2>2 DEF At2
  <2>4. \E m \in 0..k : At2("middle") = 2 * m + 2
    BY <1>5 DEF Excluded
  <2>5. pc'["high"] # First(k)'
    BY <1>2, <2>2
  <2> QED
    BY <1>2, <2>1, <2>2, <2>3, <2>4, <2>5 DEF Excluded
<1> QED
  BY <1>3, <1>4, <1>5

\* It gives the mutex up, to nobody or to the middle thread.
LEMMA HighUnlocks ==
  ASSUME GeneralInv, Test = "9_3", Step("high"), NEW k \in 0..Iterations, k < Iterations,
         pc["high"] = Asks(k) + 2, Excluded(k)
  PROVE  pc'["high"] = pc["high"] + 1 /\ Excluded(k + 1)' /\ holder = "high"
<1>0. PartTypes /\ Test \in Readying /\ index' = index /\ Running
  BY AssistNames, StepContext DEF GeneralInv, Readying
<1>1. Is(Now("high"), ReadyingCall.does, ReadyingCall.on)
  BY <1>0, AssistHighCalls
<1>2. Is(Now("high"), "unlock", "lock")
  BY <1>1, CallsUnderTest DEF Is
<1>3. /\ Asks(k) = First(k) + 1 /\ First(k) \in Nat /\ First(k + 1) = Asks(k) + 3
      /\ First(k + 1)' = First(k + 1)
  BY <1>0, TurnPlaces, SamePlaces
<1>4. /\ Moves("high") /\ Wakes("high", "lock", "lock")
      /\ holder' = "free" \/ (holder' \in Threads /\ holder' # "high" /\ status[holder'] = "waiting" /\ Is(Now(holder'), "lock", "lock"))
  BY <1>0, <1>2, AssistNames, UnlockFacts
<1>5. holder' \in {"free", "middle"}
  <2>1. Now("low").does # "lock"
    BY <1>0, LowElsewhere
  <2> QED
    BY <1>4, <2>1 DEF Is, Threads
<1>6. pc'["high"] = First(k + 1) /\ status'["high"] = "ready" /\ pc'["middle"] = pc["middle"]
  BY <1>3, <1>4, AssistNames DEF Moves
<1>7. holder = "high"
  BY <1>3 DEF Excluded
<1>8. PICK m \in 0..k : At2("middle") = 2 * m + 2
  BY <1>7 DEF Excluded
<1>9. At2("middle")' = 2 * m + 2 /\ m \in 0..(k + 1) /\ m < k + 1
  BY <1>6, <1>8 DEF At2
<1>10. pc'["high"] = pc["high"] + 1 /\ First(k + 1) \in Nat
  BY <1>3, <1>6
<1>11. ~(pc'["high"] > First(k + 1)')
  BY <1>3, <1>6, <1>10
<1>12. status'["high"] # "waiting" /\ holder' # "low"
  BY <1>5, <1>6
<1>13. Excluded(k + 1)'
  BY <1>9, <1>11, <1>12 DEF Excluded
<1> QED
  BY <1>7, <1>10, <1>13

\* The middle thread is served as long as nobody but it touches its object.
LEMMA ApartServes ==
  ASSUME Apart, index' = index, blocks' = blocks, Test \in Readying, NEW k \in 0..Iterations, Serves(k),
         Test = "9_3" /\ k < Iterations =>
           /\ pc'["high"] > First(k) => pc["high"] > First(k)
           /\ pc'["high"] = First(k) /\ status'["high"] = "waiting" => pc["high"] = First(k) /\ status["high"] = "waiting"
  PROVE  Serves(k)' /\ Honest' = Honest
<1>0. Honest' = Honest /\ Test' = Test
  BY SameHonesty, SameProgram
<1>1. At2("middle")' = At2("middle") /\ status'["middle"] = status["middle"] /\ holder' = holder
  BY DEF At2, Apart
<1>2. CASE Test = "9_3"
  <2>1. Excluded(k)
    BY <1>2 DEF Serves, Honest
  <2>2. First(k)' = First(k)
    BY SamePlaces
  <2>3. Excluded(k)'
    BY <1>1, <1>2, <2>1, <2>2 DEF Excluded
  <2> QED
    BY <1>0, <1>2, <2>3 DEF Serves
<1>3. CASE Test # "9_3"
  <2>1. \A g : Object(g)' = Object(g)
    BY <1>0 DEF Object, Apart, Readying
  <2>2. Served(k) => Served(k)'
    BY <1>1, <2>1 DEF Served
  <2> QED
    BY <1>0, <1>3, <2>2 DEF Serves
<1> QED
  BY <1>2, <1>3

\* The low thread, which asks last, is heard when the middle one is stopped.
LEMMA MiddleBlocked ==
  ASSUME GeneralInv, OrderInv, Test \in Readying, ~failed, Step("low"), Honest,
         NEW k \in 0..Iterations, k < Iterations, Serves(k), At2("low") = 2 * k + 3
  PROVE  status["middle"] = "waiting"
<1>0. PartTypes /\ Running /\ Active("low") /\ Iterations \in Nat \ {0}
  BY AssistNames, StepContext, RealtimeAssumption DEF GeneralInv
<1>1. status["middle"] \in {"asleep", "waiting", "ended"} /\ pc["middle"] > 1
  BY MiddleIsOn
<1>2. status["middle"] # "asleep"
  <2>1. pc["low"] > 1
    BY DEF At2
  <2> QED
    BY <1>0, <2>1 DEF OrderInv, Active
<1>3. pc["middle"] # Size("middle")
  <2>1. At2("middle") = pc["middle"]
    BY <1>1 DEF At2
  <2>2. CASE Test = "9_3"
    <3>1. \E m \in 0..k : At2("middle") = 2 * m + 2 \/ At2("middle") = 2 * m + 3
      BY <2>2 DEF Serves, Excluded
    <3>2. Size("middle") = 2 * Iterations + 2
      BY <2>2, AssistSizes
    <3> QED
      BY <1>0, <2>1, <3>1, <3>2
  <2>3. CASE Test # "9_3"
    <3>1. At2("middle") \in {k + 1, k + 2}
      BY <2>3 DEF Serves, Served
    <3>2. Size("middle") = Iterations + 2
      BY <2>3, AssistSizes
    <3> QED
      BY <1>0, <2>1, <3>1, <3>2
  <2> QED
    BY <2>2, <2>3
<1>4. status["middle"] # "ended"
  BY <1>0, <1>3, AssistNames DEF GeneralInv, ProgressInv
<1> QED
  BY <1>1, <1>2, <1>4

-----------------------------------------------------------------------------
(* 5_3, 6_3, 7_3 and 9_3: from turn to turn. *)

\* One of the places of the turn k.
Settled(k) == Serves(k) /\ (Before(k) \/ After(k))

LEMMA AssistPlace ==
  ASSUME NEW k \in 0..Iterations, Settled(k)
  PROVE  pc["high"] \in Nat /\ pc["high"] >= First(k) /\ pc["high"] > 3
<1>1. First(k) \in Nat /\ First(k) > 3 /\ Asks(k) \in Nat /\ Asks(k) >= First(k)
  BY TurnPlaces
<1>2. CASE k < Iterations /\ Begun(k)
  BY <1>1, <1>2 DEF Begun, AssistRow
<1>3. CASE Calling(k) \/ Heard(k) \/ Helped(k)
  BY <1>1, <1>3 DEF Calling, Heard, Helped, AssistRow
<1>4. CASE Resumed(k)
  BY <1>1, <1>4 DEF Resumed, AssistRow
<1>5. CASE Over(k)
  BY <1>1, <1>5 DEF Over, AssistRow
<1> QED
  BY <1>2, <1>3, <1>4, <1>5 DEF Settled, Before, After

\* What it does to the places that the high and the low thread stay apart.
LEMMA AssistHighBegun ==
  ASSUME GeneralInv, Test \in Readying, Step("high"), NEW k \in 0..Iterations, k < Iterations, Serves(k), Begun(k)
  PROVE  Settled(k)'
<1>0. index' = index /\ blocks' = blocks
  BY AssistNames, StepContext
<1>1. First(k) \in Nat /\ Asks(k) \in {First(k), First(k) + 1} /\ First(k)' = First(k) /\ Asks(k)' = Asks(k)
  BY <1>0, TurnPlaces, SamePlaces
<1>2. /\ pc["high"] \in First(k)..Asks(k) /\ At2("low") = 2 * k + 2
      /\ count["to_assist"] = 0 /\ count["to_highest"] = 0
  BY DEF Begun, AssistRow
<1>3. CASE pc["high"] = Asks(k)
  <2>1. /\ Apart /\ pc'["high"] = pc["high"] + 1 /\ pc'["low"] = pc["low"] /\ status'["high"] = "ready"
        /\ count'["to_assist"] = count["to_assist"] + 1 /\ count'["to_highest"] = count["to_highest"]
    BY <1>3, HighAsks
  <2>2. At2("low")' = At2("low")
    BY <2>1 DEF At2
  <2>3. Calling(k)'
    BY <1>1, <1>2, <1>3, <2>1, <2>2 DEF Calling, AssistRow
  <2>4. Test = "9_3" => Asks(k) = First(k) + 1
    BY TurnPlaces
  <2>5. Test = "9_3" => pc["high"] > First(k)
    BY <1>1, <1>3, <2>4
  <2>6. status'["high"] # "waiting"
    BY <2>1
  <2>7. Serves(k)'
    BY <1>0, <2>1, <2>5, <2>6, ApartServes
  <2> QED
    BY <2>3, <2>7 DEF Settled, Before
<1>4. CASE pc["high"] # Asks(k)
  <2>1. Test = "9_3" /\ pc["high"] = First(k)
    BY <1>1, <1>2, <1>4, TurnPlaces
  <2>2. Excluded(k)
    BY <2>1 DEF Serves, Honest
  <2>3. /\ pc'["high"] \in {First(k), Asks(k)} /\ pc'["low"] = pc["low"] /\ count' = count
        /\ Excluded(k)'
    BY <2>1, <2>2, HighLocks
  <2>4. At2("low")' = At2("low")
    BY <2>3 DEF At2
  <2>5. pc'["high"] \in First(k)..Asks(k)
    BY <1>1, <2>3
  <2>6. Begun(k)'
    BY <1>1, <1>2, <2>3, <2>4, <2>5 DEF Begun, AssistRow
  <2>7. Test' = "9_3"
    BY <1>0, <2>1, SameProgram
  <2> QED
    BY <2>3, <2>6, <2>7 DEF Settled, Before, Serves
<1> QED
  BY <1>3, <1>4

LEMMA AssistHighAsked ==
  ASSUME GeneralInv, Test \in Readying, Step("high"), NEW k \in 0..Iterations, k < Iterations, Serves(k),
         Calling(k) \/ Heard(k)
  PROVE  Settled(k)'
<1>0. index' = index /\ blocks' = blocks
  BY AssistNames, StepContext
<1>1. First(k) \in Nat /\ Asks(k) \in {First(k), First(k) + 1} /\ First(k)' = First(k) /\ Asks(k)' = Asks(k)
  BY <1>0, TurnPlaces, SamePlaces
<1>2. pc["high"] = Asks(k) + 1 /\ count["to_highest"] = 0
  BY DEF Calling, Heard, AssistRow
<1>3. Apart /\ pc'["high"] = pc["high"] /\ pc'["low"] = pc["low"] /\ count' = count
  BY <1>2, HighWaits
<1>4. At2("low")' = At2("low")
  BY <1>3 DEF At2
<1>5. Calling(k) => Calling(k)'
  BY <1>1, <1>3, <1>4 DEF Calling, AssistRow
<1>6. Heard(k) => Heard(k)'
  BY <1>1, <1>3, <1>4 DEF Heard, AssistRow
<1>7. pc["high"] > First(k) /\ pc'["high"] # First(k)
  BY <1>1, <1>2, <1>3
<1>8. Serves(k)'
  BY <1>0, <1>3, <1>7, ApartServes
<1> QED
  BY <1>5, <1>6, <1>8 DEF Settled, Before

LEMMA AssistHighHelped ==
  ASSUME GeneralInv, Test \in Readying, Step("high"), NEW k \in 0..Iterations, k < Iterations, Serves(k),
         Helped(k), Honest => status["middle"] = "waiting"
  PROVE  Settled(k)'
<1>0. index' = index /\ blocks' = blocks
  BY AssistNames, StepContext
<1>1. First(k) \in Nat /\ Asks(k) \in {First(k), First(k) + 1} /\ First(k)' = First(k) /\ Asks(k)' = Asks(k)
  BY <1>0, TurnPlaces, SamePlaces
<1>2. pc["high"] = Asks(k) + 1 /\ count["to_highest"] = 1 /\ At2("low") = 2 * k + 4 /\ count["to_assist"] = 0
  BY DEF Helped, AssistRow
<1>3. /\ Apart /\ pc'["high"] = pc["high"] + 1 /\ pc'["low"] = pc["low"]
      /\ count'["to_assist"] = count["to_assist"] /\ count'["to_highest"] = 0
  BY <1>2, HighResumes
<1>4. At2("low")' = At2("low")
  BY <1>3 DEF At2
<1>5. pc'["high"] = Asks(k) + 2
  BY <1>1, <1>2, <1>3
<1>6. Resumed(k)'
  BY <1>1, <1>2, <1>3, <1>4, <1>5 DEF Resumed, AssistRow
<1>7. pc["high"] > First(k) /\ pc'["high"] # First(k)
  BY <1>1, <1>2, <1>3
<1>8. Serves(k)' /\ Honest' = Honest
  BY <1>0, <1>3, <1>7, ApartServes
<1>9. status'["middle"] = status["middle"]
  BY <1>3 DEF Apart
<1> QED
  BY <1>6, <1>8, <1>9 DEF Settled, After

LEMMA AssistHighResumed ==
  ASSUME GeneralInv, Test \in Readying, Step("high"), NEW k \in 0..Iterations, k < Iterations, Serves(k),
         Resumed(k), Honest => status["middle"] = "waiting"
  PROVE  Settled(k)' \/ Settled(k + 1)'
<1>0. index' = index /\ blocks' = blocks /\ Honest' = Honest /\ Test' = Test
  BY AssistNames, StepContext, SameHonesty, SameProgram
<1>1. /\ First(k) \in Nat /\ Asks(k) \in Nat /\ Asks(k)' = Asks(k)
      /\ First(k + 1) = Asks(k) + 3 /\ First(k + 1)' = First(k + 1) /\ Asks(k + 1)' = Asks(k + 1)
  BY <1>0, TurnPlaces, SamePlaces
<1>2. /\ pc["high"] = Asks(k) + 2 /\ count["to_highest"] = 0 /\ At2("low") = 2 * k + 4 /\ count["to_assist"] = 0
  BY DEF Resumed, AssistRow
<1>3. /\ pc'["high"] \in {pc["high"], pc["high"] + 1} /\ pc'["low"] = pc["low"]
      /\ count'["to_assist"] = count["to_assist"] /\ count'["to_highest"] = count["to_highest"]
  BY <1>2, HighReadies
<1>4. At2("low")' = 2 * k + 4
  BY <1>2, <1>3 DEF At2
<1>5. ASSUME pc'["high"] = pc["high"] + 1
      PROVE  Before(k + 1)'
  <2>1. pc'["high"] = First(k + 1)
    BY <1>1, <1>2, <1>5
  <2>2. At2("low")' = 2 * (k + 1) + 2
    BY <1>4
  <2>3. CASE k + 1 < Iterations
    <3>1. First(k + 1) \in Nat /\ Asks(k + 1) \in {First(k + 1), First(k + 1) + 1}
      <4>1. k + 1 \in 0..Iterations
        BY <2>3, RealtimeAssumption
      <4>2. /\ First(k + 1) \in Nat
            /\ Test = "9_3" => Asks(k + 1) = First(k + 1) + 1
            /\ Test # "9_3" => Asks(k + 1) = First(k + 1)
        BY <4>1, TurnPlaces
      <4> QED
        BY <4>2
    <3>2. pc'["high"] \in First(k + 1)..Asks(k + 1)
      BY <2>1, <3>1
    <3>3. Begun(k + 1)'
      BY <1>1, <1>2, <1>3, <2>2, <3>2 DEF Begun, AssistRow
    <3> QED
      BY <2>3, <3>3 DEF Before
  <2>4. CASE k + 1 = Iterations
    <3>1. First(k + 1) \in Nat
      BY <1>1
    <3>2. pc'["high"] \in First(k + 1)..(First(k + 1) + 2)
      BY <2>1, <3>1
    <3>3. Over(k + 1)'
      BY <1>1, <1>2, <1>3, <2>2, <3>2 DEF Over, AssistRow
    <3> QED
      BY <2>4, <3>3 DEF Before
  <2> QED
    BY <2>3, <2>4, RealtimeAssumption
<1>6. ASSUME pc'["high"] = pc["high"]
      PROVE  Resumed(k)'
  BY <1>1, <1>2, <1>3, <1>4, <1>6 DEF Resumed, AssistRow
<1>7. CASE ~Honest
  <2>1. Serves(k)' /\ Serves(k + 1)'
    BY <1>0, <1>7 DEF Serves
  <2> QED
    BY <1>0, <1>3, <1>5, <1>6, <1>7, <2>1 DEF Settled, After
<1>8. CASE Honest /\ Test # "9_3"
  <2>1. Served(k)
    BY <1>8 DEF Serves
  <2>2. pc'["high"] = pc["high"] + 1 /\ Served(k + 1)'
    BY <1>2, <1>8, <2>1, HighGives
  <2> QED
    BY <1>0, <1>5, <1>8, <2>2 DEF Settled, Serves
<1>9. CASE Test = "9_3"
  <2>1. Excluded(k)
    BY <1>9 DEF Serves, Honest
  <2>2. pc'["high"] = pc["high"] + 1 /\ Excluded(k + 1)'
    BY <1>2, <1>9, <2>1, HighUnlocks
  <2> QED
    BY <1>0, <1>5, <1>9, <2>2 DEF Settled, Serves
<1> QED
  BY <1>7, <1>8, <1>9

LEMMA AssistHighOver ==
  ASSUME GeneralInv, Test \in Readying, Step("high"), Serves(Iterations), Over(Iterations)
  PROVE  Settled(Iterations)'
<1>0. index' = index /\ blocks' = blocks /\ Iterations \in 0..Iterations /\ ~(Iterations < Iterations)
  BY AssistNames, StepContext, RealtimeAssumption
<1>1. First(Iterations)' = First(Iterations)
  BY <1>0, SamePlaces
<1>2. /\ pc["high"] \in First(Iterations)..(First(Iterations) + 2)
      /\ count["to_highest"] = 0 /\ At2("low") = 2 * Iterations + 2 /\ count["to_assist"] = 0
  BY DEF Over, AssistRow
<1>3. /\ Apart /\ pc'["high"] \in First(Iterations)..(First(Iterations) + 2) /\ pc'["low"] = pc["low"]
      /\ count' = count
  BY <1>2, HighLeaves
<1>4. At2("low")' = At2("low")
  BY <1>3 DEF At2
<1>5. Over(Iterations)'
  BY <1>1, <1>2, <1>3, <1>4 DEF Over, AssistRow
<1>6. Serves(Iterations)'
  BY <1>0, <1>3, ApartServes
<1> QED
  BY <1>5, <1>6 DEF Settled, Before

LEMMA AssistHighStep ==
  ASSUME GeneralInv, Test \in Readying, Step("high"), NEW k \in 0..Iterations, Settled(k)
  PROVE  \E j \in 0..Iterations : Settled(j)'
<1>1. CASE k < Iterations /\ Begun(k)
  BY <1>1, AssistHighBegun DEF Settled
<1>2. CASE k < Iterations /\ (Calling(k) \/ Heard(k))
  BY <1>2, AssistHighAsked DEF Settled
<1>3. CASE k < Iterations /\ Helped(k) /\ (Honest => status["middle"] = "waiting")
  BY <1>3, AssistHighHelped DEF Settled
<1>4. CASE k < Iterations /\ Resumed(k) /\ (Honest => status["middle"] = "waiting")
  <2>1. Settled(k)' \/ Settled(k + 1)'
    BY <1>4, AssistHighResumed DEF Settled
  <2>2. k + 1 \in 0..Iterations
    BY <1>4, RealtimeAssumption
  <2> QED
    BY <2>1, <2>2
<1>5. CASE k = Iterations /\ Over(k)
  BY <1>5, AssistHighOver DEF Settled
<1> QED
  BY <1>1, <1>2, <1>3, <1>4, <1>5 DEF Settled, Before, After

LEMMA AssistLowCalling ==
  ASSUME GeneralInv, Test \in Readying, Step("low"), NEW k \in 0..Iterations, k < Iterations, Calling(k),
         index' = index, pc'["high"] = pc["high"]
  PROVE  Apart /\ (Calling(k)' \/ Heard(k)')
<1>1. Asks(k)' = Asks(k)
  BY SamePlaces
<1>2. pc["high"] = Asks(k) + 1 /\ At2("low") = 2 * k + 2 /\ count["to_assist"] = 1 /\ count["to_highest"] = 0
  BY DEF Calling, AssistRow
<1>3. /\ Apart
      /\ \/ At2("low")' = At2("low") /\ count' = count
         \/ At2("low")' = 2 * k + 3 /\ count'["to_assist"] = 0 /\ count'["to_highest"] = count["to_highest"]
  BY <1>2, LowHears
<1>4. CASE At2("low")' = At2("low") /\ count' = count
  BY <1>1, <1>2, <1>3, <1>4 DEF Calling, AssistRow
<1>5. CASE At2("low")' = 2 * k + 3 /\ count'["to_assist"] = 0 /\ count'["to_highest"] = count["to_highest"]
  BY <1>1, <1>2, <1>3, <1>5 DEF Heard, AssistRow
<1> QED
  BY <1>3, <1>4, <1>5

LEMMA AssistLowHeard ==
  ASSUME GeneralInv, Test \in Readying, Step("low"), NEW k \in 0..Iterations, k < Iterations, Heard(k),
         index' = index, pc'["high"] = pc["high"]
  PROVE  Apart /\ Helped(k)'
<1>1. Asks(k)' = Asks(k)
  BY SamePlaces
<1>2. pc["high"] = Asks(k) + 1 /\ At2("low") = 2 * k + 3 /\ count["to_assist"] = 0 /\ count["to_highest"] = 0
  BY DEF Heard, AssistRow
<1>3. /\ Apart /\ At2("low")' = 2 * k + 4
      /\ count'["to_assist"] = count["to_assist"] /\ count'["to_highest"] = count["to_highest"] + 1
  BY <1>2, LowHelps
<1> QED
  BY <1>1, <1>2, <1>3 DEF Helped, AssistRow

\* Where it has nothing to do the low thread changes nothing.
LEMMA AssistLowIdle ==
  ASSUME GeneralInv, Test \in Readying, Step("low"), NEW k \in 0..Iterations,
         (k < Iterations /\ (Begun(k) \/ Helped(k) \/ Resumed(k))) \/ (k = Iterations /\ Over(k)),
         index' = index, pc'["high"] = pc["high"]
  PROVE  /\ Apart
         /\ (Begun(k) => Begun(k)') /\ (Helped(k) => Helped(k)')
         /\ (Resumed(k) => Resumed(k)') /\ (Over(k) => Over(k)')
<1>1. First(k)' = First(k) /\ Asks(k)' = Asks(k)
  BY SamePlaces
<1>2. Apart /\ At2("low")' = At2("low") /\ count' = count
  <2>1. CASE k < Iterations /\ Begun(k)
    BY <2>1, LowIdles DEF Begun, AssistRow
  <2>2. CASE k < Iterations /\ (Helped(k) \/ Resumed(k))
    <3>1. k + 1 \in 0..Iterations
      BY <2>2, RealtimeAssumption
    <3>2. At2("low") = 2 * k + 4 /\ count["to_assist"] = 0
      BY <2>2 DEF Helped, Resumed, AssistRow
    <3>3. At2("low") = 2 * (k + 1) + 2
      BY <3>2
    <3> QED
      BY <3>1, <3>2, <3>3, LowIdles
  <2>3. CASE k = Iterations /\ Over(k)
    BY <2>3, LowIdles DEF Over, AssistRow
  <2> QED
    BY <2>1, <2>2, <2>3
<1>3. Begun(k) => Begun(k)'
  BY <1>1, <1>2 DEF Begun, AssistRow
<1>4. Helped(k) => Helped(k)'
  BY <1>1, <1>2 DEF Helped, AssistRow
<1>5. Resumed(k) => Resumed(k)'
  BY <1>1, <1>2 DEF Resumed, AssistRow
<1>6. Over(k) => Over(k)'
  BY <1>1, <1>2 DEF Over, AssistRow
<1> QED
  BY <1>2, <1>3, <1>4, <1>5, <1>6

LEMMA AssistLowStep ==
  ASSUME GeneralInv, OrderInv, Test \in Readying, ~failed, Step("low"), NEW k \in 0..Iterations, Settled(k)
  PROVE  Settled(k)'
<1>0. /\ PartTypes /\ index' = index /\ blocks' = blocks /\ Running
  BY AssistNames, StepContext DEF GeneralInv
<1>1. /\ pc'["high"] = pc["high"]
      /\ status'["high"] = status["high"] \/ (status["high"] = "waiting" /\ status'["high"] = "woken")
  BY <1>0, AssistNames, LowElsewhere, OthersStay
<1>2. ASSUME Apart
      PROVE  Serves(k)' /\ Honest' = Honest /\ status'["middle"] = status["middle"]
  <2>1. Serves(k)' /\ Honest' = Honest
    BY <1>0, <1>1, <1>2, ApartServes DEF Settled
  <2> QED
    BY <1>2, <2>1 DEF Apart
<1>3. CASE k < Iterations /\ Calling(k)
  BY <1>0, <1>1, <1>2, <1>3, AssistLowCalling DEF Settled, Before
<1>4. CASE k < Iterations /\ Heard(k)
  <2>1. Apart /\ Helped(k)'
    BY <1>0, <1>1, <1>4, AssistLowHeard
  <2>2. Honest => status["middle"] = "waiting"
    BY <1>4, MiddleBlocked DEF Settled, Heard, AssistRow
  <2> QED
    BY <1>2, <1>4, <2>1, <2>2 DEF Settled, After
<1>5. CASE k < Iterations /\ Begun(k)
  BY <1>0, <1>1, <1>2, <1>5, AssistLowIdle DEF Settled, Before
<1>6. CASE k < Iterations /\ (Helped(k) \/ Resumed(k)) /\ (Honest => status["middle"] = "waiting")
  BY <1>0, <1>1, <1>2, <1>6, AssistLowIdle DEF Settled, After
<1>7. CASE k = Iterations /\ Over(k)
  BY <1>0, <1>1, <1>2, <1>7, AssistLowIdle DEF Settled, Before
<1> QED
  BY <1>3, <1>4, <1>5, <1>6, <1>7 DEF Settled, Before, After

LEMMA AssistMiddleStep ==
  ASSUME GeneralInv, Test \in Readying, ~failed, Step("middle"), NEW k \in 0..Iterations, Settled(k)
  PROVE  Settled(k)'
<1>0. /\ PartTypes /\ index' = index /\ blocks' = blocks /\ Running /\ Active("middle") /\ Honest' = Honest /\ Test' = Test
  BY AssistNames, StepContext, SameHonesty, SameProgram DEF GeneralInv
<1>1. /\ count'["to_assist"] = count["to_assist"] /\ count'["to_highest"] = count["to_highest"]
      /\ pc'["high"] = pc["high"] /\ pc'["low"] = pc["low"]
  BY MiddleApart
<1>2. At2("low")' = At2("low") /\ First(k)' = First(k) /\ Asks(k)' = Asks(k)
  BY <1>0, <1>1, SamePlaces DEF At2
<1>3. /\ Begun(k) => Begun(k)'
      /\ Calling(k) => Calling(k)'
      /\ Heard(k) => Heard(k)'
      /\ Helped(k) => Helped(k)'
      /\ Resumed(k) => Resumed(k)'
      /\ Over(k) => Over(k)'
  BY <1>1, <1>2 DEF Begun, Calling, Heard, Helped, Resumed, Over, AssistRow
<1>4. Before(k) => Before(k)'
  BY <1>3 DEF Before
<1>5. After(k) => After(k)'
  <2>1. status["middle"] # "waiting"
    BY <1>0 DEF Active
  <2> QED
    BY <1>0, <1>3, <2>1 DEF After
<1>6. Serves(k)'
  <2>1. CASE ~Honest
    BY <1>0, <2>1 DEF Serves
  <2>2. CASE Honest /\ Test # "9_3"
    <3>1. Served(k)
      BY <2>2 DEF Settled, Serves
    <3>2. Served(k)'
      BY <2>2, <3>1, MiddleTakes
    <3> QED
      BY <1>0, <2>2, <3>2 DEF Serves
  <2>3. CASE Test = "9_3"
    <3>1. Excluded(k)
      BY <2>3 DEF Settled, Serves, Honest
    <3>2. First(k) \in Nat /\ First(k) > 3 /\ pc["high"] >= First(k)
      BY TurnPlaces, AssistPlace
    <3>3. Excluded(k)'
      BY <2>3, <3>1, <3>2, MiddleExcludes
    <3> QED
      BY <1>0, <2>3, <3>3 DEF Serves
  <2> QED
    BY <2>1, <2>2, <2>3
<1> QED
  BY <1>4, <1>5, <1>6 DEF Settled

\* The two helpers are created in the middle of nothing.
LEMMA AssistStarts ==
  ASSUME GeneralInv, OrderInv, AssistAt, Test \in Readying, ~failed, ~failed', NEW t \in Threads, Step(t), pc["high"] < 4
  PROVE  AssistAt'
<1>0. /\ PartTypes /\ Running /\ index' = index /\ Test' = Test /\ Active(t) /\ \A u \in Above(t) : ~Active(u)
      /\ Iterations \in Nat \ {0}
  BY StepContext, SameProgram, RealtimeAssumption DEF GeneralInv
<1>1. pc["high"] \in Nat /\ pc["high"] \in 1..Size("high") /\ Size("high") \in Nat /\ Size("high") > 5
  BY <1>0, AssistNames, AllLongEnough DEF GeneralInv, ProgressInv, PartTypes, LongEnough
<1>2. status["low"] = "none" /\ pc["low"] = 1
  BY <1>0, <1>1, AssistNames DEF GeneralInv, CreatedInv, ProgressInv
<1>3. pc["high"] < 3 => status["middle"] = "none"
  BY <1>0, <1>1 DEF GeneralInv, CreatedInv
<1>4. pc["high"] = 3 => status["high"] = "ready" /\ pc["middle"] = 1
  BY <1>0 DEF OrderInv
<1>5. t = "high"
  BY <1>0, <1>1, <1>2, <1>3, <1>4 DEF Active, Above, Threads
<1>6. count["to_assist"] = 0 /\ count["to_highest"] = 0 /\ Object(0) /\ holder = "free"
  BY <1>1 DEF AssistAt
<1>7. Now("high").does \in {"sleep", "create"} /\ (pc["high"] = 1 <=> Now("high").does = "sleep")
  <2>1. Fits("high", Now("high"), pc["high"], Size("high"))
    BY <1>0, <1>1, AssistNames, NowFits
  <2>2. pc["high"] \in {1, 2, 3}
    BY <1>1
  <2> QED
    BY <1>0, <2>1, <2>2 DEF Fits
<1>8. CASE pc["high"] = 1
  <2>1. pc'["high"] = 2 /\ count' = count /\ holder' = holder /\ messages' = messages
    BY <1>0, <1>5, <1>7, <1>8, SleepFacts
  <2>2. Object(0)'
    BY <1>0, <1>6, <2>1, SameObject
  <2> QED
    BY <1>6, <2>1, <2>2 DEF AssistAt
<1>9. CASE pc["high"] # 1
  <2>1. /\ Moves("high") /\ status'["high"] = "ready"
        /\ count' = count /\ holder' = holder /\ messages' = messages
    BY <1>5, <1>7, <1>9, CreateFacts DEF Moves
  <2>2. Object(0)'
    BY <1>0, <1>6, <2>1, SameObject
  <2>3. pc'["high"] = pc["high"] + 1 /\ pc'["low"] = 1 /\ pc'["middle"] = pc["middle"]
    BY <1>2, <2>1, AssistNames DEF Moves
  <2>4. CASE pc["high"] = 2
    <3>1. pc'["high"] = 3
      BY <2>3, <2>4
    <3> QED
      BY <1>6, <2>1, <2>2, <3>1 DEF AssistAt
  <2>5. CASE pc["high"] = 3
    <3>1. pc'["high"] = 4 /\ pc'["middle"] = 1
      BY <1>4, <2>3, <2>5
    <3>2. /\ 0 \in 0..Iterations /\ 0 < Iterations
          /\ First(0)' = 4 /\ Asks(0)' \in {4, 5}
      <4>1. First(0) = 4 /\ (Test = "9_3" => Asks(0) = 5) /\ (Test # "9_3" => Asks(0) = 4)
        BY <1>0, TurnPlaces
      <4>2. First(0)' = First(0) /\ Asks(0)' = Asks(0)
        BY <1>0, SamePlaces
      <4> QED
        BY <1>0, <4>1, <4>2
    <3>3. At2("low")' = 2 /\ At2("middle")' = 2
      BY <2>3, <3>1 DEF At2
    <3>4. Begun(0)'
      <4>1. 4 \in 4..(Asks(0)')
        BY <3>2
      <4>2. At2("low")' = 2 * 0 + 2
        BY <3>3
      <4> QED
        BY <1>6, <2>1, <3>1, <3>2, <4>1, <4>2 DEF Begun, AssistRow
    <3>5. Served(0)'
      <4>1. At2("middle")' = 0 + 2
        BY <3>3
      <4> QED
        BY <2>2, <4>1 DEF Served
    <3>6. Excluded(0)'
      <4>1. 0 \in 0..0 /\ At2("middle")' = 2 * 0 + 2 /\ holder' = "free"
        BY <1>6, <2>1, <3>3
      <4>2. ~(pc'["high"] > First(0)') /\ status'["high"] # "waiting"
        BY <2>1, <3>1, <3>2
      <4> QED
        BY <4>1, <4>2 DEF Excluded
    <3>7. Serves(0)' /\ Before(0)'
      BY <3>2, <3>4, <3>5, <3>6 DEF Serves, Before
    <3> QED
      BY <3>1, <3>2, <3>7 DEF AssistAt
  <2> QED
    BY <1>1, <1>9, <2>4, <2>5
<1> QED
  BY <1>8, <1>9

Placed == \A k \in 0..Iterations : Settled(k) => pc["high"] \in Nat /\ pc["high"] > 3

LEMMA AllPlaced == Placed
  BY AssistPlace DEF Placed

LEMMA AssistStep ==
  ASSUME GeneralInv, OrderInv, AssistInv, NEW t \in Threads, Step(t)
  PROVE  AssistInv'
<1> SUFFICES ASSUME Running', (Test \in Readying)', ~failed'
             PROVE  AssistAt'
  BY DEF AssistInv
<1>1. Running /\ Test \in Readying /\ ~failed
  BY StepContext, SameProgram
<1>2. AssistAt
  BY <1>1 DEF AssistInv
<1>3. CASE pc["high"] < 4
  BY <1>1, <1>2, <1>3, AssistStarts
<1>4. CASE pc["high"] >= 4
  <2>1. PICK k \in 0..Iterations : Settled(k)
    BY <1>2, <1>4 DEF AssistAt, Settled
  <2>2. \E j \in 0..Iterations : Settled(j)'
    BY <1>1, <2>1, AssistHighStep, AssistMiddleStep, AssistLowStep DEF Threads
  <2>3. PICK j \in 0..Iterations : Settled(j)'
    BY <2>2
  <2>4. Placed'
    BY AllPlaced, PTL
  <2>5. pc'["high"] \in Nat /\ pc'["high"] > 3
    BY <2>3, <2>4 DEF Placed
  <2>6. ~(pc'["high"] < 4)
    BY <2>5
  <2>7. Serves(j)' /\ (Before(j)' \/ After(j)')
    BY <2>3 DEF Settled
  <2> QED
    BY <2>6, <2>7 DEF AssistAt
<1>5. pc["high"] \in Nat
  BY AssistNames DEF GeneralInv, PartTypes
<1> QED
  BY <1>3, <1>4, <1>5

LEMMA AssistKeeps ==
  ASSUME GeneralInv, OrderInv, AssistInv, [Next]_vars
  PROVE  AssistInv'
<1>1. ASSUME NEW i, Starts(i)
      PROVE  AssistInv'
  <2> SUFFICES ASSUME Running'
               PROVE  AssistAt'
    BY DEF AssistInv
  <2>1. /\ pc'["high"] = 1 /\ Object(0)' /\ holder' = "free"
        /\ count'["to_assist"] = 0 /\ count'["to_highest"] = 0
    BY <1>1, StartsObjects, AssistNames
  <2> QED
    BY <2>1 DEF AssistAt
<1>2. CASE WakesUp
  <2> SUFFICES ASSUME Running', (Test \in Readying)', ~failed'
               PROVE  AssistAt'
    BY DEF AssistInv
  <2>1. UNCHANGED <<index, blocks, found, failed, pc, count, holder, messages>>
    BY <1>2 DEF WakesUp, testVars, objectVars
  <2>2. /\ Test' = Test /\ Honest' = Honest /\ (\A g : Object(g)' = Object(g))
        /\ \A k : First(k)' = First(k) /\ Asks(k)' = Asks(k)
    BY <2>1, SameProgram, SameHonesty, SameObject, SamePlaces
  <2>3. AssistAt
    BY <2>1, <2>2, SameProgram DEF AssistInv
  <2>4. \A u \in {"high", "middle"} : status'[u] = status[u] \/ (status[u] = "asleep" /\ status'[u] = "ready")
    BY <1>2, WakesUpKeeps, AssistNames
  <2>5. At2("low")' = At2("low") /\ At2("middle")' = At2("middle")
    BY <2>1 DEF At2
  <2>6. ASSUME NEW k \in 0..Iterations, Settled(k)
        PROVE  Settled(k)'
    <3>1. Served(k) => Served(k)'
      BY <2>2, <2>4, <2>5 DEF Served
    <3>2. Excluded(k) => Excluded(k)'
      BY <2>1, <2>2, <2>4, <2>5 DEF Excluded
    <3>3. Before(k) => Before(k)'
      BY <2>1, <2>2, <2>5 DEF Before, Begun, Calling, Heard, Over, AssistRow
    <3>4. After(k) => After(k)'
      BY <2>1, <2>2, <2>4, <2>5 DEF After, Helped, Resumed, AssistRow
    <3> QED
      BY <2>2, <2>6, <3>1, <3>2, <3>3, <3>4 DEF Settled, Serves
  <2>7. pc["high"] >= 4 => \E k \in 0..Iterations : Settled(k)'
    BY <2>3, <2>6 DEF AssistAt, Settled
  <2> QED
    BY <2>1, <2>2, <2>3, <2>7 DEF AssistAt, Settled
<1>3. ASSUME NEW t \in Threads, Step(t)
      PROVE  AssistInv'
  BY <1>3, AssistStep
<1>4. CASE UNCHANGED vars
  <2>1. UNCHANGED <<index, blocks, found, failed, status, pc, sleepers, count, holder, messages>>
    BY <1>4 DEF vars, testVars, objectVars
  <2>2. /\ Test' = Test /\ Running' = Running /\ Honest' = Honest /\ (\A g : Object(g)' = Object(g))
        /\ \A k : First(k)' = First(k) /\ Asks(k)' = Asks(k)
    BY <2>1, SameProgram, SameHonesty, SameObject, SamePlaces
  <2>3. At2("low")' = At2("low") /\ At2("middle")' = At2("middle")
    BY <2>1 DEF At2
  <2>4. \A k : (Served(k)' <=> Served(k)) /\ (Excluded(k)' <=> Excluded(k))
    BY <2>1, <2>2, <2>3 DEF Served, Excluded
  <2>5. \A k : (Before(k)' <=> Before(k)) /\ (After(k)' <=> After(k))
    BY <2>1, <2>2, <2>3 DEF Before, Begun, Calling, Heard, Over, After, Helped, Resumed, AssistRow
  <2>6. \A k : Serves(k)' <=> Serves(k)
    BY <2>2, <2>4 DEF Serves
  <2> QED
    BY <2>1, <2>2, <2>5, <2>6 DEF AssistInv, AssistAt
<1> QED
  BY <1>1, <1>2, <1>3, <1>4 DEF Next, Begin, Finish, Probe

-----------------------------------------------------------------------------
(* The semaphores nobody uses, the verdict of test6_0, and all together. *)

\* A test that could not create a thread has no semaphore in use.
LEMMA CreateQuiet ==
  ASSUME GeneralInv, HandedInv, LockInv, AssistInv, Running, ~failed,
         pc["high"] = 2 \/ (pc["high"] = 3 /\ Test \in Readying), NEW s \in Posted("high") \cup Posted("low")
  PROVE  count[s] = 0
<1>0. Iterations \in Nat \ {0}
  BY RealtimeAssumption
<1>1. CASE Test = "4_2"
  <2>1. s = "sem" /\ Test \in Handing /\ Honest /\ pc["high"] = 2
    BY <1>1, TestKinds DEF Posted, Handing, Honest
  <2>2. Object(0)
    BY <2>1 DEF HandedInv, HandedAt
  <2> QED
    BY <1>1, <2>1, <2>2 DEF Object
<1>2. CASE Test = "8_2"
  <2>1. s \in {"to_locker", "to_unlocker"} /\ pc["high"] = 2
    BY <1>2, TestKinds DEF Posted
  <2> QED
    BY <1>2, <2>1 DEF LockInv, LockAt
<1>3. CASE Test \in Readying
  <2>1. pc["high"] < 4
    OBVIOUS
  <2>2. count["to_assist"] = 0 /\ count["to_highest"] = 0 /\ Object(0)
    BY <1>3, <2>1 DEF AssistInv, AssistAt
  <2> QED
    BY <1>3, <2>2 DEF Posted, Readying, Object
<1>4. Test \in {"4_2", "8_2"} \/ Test \in Readying
  BY DEF Posted, Readying
<1> QED
  BY <1>1, <1>2, <1>3, <1>4

LEMMA QuietStep ==
  ASSUME GeneralInv, HandedInv, LockInv, AssistInv, QuietInv, NEW t \in Threads, Step(t)
  PROVE  QuietInv'
<1>0. PartTypes /\ Running /\ Active(t) /\ index' = index /\ Running' = Running /\ Test' = Test
  BY StepContext, SameProgram DEF GeneralInv
<1>1. Posted("high")' = Posted("high") /\ Posted("low")' = Posted("low")
  BY <1>0 DEF Posted
<1>2. /\ pc[t] \in 1..Size(t) /\ Fits(t, Now(t), pc[t], Size(t)) /\ Belongs(t, Now(t))
  BY <1>0, NowFits DEF GeneralInv, ProgressInv, Fits
<1> SUFFICES ASSUME NEW s \in Semaphores, failed' \/ s \notin Posted("high") \cup Posted("low")
             PROVE  count'[s] = 0
  BY <1>0, <1>1 DEF QuietInv
<1>3. CASE failed \/ s \notin Posted("high") \cup Posted("low")
  <2>1. count[s] = 0
    BY <1>3 DEF QuietInv
  <2>2. CASE Posts(t)
    <3>1. Now(t).does = "post" /\ Now(t).on \in Posted(t) /\ count' = [count EXCEPT ![Now(t).on] = @ + 1]
      BY <1>2, <2>2 DEF Posts, At, Belongs
    <3>2. t \in {"high", "low"}
      BY <3>1 DEF Posted, Threads
    <3>3. ~failed
      <4>1. failed => status["low"] = "none" /\ (status["high"] # "none" => pc["high"] = Size("high"))
        BY <1>0 DEF GeneralInv, FailedInv
      <4>2. pc[t] # Size(t)
        BY <1>2, <3>1 DEF Fits
      <4> QED
        BY <1>0, <3>2, <4>1, <4>2 DEF Active
    <3>4. Now(t).on # s
      BY <1>3, <3>1, <3>2, <3>3
    <3> QED
      BY <1>0, <2>1, <3>1, <3>4 DEF PartTypes
  <2>3. CASE Waits(t)
    <3>1. count[Now(t).on] > 0 /\ count' = [count EXCEPT ![Now(t).on] = @ - 1]
      BY <2>3 DEF Waits, At, Returns
    <3>2. Now(t).on # s
      BY <2>1, <3>1
    <3> QED
      BY <1>0, <2>1, <3>1, <3>2 DEF PartTypes
  <2>4. CASE ~Posts(t) /\ ~Waits(t)
    <3>1. count' = count
      BY <2>4 DEF Step, Suspend, Sends, Receives, Locks, Unlocks, Joins, FallsAsleep, Creates, Ends, objectVars
    <3> QED
      BY <2>1, <3>1
  <2> QED
    BY <2>2, <2>3, <2>4
<1>4. CASE ~failed /\ s \in Posted("high") \cup Posted("low")
  <2>1. failed'
    BY <1>4
  <2>2. Creates(t)
    BY <1>4, <2>1 DEF Step, Suspend, Posts, Waits, Sends, Receives, Locks, Unlocks, Joins, FallsAsleep, Ends, Goes, testVars
  <2>3. Now(t).does = "create" /\ count' = count
    BY <2>2 DEF Creates, At, objectVars
  <2>4. t = "high" /\ (pc["high"] = 2 \/ (pc["high"] = 3 /\ Test \in Readying))
    BY <1>2, <2>3 DEF Fits
  <2> QED
    BY <1>0, <1>4, <2>3, <2>4, CreateQuiet
<1> QED
  BY <1>3, <1>4

LEMMA QuietKeeps ==
  ASSUME GeneralInv, HandedInv, LockInv, AssistInv, QuietInv, [Next]_vars
  PROVE  QuietInv'
<1>1. ASSUME NEW i, Starts(i)
      PROVE  QuietInv'
  BY <1>1 DEF Starts, QuietInv
<1>2. ASSUME UNCHANGED <<index, failed, count>>
      PROVE  QuietInv'
  <2>1. Posted("high")' = Posted("high") /\ Posted("low")' = Posted("low") /\ Running' = Running
    BY <1>2, SameProgram DEF Posted
  <2> QED
    BY <1>2, <2>1 DEF QuietInv
<1>3. CASE WakesUp
  BY <1>2, <1>3 DEF WakesUp, testVars, objectVars
<1>4. ASSUME NEW t \in Threads, Step(t)
      PROVE  QuietInv'
  BY <1>4, QuietStep
<1>5. CASE UNCHANGED vars
  BY <1>2, <1>5 DEF vars, testVars, objectVars
<1> QED
  BY <1>1, <1>3, <1>4, <1>5 DEF Next, Begin, Finish, Probe

LEMMA JudgedKeeps ==
  ASSUME GeneralInv, JudgedInv, [Next]_vars
  PROVE  JudgedInv'
<1>0. index \in 0..(Len(Tests) + 1) /\ {blocks, found, failed} \subseteq BOOLEAN /\ Len(Tests) = 9
  BY DEF GeneralInv, PartTypes, Tests
<1>1. ASSUME index' = index, found' = found
      PROVE  JudgedInv'
  BY <1>1, SameProgram DEF JudgedInv
<1>2. CASE Begin
  <2>1. index' = 1
    BY <1>2 DEF Begin, Starts
  <2> QED
    BY <2>1 DEF JudgedInv, Test, Tests
<1>3. CASE Finish
  <2>1. index' = index + 1 /\ found' = found /\ index \in 1..9 /\ Test = Tests[index] /\ Test # "6_0"
    <3>1. Running /\ Starts(Following(found)) /\ found' = found
      BY <1>3 DEF Finish
    <3>2. index \in 1..9 /\ Test = Tests[index] /\ Test # "6_0"
      BY <3>1 DEF Running, Threaded, Test, Tests
    <3> QED
      BY <3>1, <3>2 DEF Starts, Following
  <2>2. index' \in {6, 7} => index = 6
    <3>1. index # 5
      BY <2>1 DEF Tests
    <3> QED
      BY <2>1, <3>1
  <2>3. index = 6 => Test = "6_2"
    BY <2>1 DEF Tests
  <2>4. Test' \in {"6_2", "7_3"} => index' \in {6, 7}
    BY <1>0, <2>1 DEF Test, Tests
  <2> QED
    BY <2>1, <2>2, <2>3, <2>4 DEF JudgedInv
<1>4. CASE Probe
  <2>1. Test = "6_0" /\ index' = Following(found') /\ found' \in BOOLEAN
    BY <1>0, <1>4 DEF Probe, Starts
  <2>2. index = 5
    BY <1>0, <2>1 DEF Test, Tests
  <2>3. ~found' => index' = 8
    BY <2>1, <2>2 DEF Following
  <2>4. ~found' => Test' = "8_2"
    BY <2>3 DEF Test, Tests
  <2> QED
    BY <2>4 DEF JudgedInv
<1>5. CASE WakesUp
  BY <1>1, <1>5 DEF WakesUp, testVars
<1>6. ASSUME NEW t \in Threads, Step(t)
      PROVE  JudgedInv'
  BY <1>1, <1>6, StepContext
<1>7. CASE UNCHANGED vars
  BY <1>1, <1>7 DEF vars, testVars
<1> QED
  BY <1>2, <1>3, <1>4, <1>5, <1>6, <1>7 DEF Next

\* Where the threads of a test are in each other's turns.
TurnsInv == GeneralInv /\ HandedInv /\ LockInv /\ OrderInv /\ AssistInv /\ QuietInv /\ JudgedInv

LEMMA TurnsInit == Init => TurnsInv
<1> SUFFICES ASSUME Init
             PROVE  TurnsInv
  OBVIOUS
<1>1. GeneralInv
  BY InitGeneral
<1>2. index = 0 /\ count = [s \in Semaphores |-> 0]
  BY DEF Init
<1>3. ~Running /\ Test = "none"
  BY <1>2 DEF Running, Threaded, Test, Tests
<1> QED
  BY <1>1, <1>2, <1>3 DEF TurnsInv, HandedInv, LockInv, OrderInv, AssistInv, QuietInv, JudgedInv

LEMMA TurnsKeep == TurnsInv /\ [Next]_vars => TurnsInv'
  BY NextKeeps, HandedKeeps, LockKeeps, OrderKeeps, AssistKeeps, QuietKeeps, JudgedKeeps DEF TurnsInv

\* The threads of a test take turns as it means them to: from the place of one
\* and the objects of the test follows the place of the others.
THEOREM TurnsInvariance == Spec => []TurnsInv
  BY TurnsInit, TurnsKeep, PTL DEF Spec

-----------------------------------------------------------------------------
(* What follows of it *)

LEMMA OneAtMost ==
  ASSUME TurnsInv, NEW s \in Semaphores
  PROVE  count[s] \in 0..1
<1>0. PartTypes /\ Iterations \in Nat \ {0} /\ GeneralInv
  BY RealtimeAssumption DEF TurnsInv, GeneralInv
<1>1. CASE ~Running \/ failed \/ s \notin Posted("high") \cup Posted("low")
  <2>1. count[s] = 0
    BY <1>1 DEF TurnsInv, QuietInv
  <2> QED
    BY <2>1
<1>2. CASE Running /\ ~failed /\ s \in Posted("high") \cup Posted("low")
  <2>0. pc["high"] \in Nat
    BY <1>0, AssistNames DEF PartTypes
  <2>1. CASE Test = "4_2"
    <3>1. s = "sem" /\ Test \in Handing /\ Honest
      BY <1>2, <2>1, TestKinds DEF Posted, Handing, Honest
    <3>2. Object(0) \/ Object(1)
      BY <1>0, <1>2, <2>0, <3>1 DEF TurnsInv, HandedInv, HandedAt, HandedRow
    <3> QED
      BY <2>1, <3>1, <3>2 DEF Object
  <2>2. CASE Test = "8_2"
    <3>1. s \in {"to_locker", "to_unlocker"}
      BY <1>2, <2>2, TestKinds DEF Posted
    <3>2. LockAt(2 * Iterations + 1)
      BY <1>2, <2>2 DEF TurnsInv, LockInv
    <3>3. count["to_locker"] \in {0, 1} /\ count["to_unlocker"] \in {0, 1}
      BY <2>0, <3>2 DEF LockAt, Idle, Locked, Told, Asked, Freed, Owned, Released, Answered, Ending, LockerRow
    <3> QED
      BY <3>1, <3>3
  <2>3. CASE Test \in Readying
    <3>1. AssistAt
      BY <1>2, <2>3 DEF TurnsInv, AssistInv
    <3>2. CASE pc["high"] < 4
      BY <1>2, <2>3, <3>1, <3>2 DEF AssistAt, Posted, Readying, Object
    <3>3. CASE pc["high"] >= 4
      <4>1. PICK k \in 0..Iterations : Settled(k)
        BY <3>1, <3>3 DEF AssistAt, Settled
      <4>2. count["to_assist"] \in {0, 1} /\ count["to_highest"] \in {0, 1}
        BY <4>1 DEF Settled, Before, After, Begun, Calling, Heard, Helped, Resumed, Over, AssistRow
      <4>3. Test = "5_3" => count["test_object"] \in {0, 1}
        BY <4>1 DEF Settled, Serves, Served, Honest, Object
      <4> QED
        BY <1>2, <2>3, <4>2, <4>3 DEF Posted, Readying
    <3> QED
      BY <2>0, <3>2, <3>3
  <2>4. Test \in {"4_2", "8_2"} \/ Test \in Readying
    BY <1>2 DEF Posted, Readying
  <2> QED
    BY <2>1, <2>2, <2>3, <2>4
<1> QED
  BY <1>1, <1>2

LEMMA TurnsType == TurnsInv => TypeOK
<1> SUFFICES ASSUME TurnsInv
             PROVE  TypeOK
  OBVIOUS
<1>0. GeneralInv /\ PartTypes
  BY DEF TurnsInv, GeneralInv
<1>1. \A t \in Threads : Running /\ status[t] # "none" => pc[t] \in DOMAIN Program(t)
  <2> SUFFICES ASSUME NEW t \in Threads, Running
               PROVE  pc[t] \in DOMAIN Program(t)
    OBVIOUS
  <2>1. Program(t) \in Seq(Calls)
    BY Shapes
  <2>2. pc[t] \in 1..Len(Program(t))
    BY <1>0 DEF GeneralInv, ProgressInv, Size
  <2> QED
    BY <2>1, <2>2
<1>2. sleepers \in Seq(Threads) /\ Len(sleepers) <= 3
  <2>1. sleepers \in Seq(Threads) /\ Len(sleepers) \in Nat
    BY <1>0 DEF GeneralInv, SleepInv
  <2>2. ASSUME Len(sleepers) > 3
        PROVE  FALSE
    <3>1. /\ 1 \in 1..Len(sleepers) /\ 2 \in 1..Len(sleepers)
          /\ 3 \in 1..Len(sleepers) /\ 4 \in 1..Len(sleepers)
      BY <2>1, <2>2
    <3>2. /\ sleepers[1] \in Threads /\ sleepers[2] \in Threads
          /\ sleepers[3] \in Threads /\ sleepers[4] \in Threads
      BY <2>1, <3>1
    <3>3. /\ sleepers[1] # sleepers[2] /\ sleepers[1] # sleepers[3] /\ sleepers[1] # sleepers[4]
          /\ sleepers[2] # sleepers[3] /\ sleepers[2] # sleepers[4] /\ sleepers[3] # sleepers[4]
      BY <1>0, <3>1 DEF GeneralInv, SleepInv
    <3> QED
      BY <3>2, <3>3 DEF Threads
  <2> QED
    BY <2>1, <2>2
<1>3. count \in [Semaphores -> 0..1]
  BY <1>0, OneAtMost DEF PartTypes
<1> QED
  BY <1>0, <1>1, <1>2, <1>3 DEF TypeOK, PartTypes

\* The index, the program counters, the sleepers and the objects of the tests
\* of realtime_init keep their types: no call after a thread's return, no
\* semaphore above one, no more messages than the queue holds.
THEOREM TypeCorrectness == Spec => []TypeOK
  BY TurnsInvariance, TurnsType, PTL

LEMMA JudgedHonest ==
  ASSUME TurnsInv, ~Misjudged
  PROVE  Honest
  BY DEF TurnsInv, JudgedInv, Misjudged, Honest

\* A thread that sends finds room in the queue.
LEMMA RoomForMessage ==
  ASSUME TurnsInv, ~Misjudged, NEW t \in Threads, Sends(t)
  PROVE  messages < MaxMsg
<1>0. /\ GeneralInv /\ PartTypes /\ Running /\ Active(t) /\ (\A u \in Above(t) : ~Active(u)) /\ Honest
      /\ Now(t).does = "send" /\ Returns(t)
  BY JudgedHonest DEF TurnsInv, GeneralInv, Sends, At, Runs
<1>1. pc[t] \in 1..Size(t) /\ Fits(t, Now(t), pc[t], Size(t)) /\ t = Sender
  BY <1>0, NowFits DEF GeneralInv, ProgressInv, Fits, Belongs
<1> SUFFICES ASSUME ~(messages < MaxMsg)
             PROVE  FALSE
  OBVIOUS
<1>2. ~blocks /\ messages = 1
  BY <1>0 DEF Returns, PartTypes, MaxMsg
<1>3. Test \notin {"6_2", "7_3"}
  BY <1>0, <1>2 DEF Honest
<1>4. CASE Test = "6_4"
  <2>1. t = "low" /\ Test \in Handing
    BY <1>1, <1>4 DEF Sender, Handing
  <2>2. ~failed /\ ~Active("high")
    BY <1>0, <2>1, AssistNames DEF GeneralInv, FailedInv, Active, Above
  <2>3. pc["high"] \in Nat
    BY <1>0, AssistNames DEF PartTypes
  <2>4. ~HandedRow(1)
    BY <2>2 DEF HandedRow, Active
  <2>5. Object(0)
    BY <1>0, <2>1, <2>2, <2>3, <2>4, RealtimeAssumption DEF TurnsInv, HandedInv, HandedAt, HandedRow
  <2> QED
    BY <1>2, <1>4, <2>5 DEF Object
<1>5. CASE Test = "6_3"
  <2>1. t = "high" /\ Test \in Readying /\ Test # "9_3"
    BY <1>1, <1>5 DEF Sender, Readying
  <2>2. pc["high"] # Size("high") /\ pc["high"] \notin {1, 2, 3} /\ pc["high"] \in Nat
    BY <1>0, <1>1, <2>1 DEF Fits, PartTypes
  <2>3. ~failed
    BY <1>0, <2>1, <2>2 DEF GeneralInv, FailedInv, Active
  <2>4. PICK k \in 0..Iterations : Settled(k)
    <3>0. pc["high"] >= 1
      BY <1>1, <2>1
    <3>1. pc["high"] >= 4
      BY <2>2, <3>0
    <3>2. AssistAt
      BY <1>0, <2>1, <2>3, <3>1 DEF TurnsInv, AssistInv
    <3> QED
      BY <3>1, <3>2 DEF AssistAt, Settled
  <2>5. ~Object(0)
    BY <1>2, <1>5 DEF Object
  <2>6. status["middle"] = "woken"
    BY <1>0, <2>1, <2>4, <2>5 DEF Settled, Serves, Served
  <2>7. Before(k)
    BY <1>0, <2>4, <2>6 DEF Settled, After
  <2>8. First(k) \in Nat /\ Asks(k) = First(k)
    BY <2>1, TurnPlaces
  <2>9. CASE k < Iterations
    <3>1. pc["high"] \in {Asks(k), Asks(k) + 1}
      BY <2>7, <2>8, <2>9 DEF Before, Begun, Calling, Heard, AssistRow
    <3> QED
      BY <1>0, <2>1, <2>9, <3>1, AssistHighCalls DEF Is
  <2>10. CASE k = Iterations
    <3>1. pc["high"] \in {First(k), First(k) + 1, First(k) + 2}
      BY <2>7, <2>8, <2>10 DEF Before, Over, AssistRow
    <3> QED
      BY <1>0, <2>1, <2>10, <3>1, AssistHighCalls DEF Is
  <2> QED
    BY <2>9, <2>10, RealtimeAssumption
<1> QED
  BY <1>1, <1>3, <1>4, <1>5, TestKinds, AssistNames DEF Sender, Threads

\* No test of realtime_init loses a message to a full queue that does not
\* block, except where test6_0 has misjudged it.
THEOREM MessagesKept == Spec => NoMessageIsLost
<1>1. TurnsInv => (~Misjudged => \A t \in Threads : Sends(t) => messages < MaxMsg)
  BY RoomForMessage
<1>2. TurnsInv /\ [Next]_vars => [~Misjudged => \A t \in Threads : Sends(t) => messages < MaxMsg]_vars
  BY <1>1
<1> QED
  BY <1>2, TurnsInvariance, PTL DEF Spec, NoMessageIsLost

-----------------------------------------------------------------------------
(* What the timed calls measure *)

LEMMA StepsOf ==
  ASSUME GeneralInv, Next, NEW t \in Threads, Running, ~failed, pc'[t] # pc[t],
         status[t] \notin {"none", "ended"}, t # "middle"
  PROVE  Step(t)
<1>0. PartTypes
  BY DEF GeneralInv
<1>1. ~Begin
  BY DEF Begin, Running, Threaded, Tests
<1>2. ~Finish
  <2> SUFFICES ASSUME Finish
               PROVE  FALSE
    OBVIOUS
  <2>1. status["high"] = "ended"
    BY DEF Finish, GeneralInv, CreatedInv
  <2>2. pc["high"] = Size("high")
    BY <2>1, AssistNames DEF GeneralInv, ProgressInv
  <2>3. status["low"] = "ended"
    BY <2>2 DEF GeneralInv, JoinedInv
  <2> QED
    BY <2>1, <2>3 DEF Threads
<1>3. ~Probe
  BY DEF Probe, Running, Threaded, Test
<1>4. ~WakesUp
  BY DEF WakesUp
<1>5. PICK u \in Threads : Step(u)
  BY <1>1, <1>2, <1>3, <1>4 DEF Next
<1>6. CASE u # t /\ Now(u).does # "create"
  BY <1>5, <1>6, OthersStay
<1>7. CASE u # t /\ Now(u).does = "create"
  <2>1. Returns(u)
    BY <1>7 DEF Returns
  <2>2. Creates(u)
    BY <1>5, <1>7, <2>1, StepByCall
  <2> QED
    BY <1>0, <1>7, <2>2 DEF Creates, PartTypes
<1> QED
  BY <1>5, <1>6, <1>7

\* A thread returns from a timed call by its own step, in a test it could set up.
LEMMA TimedStep ==
  ASSUME GeneralInv, Next, NEW t \in Threads, Running, pc'[t] # pc[t], Now(t).timed # "no"
  PROVE  Step(t) /\ ~failed /\ t # "middle" /\ Now(t).timed \in TimedAs(t)
<1>1. Fits(t, Now(t), pc[t], Size(t))
  BY NowFits DEF GeneralInv, ProgressInv
<1>2. Now(t).timed \in TimedAs(t) /\ t # "middle"
  BY <1>1 DEF Fits, Belongs, TimedAs
<1>3. pc[t] # 1 /\ pc[t] # Size(t)
  BY <1>1 DEF Fits, Plain
<1>4. status[t] \notin {"none", "ended"}
  BY <1>3 DEF GeneralInv, ProgressInv
<1>5. ~failed
  BY <1>2, <1>3, <1>4 DEF GeneralInv, FailedInv, Threads
<1> QED
  BY <1>2, <1>4, <1>5, StepsOf

LEMMA HighSuspended ==
  ASSUME TurnsInv, Test \in Handing, Honest, ~failed, Step("high"), pc'["high"] # pc["high"],
         Now("high").timed # "no"
  PROVE  status["high"] = "woken"
<1>0. GeneralInv /\ PartTypes /\ Running /\ Iterations \in Nat \ {0}
  BY AssistNames, StepContext, RealtimeAssumption DEF TurnsInv, GeneralInv
<1> DEFINE Top == 2 * Iterations + 4
<1>1. Fits("high", Now("high"), pc["high"], Size("high")) /\ pc["high"] \in 1..Size("high") /\ Size("high") = Top + 2
  BY <1>0, AssistNames, NowFits, HandingSizes DEF GeneralInv, ProgressInv
<1>2. pc["high"] # Top + 2 /\ Now("high").does \in Plain
  BY <1>1 DEF Fits, Plain
<1>3. pc["high"] \notin {1, 2}
  BY <1>0, <1>2, HandingCalls DEF Plain
<1>4. pc["high"] # Top + 1
  <2>1. Top + 1 = 2 * Iterations + 5
    BY <1>0
  <2> QED
    BY <1>0, <2>1, HandingCalls
<1>5. Top \in Nat
  BY <1>0
<1> HIDE DEF Top
<1>6. pc["high"] \in 3..Top
  BY <1>1, <1>2, <1>3, <1>4, <1>5
<1>7. HandedRow(0) \/ HandedRow(1)
  BY <1>0, <1>6 DEF TurnsInv, HandedInv, HandedAt, Top
<1>8. ~HandedRow(0)
  <2> SUFFICES ASSUME HandedRow(0)
               PROVE  FALSE
    OBVIOUS
  <2>1. Object(0)
    BY DEF HandedRow
  <2>2. Suspend("high")
    BY <1>0, <1>6, <2>1, HighTakes DEF Top
  <2> QED
    BY <1>0, <2>2, AssistNames, SuspendFacts
<1> QED
  BY <1>7, <1>8 DEF HandedRow

LEMMA LowHands ==
  ASSUME TurnsInv, Test \in Handing, Honest, ~failed, Step("low"), pc'["low"] # pc["low"],
         Now("low").timed # "no"
  PROVE  status["high"] = "waiting" /\ status'["high"] = "woken"
<1>0. /\ GeneralInv /\ PartTypes /\ Running /\ Iterations \in Nat \ {0}
      /\ Active("low") /\ \A u \in Above("low") : ~Active(u)
  BY AssistNames, StepContext, RealtimeAssumption DEF TurnsInv, GeneralInv
<1> DEFINE Top == 2 * Iterations + 4
<1>1. /\ Fits("low", Now("low"), pc["low"], Size("low")) /\ pc["low"] \in 1..Size("low") /\ Size("low") = Top
      /\ pc["high"] \in 1..Size("high") /\ Size("high") = Top + 2
  BY <1>0, AssistNames, NowFits, HandingSizes DEF GeneralInv, ProgressInv
<1>2. pc["low"] # Top /\ Now("low").does \in Plain
  BY <1>1 DEF Fits, Plain
<1>3. pc["low"] # 1
  BY <1>0, <1>2, HandingCalls DEF Plain
<1>4. Top \in Nat /\ Top > 5 /\ 2..(Top - 1) = 2..(2 * Iterations + 3)
  BY <1>0
<1> HIDE DEF Top
<1>5. pc["low"] \in 2..(Top - 1)
  BY <1>1, <1>2, <1>3, <1>4
<1>6. pc["high"] >= 3
  <2>1. Test \in Suspending
    BY <1>0, TestKinds
  <2> QED
    BY <1>0, <1>1, <2>1 DEF GeneralInv, CreatedInv, Active
<1>7. HandedAt(Top)
  BY <1>0 DEF TurnsInv, HandedInv, Top
<1>8. status["high"] = "waiting" /\ HandedRow(0) /\ pc["high"] \in 3..Top
  <2>1. "high" \in Above("low") /\ ~Active("high")
    BY <1>0, AssistNames DEF Above
  <2>2. At2("low") # Top
    BY <1>4, <1>5 DEF At2
  <2> QED
    BY <1>1, <1>4, <1>6, <1>7, <2>1, <2>2 DEF Active, HandedRow, HandedAt
<1>9. Goes("low", Suspended(HighCall.does, HighCall.on))
  <2>1. Object(0)
    BY <1>8 DEF HandedRow
  <2> QED
    BY <1>0, <1>4, <1>5, <2>1, LowGives
<1>10. "high" \in Suspended(HighCall.does, HighCall.on)
  <2>1. Is(Now("high"), HighCall.does, HighCall.on)
    BY <1>0, <1>8, HandingCalls DEF Top
  <2> QED
    BY <1>8, <2>1, AssistNames DEF Suspended, Is
<1>11. status'["high"] = "woken"
  BY <1>0, <1>9, <1>10, AssistNames, GoesFacts, WokenWait
<1> QED
  BY <1>8, <1>11

LEMMA LockerSuspended ==
  ASSUME TurnsInv, Test = "8_2", ~failed, Step("high"), pc'["high"] # pc["high"],
         Now("high").timed # "no"
  PROVE  status["high"] = "woken"
<1>0. GeneralInv /\ PartTypes /\ Running /\ Iterations \in Nat \ {0} /\ pc["high"] \in Nat
  BY AssistNames, StepContext, RealtimeAssumption DEF TurnsInv, GeneralInv, PartTypes
<1> DEFINE last == 2 * Iterations + 1
<1>1. Fits("high", Now("high"), pc["high"], Size("high")) /\ pc["high"] \in 1..Size("high")
  BY <1>0, AssistNames, NowFits DEF GeneralInv, ProgressInv
<1>2. Now("high").does \in Plain
  BY <1>1 DEF Fits
<1>3. pc["high"] >= 3
  <2>1. pc["high"] \notin {1, 2}
    BY <1>1, <1>2 DEF Fits, Plain
  <2> QED
    BY <1>0, <1>1, <2>1
<1>4. LockAt(last)
  BY <1>0 DEF TurnsInv, LockInv
<1>5. last \in Nat /\ 0..(last - 1) = 0..(2 * Iterations) /\ last = 2 * Iterations + 1
  BY <1>0
<1> HIDE DEF last
<1>6. ASSUME NEW n \in 0..last
      PROVE  ~Idle(n) /\ ~Locked(n) /\ ~Told(n)
  <2>1. pc["high"] # 4 * n + 3
    BY <1>5, LockerHighCalls
  <2> QED
    BY <2>1 DEF Idle, Locked, Told, LockerRow
<1>7. ASSUME NEW n \in 0..last
      PROVE  ~Asked(n)
  <2> SUFFICES ASSUME Asked(n)
               PROVE  FALSE
    OBVIOUS
  <2>1. pc["high"] = 4 * n + 4 /\ holder = "low"
    BY DEF Asked, LockerRow
  <2>2. n # 2 * Iterations + 1
    BY <1>5, <2>1, LockerHighCalls
  <2>3. Is(Now("high"), "lock", "lock")
    BY <1>5, <2>1, <2>2, LockerHighCalls
  <2>4. Stays("high")
    BY <1>0, <2>1, <2>3, AssistNames, LockFacts
  <2> QED
    BY <2>4, AssistNames DEF Stays
<1>8. ASSUME NEW n \in 0..(last - 1)
      PROVE  ~Owned(n) /\ ~Released(n) /\ ~Answered(n)
  <2>1. n \in 0..(2 * Iterations + 1) /\ n # 2 * Iterations + 1 /\ n + 1 \in 0..(2 * Iterations + 1)
    BY <1>0, <1>5
  <2>2. pc["high"] # 4 * n + 5 /\ pc["high"] # 4 * n + 6
    BY <2>1, LockerHighCalls
  <2>3. pc["high"] # 4 * (n + 1) + 3
    BY <2>1, LockerHighCalls
  <2> QED
    BY <2>1, <2>2, <2>3 DEF Owned, Released, Answered, LockerRow
<1>9. ~Ending(last)
  <2>1. last \in 0..(2 * Iterations + 1)
    BY <1>0, <1>5
  <2>2. pc["high"] # 4 * last + 4
    BY <1>5, <2>1, LockerHighCalls
  <2>3. pc["high"] # 4 * last + 5
    BY <1>2, <1>5, <2>1, LockerHighCalls DEF Plain
  <2> QED
    BY <2>2, <2>3 DEF Ending
<1>10. PICK n \in 0..(last - 1) : Freed(n)
  BY <1>3, <1>4, <1>6, <1>7, <1>8, <1>9 DEF LockAt
<1> QED
  BY <1>10 DEF Freed, LockerRow

LEMMA LockerHands ==
  ASSUME TurnsInv, Test = "8_2", ~failed, Step("low"), Now("low").timed # "no"
  PROVE  status["high"] = "waiting" /\ status'["high"] = "woken"
<1>0. /\ GeneralInv /\ PartTypes /\ Running /\ Iterations \in Nat \ {0} /\ pc["low"] \in Nat
      /\ Active("low") /\ (\A u \in Above("low") : ~Active(u)) /\ pc["high"] \in Nat
  BY AssistNames, StepContext, RealtimeAssumption DEF TurnsInv, GeneralInv, PartTypes
<1> DEFINE last == 2 * Iterations + 1
<1>1. Fits("low", Now("low"), pc["low"], Size("low"))
  BY <1>0, AssistNames, NowFits DEF GeneralInv, ProgressInv
<1>2. Now("low").does \in Plain
  BY <1>1 DEF Fits
<1>3. pc["low"] # 1 /\ At2("low") = pc["low"]
  BY <1>1, <1>2 DEF Fits, Plain, At2
<1>4. pc["high"] >= 3
  <2>1. Test \in Suspending
    BY DEF Suspending
  <2> QED
    BY <1>0, <2>1 DEF GeneralInv, CreatedInv, Active
<1>5. LockAt(last)
  BY <1>0 DEF TurnsInv, LockInv
<1>6. last \in Nat /\ 0..(last - 1) = 0..(2 * Iterations) /\ last = 2 * Iterations + 1
  BY <1>0
<1> HIDE DEF last
<1>7. status["high"] \notin {"ready", "woken"}
  BY <1>0, AssistNames DEF Above, Active
<1>8. ASSUME NEW n \in 0..last
      PROVE  ~Idle(n) /\ ~Locked(n) /\ ~Told(n)
  <2>1. pc["low"] # 4 * n + 2 /\ pc["low"] # 4 * n + 3
    BY <1>6, LockerLowCalls
  <2> QED
    BY <1>3, <1>7, <2>1 DEF Idle, Locked, Told, LockerRow
<1>9. ASSUME NEW n \in 0..(last - 1)
      PROVE  ~Freed(n) /\ ~Owned(n) /\ ~Released(n) /\ ~Answered(n)
  <2>1. n \in 0..(2 * Iterations + 1) /\ n # 2 * Iterations + 1
    BY <1>0, <1>6
  <2>2. pc["low"] # 4 * n + 5
    BY <2>1, LockerLowCalls
  <2> QED
    BY <1>3, <1>7, <2>2 DEF Freed, Owned, Released, Answered, LockerRow
<1>10. ~Ending(last)
  <2>1. last \in 0..(2 * Iterations + 1)
    BY <1>0, <1>6
  <2>2. pc["low"] # 4 * last + 5
    BY <1>6, <2>1, LockerLowCalls
  <2> QED
    BY <2>2 DEF Ending
<1>11. PICK n \in 0..last : Asked(n)
  BY <1>4, <1>5, <1>8, <1>9, <1>10 DEF LockAt
<1>12. pc["low"] = 4 * n + 4 /\ pc["high"] = 4 * n + 4 /\ status["high"] = "waiting"
  BY <1>3, <1>7, <1>11 DEF Asked, LockerRow
<1>13. Is(Now("low"), "unlock", "lock") /\ n \in (Iterations + 1)..(2 * Iterations)
  BY <1>6, <1>12, LockerLowCalls
<1>14. n # 2 * Iterations + 1
  BY <1>0, <1>13
<1>15. Is(Now("high"), "lock", "lock")
  BY <1>6, <1>12, <1>14, LockerHighCalls
<1>16. Wakes("low", "lock", "lock")
  BY <1>0, <1>13, AssistNames, UnlockFacts
<1> QED
  BY <1>12, <1>15, <1>16, AssistNames DEF Wakes

LEMMA HighReadiesMiddle ==
  ASSUME TurnsInv, Test \in Readying, Honest, ~failed, Step("high"), Now("high").timed # "no"
  PROVE  status["middle"] = "waiting" /\ status'["middle"] = "woken"
<1>0. GeneralInv /\ PartTypes /\ Running /\ Iterations \in Nat \ {0} /\ pc["high"] \in Nat
  BY AssistNames, StepContext, RealtimeAssumption DEF TurnsInv, GeneralInv, PartTypes
<1>1. Fits("high", Now("high"), pc["high"], Size("high")) /\ pc["high"] \in 1..Size("high")
  BY <1>0, AssistNames, NowFits DEF GeneralInv, ProgressInv
<1>2. Now("high").does \in Plain
  BY <1>1 DEF Fits
<1>3. pc["high"] >= 4
  <2>1. pc["high"] \notin {1, 2, 3}
    BY <1>1, <1>2 DEF Fits, Plain
  <2> QED
    BY <1>0, <1>1, <2>1
<1>4. PICK k \in 0..Iterations : Settled(k)
  <2>1. AssistAt
    BY <1>0 DEF TurnsInv, AssistInv
  <2> QED
    BY <1>3, <2>1 DEF AssistAt, Settled
<1>5. First(k) \in Nat /\ Asks(k) \in {First(k), First(k) + 1} /\ (Test = "9_3" => Asks(k) = First(k) + 1)
      /\ (Test # "9_3" => Asks(k) = First(k))
  BY TurnPlaces
<1>6. k < Iterations => pc["high"] # Asks(k) /\ pc["high"] # Asks(k) + 1
  BY AssistHighCalls
<1>7. k < Iterations /\ Test = "9_3" => pc["high"] # First(k)
  BY AssistHighCalls
<1>8. k < Iterations => pc["high"] \notin First(k)..Asks(k)
  BY <1>0, <1>5, <1>6, <1>7
<1>9. k = Iterations => pc["high"] \notin {First(k), First(k) + 1, First(k) + 2}
  BY AssistHighCalls
<1>10. k = Iterations => pc["high"] \notin First(k)..(First(k) + 2)
  BY <1>0, <1>5, <1>9
<1>11. ~Before(k)
  BY <1>6, <1>8, <1>10 DEF Before, Begun, Calling, Heard, Over, AssistRow
<1>12. Serves(k) /\ k < Iterations /\ pc["high"] = Asks(k) + 2 /\ status["middle"] = "waiting"
  BY <1>4, <1>6, <1>11 DEF Settled, After, Helped, Resumed, AssistRow
<1>13. CASE Test # "9_3"
  <2>1. Served(k)
    BY <1>12, <1>13 DEF Serves
  <2> QED
    BY <1>0, <1>12, <1>13, <2>1, HighGives
<1>14. CASE Test = "9_3"
  <2>1. Excluded(k)
    BY <1>12, <1>14 DEF Serves
  <2>2. holder = "high"
    BY <1>0, <1>12, <1>14, <2>1, HighUnlocks
  <2>3. Is(Now("high"), "unlock", "lock")
    BY <1>12, <1>14, AssistHighCalls, CallsUnderTest DEF Is
  <2>4. Wakes("high", "lock", "lock")
    BY <1>0, <2>3, AssistNames, UnlockFacts
  <2>5. At2("middle") = pc["middle"]
    BY <1>0, <1>12, AssistNames, PastSleep DEF At2
  <2>6. PICK m \in 0..k : pc["middle"] = 2 * m + 2
    BY <2>1, <2>2, <2>5 DEF Excluded
  <2>7. m \in 0..Iterations /\ m < Iterations
    BY <1>0, <1>12
  <2>8. Is(Now("middle"), "lock", "lock")
    BY <1>14, <2>6, <2>7, ExcludedCalls
  <2> QED
    BY <1>12, <2>4, <2>8, AssistNames DEF Wakes
<1> QED
  BY <1>13, <1>14

\* A timed call is made where the document says what it measures.
LEMMA TimedAsDocumented ==
  ASSUME TurnsInv, Next, ~Misjudged, NEW t \in Threads, Running, pc'[t] # pc[t], Now(t).timed # "no"
  PROVE  LET resumed == {u \in Threads : status[u] = "waiting" /\ status'[u] = "woken"}
         IN /\ Now(t).timed = "suspends" => status[t] = "woken"
            /\ Now(t).timed = "resumes higher" => resumed \cap Above(t) # {}
            /\ Now(t).timed = "readies lower" => resumed # {} /\ \A u \in resumed : t \in Above(u)
<1>0. GeneralInv /\ Honest
  BY JudgedHonest DEF TurnsInv
<1>1. Step(t) /\ ~failed /\ t \in {"high", "low"} /\ Now(t).timed \in TimedAs(t)
  BY <1>0, TimedStep DEF Threads
<1>2. Test \in Handing \/ Test = "8_2" \/ Test \in Readying
  BY TestKinds DEF Suspending, Handing
<1>3. Test \in Readying => Test \notin Handing /\ Test # "8_2"
  BY DEF Readying, Handing
<1>4. CASE t = "high" /\ Test \in Readying
  <2>1. status["middle"] = "waiting" /\ status'["middle"] = "woken"
    BY <1>0, <1>1, <1>4, HighReadiesMiddle
  <2>2. Now(t).timed = "readies lower"
    BY <1>1, <1>4 DEF TimedAs
  <2>3. status["high"] # "waiting"
    BY <1>1, <1>4, StepContext DEF Active
  <2> QED
    BY <1>4, <2>1, <2>2, <2>3 DEF Above, Threads
<1>5. CASE t = "high" /\ Test \notin Readying
  <2>1. Now(t).timed = "suspends"
    BY <1>1, <1>5 DEF TimedAs
  <2>2. status["high"] = "woken"
    BY <1>0, <1>1, <1>2, <1>5, HighSuspended, LockerSuspended
  <2> QED
    BY <1>5, <2>1, <2>2
<1>6. CASE t = "low"
  <2>1. Now(t).timed = "resumes higher" /\ Test \notin Readying
    BY <1>1, <1>6 DEF TimedAs
  <2>2. status["high"] = "waiting" /\ status'["high"] = "woken"
    BY <1>0, <1>1, <1>2, <1>6, <2>1, LowHands, LockerHands
  <2> QED
    BY <1>6, <2>1, <2>2, AssistNames DEF Above
<1> QED
  BY <1>1, <1>4, <1>5, <1>6

\* Every call that the tests of realtime_init time costs what docs/REALTIME.md
\* says it measures, in every turn and for any number of turns.
THEOREM MeasuredAsTheyShould == Spec => MeasuredAsDocumented
<1> DEFINE Good ==
      ~Misjudged => \A t \in Threads :
        LET resumed == {u \in Threads : status[u] = "waiting" /\ status'[u] = "woken"}
        IN /\ Measures(t, "suspends") => status[t] = "woken"
           /\ Measures(t, "resumes higher") => resumed \cap Above(t) # {}
           /\ Measures(t, "readies lower") =>
                resumed # {} /\ \A u \in resumed : t \in Above(u)
<1>1. TurnsInv /\ Next => Good
  BY TimedAsDocumented DEF Measures
<1>2. TurnsInv /\ [Next]_vars => [Good]_vars
  BY <1>1
<1> QED
  BY <1>2, TurnsInvariance, PTL DEF Spec, MeasuredAsDocumented

-----------------------------------------------------------------------------
(* Nobody waits for ever.  What the runs check of the liveness of the tests  *)
(* includes that a thread which waits is woken; the provers reach this much: *)
(* no wakeup is lost, and somebody can run until a test is over.             *)

\* A thread that waits in a call would not return from it if it tried again.
WakeupInv == Running => \A t \in Threads : status[t] = "waiting" => ~Returns(t)

\* What keeps a waiting thread in its call.
KeepsWaiting(u) ==
  /\ Now(u).does = "wait" => (count[Now(u).on] = 0 => count'[Now(u).on] = 0)
  /\ Now(u).does = "lock" => (holder \notin {"free", u} => holder' \notin {"free", u})
  /\ Now(u).does = "receive" => (messages = 0 => messages' = 0)
  /\ Now(u).does = "send" => (messages = 1 => messages' = 1)
  /\ Now(u).does = "join" => (status'[Now(u).on] \in {"none", "ended"} => status[Now(u).on] \in {"none", "ended"})

LEMMA StillWaits ==
  ASSUME GeneralInv, GeneralInv', Running, NEW u \in Threads, ~Returns(u), KeepsWaiting(u),
         index' = index, pc'[u] = pc[u], blocks' = blocks
  PROVE  ~(Returns(u)')
<1>0. PartTypes /\ PartTypes' /\ Now(u)' = Now(u)
  BY SameCall DEF GeneralInv
<1>1. Now(u) \in Calls
  BY NowFits DEF GeneralInv, ProgressInv
<1>2. CASE Now(u).does = "wait" /\ ~(count[Now(u).on] > 0)
  <2>1. Now(u).on \in Semaphores
    BY <1>1, <1>2, CallObjects
  <2>2. count[Now(u).on] = 0
    BY <1>0, <1>2, <2>1 DEF PartTypes
  <2>3. ~(count'[Now(u).on] > 0)
    BY <1>2, <2>2 DEF KeepsWaiting
  <2> QED
    BY <1>0, <1>2, <2>3 DEF Returns
<1>3. CASE Now(u).does = "lock" /\ holder \notin {"free", u}
  BY <1>0, <1>3 DEF Returns, KeepsWaiting
<1>4. CASE Now(u).does = "receive" /\ ~(messages > 0)
  <2>1. messages = 0
    BY <1>0, <1>4 DEF PartTypes, MaxMsg
  <2>2. ~(messages' > 0)
    BY <1>4, <2>1 DEF KeepsWaiting
  <2> QED
    BY <1>0, <1>4, <2>2 DEF Returns
<1>5. CASE Now(u).does = "send" /\ ~(messages < MaxMsg \/ ~blocks)
  <2>1. messages = 1 /\ blocks'
    BY <1>0, <1>5 DEF PartTypes, MaxMsg
  <2>2. ~(messages' < MaxMsg)
    BY <1>5, <2>1 DEF KeepsWaiting, MaxMsg
  <2> QED
    BY <1>0, <1>5, <2>1, <2>2 DEF Returns, MaxMsg
<1>6. CASE Now(u).does = "join" /\ status[Now(u).on] \notin {"none", "ended"}
  BY <1>0, <1>6 DEF Returns, KeepsWaiting
<1> QED
  BY <1>2, <1>3, <1>4, <1>5, <1>6 DEF Returns

\* A step leaves a thread that waits where it is, unless it wakes it.
LEMMA OthersKeepWaiting ==
  ASSUME GeneralInv, NEW t \in Threads, Step(t), NEW u \in Threads, u # t, status'[u] = "waiting"
  PROVE  status[u] = "waiting" /\ pc'[u] = pc[u] /\ KeepsWaiting(u)
<1>0. PartTypes /\ Running /\ Active(t) /\ pc[t] \in 1..Size(t) /\ pc[u] \in 1..Size(u)
  BY StepContext DEF GeneralInv, ProgressInv
<1>1. Now(t) \in Calls /\ Now(u) \in Calls
  BY <1>0, NowFits
<1> DEFINE x == Now(u).on
<1>2. /\ Now(u).does = "wait" => x \in Semaphores
      /\ Now(u).does = "lock" => x = "lock"
      /\ Now(u).does \in {"send", "receive"} => x = "mq"
      /\ Now(u).does = "join" => x \in Threads
  BY <1>1, CallObjects
<1>3. CASE ~Returns(t)
  <2>1. Stays(t)
    BY <1>0, <1>3, HaltFacts
  <2> QED
    BY <1>2, <2>1 DEF Stays, KeepsWaiting
<1>4. CASE Returns(t) /\ Now(t).does = "post"
  <2> DEFINE s == Now(t).on
  <2>1. s \in Semaphores /\ Is(Now(t), "post", s)
    BY <1>1, <1>4, CallObjects DEF Is
  <2> HIDE DEF s
  <2>2. /\ Moves(t) /\ Wakes(t, "wait", s)
        /\ \A y \in Semaphores : y # s => count'[y] = count[y]
        /\ holder' = holder /\ messages' = messages
    BY <1>0, <2>1, PostFacts
  <2>3. status[u] = "waiting" /\ pc'[u] = pc[u] /\ ~Is(Now(u), "wait", s)
    BY <2>2 DEF Wakes, Moves
  <2>4. \A y \in Threads : status'[y] \in {"none", "ended"} => status[y] \in {"none", "ended"}
    BY <2>2 DEF Wakes, Moves
  <2> QED
    BY <1>2, <2>2, <2>3, <2>4 DEF KeepsWaiting, Is
<1>5. CASE Returns(t) /\ Now(t).does = "wait"
  <2> DEFINE s == Now(t).on
  <2>1. s \in Semaphores /\ Is(Now(t), "wait", s) /\ count[s] > 0
    BY <1>1, <1>5, CallObjects DEF Is, Returns
  <2> HIDE DEF s
  <2>2. /\ Moves(t) /\ WakesNone(t)
        /\ \A y \in Semaphores : y # s => count'[y] = count[y]
        /\ holder' = holder /\ messages' = messages
    BY <1>0, <2>1, WaitFacts
  <2>3. status[u] = "waiting" /\ pc'[u] = pc[u]
    BY <2>2 DEF WakesNone, Moves
  <2>4. \A y \in Threads : status'[y] \in {"none", "ended"} => status[y] \in {"none", "ended"}
    BY <2>2 DEF WakesNone, Moves
  <2>5. \A y \in Semaphores : count[y] = 0 => count'[y] = 0
    BY <2>1, <2>2
  <2> QED
    BY <1>2, <2>2, <2>3, <2>4, <2>5 DEF KeepsWaiting
<1>6. CASE Returns(t) /\ Now(t).does = "send"
  <2>1. Is(Now(t), "send", "mq")
    BY <1>1, <1>6, CallObjects DEF Is
  <2>0. messages < 1 \/ ~blocks
    BY <1>6 DEF Returns, MaxMsg
  <2>5. messages = 0 \/ (messages = 1 /\ ~blocks)
    BY <1>0, <2>0 DEF PartTypes, MaxMsg
  <2>2. /\ Moves(t) /\ Wakes(t, "receive", "mq")
        /\ messages' = 1 /\ count' = count /\ holder' = holder
    BY <1>0, <2>1, <2>5, SendFacts
  <2>3. status[u] = "waiting" /\ pc'[u] = pc[u] /\ ~Is(Now(u), "receive", "mq")
    BY <2>2 DEF Wakes, Moves
  <2>4. \A y \in Threads : status'[y] \in {"none", "ended"} => status[y] \in {"none", "ended"}
    BY <2>2 DEF Wakes, Moves
  <2> QED
    BY <1>2, <2>2, <2>3, <2>4 DEF KeepsWaiting, Is
<1>7. CASE Returns(t) /\ Now(t).does = "receive"
  <2>1. Is(Now(t), "receive", "mq") /\ messages = 1
    BY <1>0, <1>1, <1>7, CallObjects DEF Is, Returns, PartTypes, MaxMsg
  <2>2. /\ Moves(t) /\ Wakes(t, "send", "mq")
        /\ messages' = 0 /\ count' = count /\ holder' = holder
    BY <1>0, <2>1, ReceiveFacts
  <2>3. status[u] = "waiting" /\ pc'[u] = pc[u] /\ ~Is(Now(u), "send", "mq")
    BY <2>2 DEF Wakes, Moves
  <2>4. \A y \in Threads : status'[y] \in {"none", "ended"} => status[y] \in {"none", "ended"}
    BY <2>2 DEF Wakes, Moves
  <2> QED
    BY <1>2, <2>2, <2>3, <2>4 DEF KeepsWaiting, Is
<1>8. CASE Returns(t) /\ Now(t).does = "lock"
  <2>1. Is(Now(t), "lock", "lock") /\ holder \in {"free", t}
    BY <1>1, <1>8, CallObjects DEF Is, Returns
  <2>2. /\ Moves(t) /\ WakesNone(t)
        /\ holder' = t /\ count' = count /\ messages' = messages
    BY <1>0, <2>1, LockFacts
  <2>3. status[u] = "waiting" /\ pc'[u] = pc[u] /\ holder' \notin {"free", u}
    BY <2>2 DEF WakesNone, Moves, Threads
  <2>4. \A y \in Threads : status'[y] \in {"none", "ended"} => status[y] \in {"none", "ended"}
    BY <2>2 DEF WakesNone, Moves
  <2> QED
    BY <1>2, <2>2, <2>3, <2>4 DEF KeepsWaiting
<1>9. CASE Returns(t) /\ Now(t).does = "unlock"
  <2>1. Is(Now(t), "unlock", "lock")
    BY <1>1, <1>9, CallObjects DEF Is
  <2>2. Moves(t) /\ Wakes(t, "lock", "lock") /\ count' = count /\ messages' = messages
    BY <1>0, <2>1, UnlockFacts
  <2>3. status[u] = "waiting" /\ pc'[u] = pc[u] /\ ~Is(Now(u), "lock", "lock")
    BY <2>2 DEF Wakes, Moves
  <2>4. \A y \in Threads : status'[y] \in {"none", "ended"} => status[y] \in {"none", "ended"}
    BY <2>2 DEF Wakes, Moves
  <2> QED
    BY <1>2, <2>2, <2>3, <2>4 DEF KeepsWaiting, Is
<1>10. CASE Returns(t) /\ Now(t).does = "join"
  <2>1. Joins(t)
    BY <1>10, StepByCall
  <2>2. Moves(t) /\ WakesNone(t) /\ count' = count /\ holder' = holder /\ messages' = messages
    BY <1>0, <2>1, GoesAlone DEF Joins, objectVars
  <2>3. status[u] = "waiting" /\ pc'[u] = pc[u]
    BY <2>2 DEF WakesNone, Moves
  <2>4. \A y \in Threads : status'[y] \in {"none", "ended"} => status[y] \in {"none", "ended"}
    BY <2>2 DEF WakesNone, Moves
  <2> QED
    BY <1>2, <2>2, <2>3, <2>4 DEF KeepsWaiting
<1>11. CASE Returns(t) /\ Now(t).does = "sleep"
  <2>1. /\ status'[t] = "asleep" /\ \A y \in Threads : y # t => pc'[y] = pc[y] /\ status'[y] = status[y]
        /\ count' = count /\ holder' = holder /\ messages' = messages
    BY <1>0, <1>11, SleepFacts DEF WakesNone
  <2> QED
    BY <1>2, <2>1 DEF KeepsWaiting
<1>12. CASE Returns(t) /\ Now(t).does = "create"
  <2>1. Creates(t)
    BY <1>12, StepByCall
  <2>2. /\ \A y \in Threads : status'[y] = status[y] \/ status'[y] = "ready"
        /\ \A y \in Threads : y # t => pc'[y] = pc[y]
        /\ count' = count /\ holder' = holder /\ messages' = messages
    BY <1>0, <2>1 DEF Creates, PartTypes, objectVars
  <2> QED
    BY <1>2, <2>2 DEF KeepsWaiting
<1>13. CASE Returns(t) /\ Now(t).does = "return"
  <2>1. Ends(t)
    BY <1>13, StepByCall
  <2>2. /\ \A y \in Threads : status'[y] = IF y = t THEN "ended" ELSE IF y \in Suspended("join", t) THEN "woken" ELSE status[y]
        /\ pc' = pc /\ count' = count /\ holder' = holder /\ messages' = messages
    BY <2>1 DEF Ends, objectVars
  <2>3. status[u] = "waiting" /\ u \notin Suspended("join", t)
    BY <2>2
  <2>4. ~(Now(u).does = "join" /\ x = t)
    BY <2>3 DEF Suspended
  <2>5. \A y \in Threads : y # t /\ status'[y] \in {"none", "ended"} => status[y] \in {"none", "ended"}
    BY <2>2
  <2> QED
    BY <1>2, <2>2, <2>3, <2>4, <2>5 DEF KeepsWaiting
<1>14. Now(t).does \in {"post", "wait", "create", "join", "return", "send", "receive", "lock", "unlock", "sleep"}
  BY <1>1 DEF Calls, CallsOf
<1> QED
  BY <1>3, <1>4, <1>5, <1>6, <1>7, <1>8, <1>9, <1>10, <1>11, <1>12, <1>13, <1>14

LEMMA StepWakeup ==
  ASSUME GeneralInv, WakeupInv, NEW t \in Threads, Step(t)
  PROVE  WakeupInv'
<1>0. PartTypes /\ Running /\ Active(t) /\ index' = index /\ blocks' = blocks /\ GeneralInv'
  BY StepContext, StepKeeps DEF GeneralInv
<1> SUFFICES ASSUME NEW u \in Threads, status'[u] = "waiting"
             PROVE  ~(Returns(u)')
  BY DEF WakeupInv
<1>1. CASE u # t
  <2>1. status[u] = "waiting" /\ pc'[u] = pc[u] /\ KeepsWaiting(u)
    BY <1>1, OthersKeepWaiting
  <2>2. ~Returns(u)
    BY <1>0, <2>1 DEF WakeupInv
  <2> QED
    BY <1>0, <2>1, <2>2, StillWaits
<1>2. CASE u = t
  <2>1. ~Returns(t)
    <3> SUFFICES ASSUME Returns(t)
                 PROVE  FALSE
      OBVIOUS
    <3>1. /\ Posts(t) \/ Waits(t) \/ Sends(t) \/ Receives(t) \/ Locks(t) \/ Unlocks(t) \/ Joins(t)
             \/ FallsAsleep(t) \/ Creates(t) \/ Ends(t)
      BY StepByCall DEF Step
    <3>2. CASE FallsAsleep(t) \/ Creates(t) \/ Ends(t)
      BY <1>0, <1>2, <3>2 DEF FallsAsleep, Creates, Ends, PartTypes, Active
    <3>3. CASE Takes(t)
      <4>1. PICK S : Goes(t, S)
        BY <3>3, TakesGoes
      <4> QED
        BY <1>2, <4>1 DEF Goes
    <3> QED
      BY <3>1, <3>2, <3>3 DEF Takes
  <2>2. Stays(t)
    BY <1>0, <2>1, HaltFacts
  <2>3. Now(t).does = "join" => Now(t).on \in Threads
    BY <1>0, NowFits, CallObjects DEF GeneralInv, ProgressInv
  <2>4. KeepsWaiting(t) /\ pc'[t] = pc[t]
    BY <2>2, <2>3 DEF Stays, KeepsWaiting
  <2> QED
    BY <1>0, <1>2, <2>1, <2>4, StillWaits
<1> QED
  BY <1>1, <1>2

LEMMA WakeupKeeps ==
  ASSUME GeneralInv, WakeupInv, [Next]_vars
  PROVE  WakeupInv'
<1>0. GeneralInv' /\ PartTypes
  BY NextKeeps DEF GeneralInv
<1>1. CASE Begin \/ Finish \/ Probe
  <2>1. PICK i : Starts(i)
    BY <1>1 DEF Begin, Finish, Probe
  <2>2. \A t \in Threads : status'[t] # "waiting"
    BY <2>1 DEF Starts
  <2> QED
    BY <2>2 DEF WakeupInv
<1>2. CASE WakesUp
  <2>1. /\ index' = index /\ blocks' = blocks /\ pc' = pc /\ Running
        /\ count' = count /\ holder' = holder /\ messages' = messages
    BY <1>2 DEF WakesUp, testVars, objectVars
  <2>2. \A u \in Threads : status'[u] = status[u] \/ status'[u] = "ready"
    BY <1>2, WakesUpKeeps
  <2> SUFFICES ASSUME NEW u \in Threads, status'[u] = "waiting"
               PROVE  ~(Returns(u)')
    BY DEF WakeupInv
  <2>3. ~Returns(u)
    BY <2>1, <2>2 DEF WakeupInv
  <2>4. Now(u).does = "join" => Now(u).on \in Threads
    BY <2>1, NowFits, CallObjects DEF GeneralInv, ProgressInv
  <2>5. KeepsWaiting(u)
    BY <2>1, <2>2, <2>4 DEF KeepsWaiting
  <2> QED
    BY <1>0, <2>1, <2>3, <2>5, StillWaits
<1>3. ASSUME NEW t \in Threads, Step(t)
      PROVE  WakeupInv'
  BY <1>3, StepWakeup
<1>4. CASE UNCHANGED vars
  <2>1. UNCHANGED <<index, blocks, found, failed, status, pc, sleepers, count, holder, messages>>
    BY <1>4 DEF vars, testVars, objectVars
  <2>2. Running' = Running /\ \A u \in Threads : Now(u)' = Now(u)
    BY <2>1, SameProgram, SameCall
  <2> QED
    BY <2>1, <2>2 DEF WakeupInv, Returns
<1> QED
  BY <1>1, <1>2, <1>3, <1>4 DEF Next

\* No wakeup is lost: a thread of a test that waits in a call could not return
\* from it, whatever posts, messages and unlocks came in which order, and
\* whoever got the mutex; the waiting thread need not try again.
THEOREM NoWakeupIsLost == Spec => []WakeupInv
<1>1. Init => WakeupInv
  BY DEF Init, WakeupInv
<1>2. GeneralInv /\ WakeupInv /\ [Next]_vars => WakeupInv'
  BY WakeupKeeps
<1> QED
  BY <1>1, <1>2, GeneralInvariance, PTL DEF Spec

\* In 9_3 the high thread has given up the mutex before it joins the others.
HeldInv == Running /\ Test = "9_3" /\ ~failed /\ holder = "high" => pc["high"] <= 4 * Iterations + 3

\* What the high thread of 9_3 does at the end of its last turn, and after it.
LEMMA LastTurnCalls ==
  ASSUME GeneralInv, Running, Test = "9_3"
  PROVE  /\ pc["high"] = 4 * Iterations + 3 => Is(Now("high"), "unlock", "lock")
         /\ pc["high"] > 4 * Iterations + 3 => Now("high").does \in {"join", "return"}
<1>0. Iterations \in Nat \ {0} /\ pc["high"] \in 1..Size("high") /\ Test \in Readying
  BY RealtimeAssumption, AssistNames DEF GeneralInv, ProgressInv, Readying
<1>1. Size("high") = 4 * Iterations + 6
  BY ReadyingMutexHighKinds DEF Size
<1>2. CASE pc["high"] = 4 * Iterations + 3
  <2> DEFINE k == Iterations - 1
  <2>1. k \in 0..Iterations /\ k < Iterations /\ Asks(k) + 2 = 4 * Iterations + 3
    BY <1>0 DEF Asks
  <2> HIDE DEF k
  <2>2. Is(Now("high"), ReadyingCall.does, ReadyingCall.on)
    BY <1>0, <1>2, <2>1, AssistHighCalls
  <2>3. Is(ReadyingCall, "unlock", "lock")
    BY CallsUnderTest, Zenon
  <2>4. Is(Now("high"), "unlock", "lock")
    BY <2>2, <2>3 DEF Is
  <2> QED
    BY <1>0, <1>2, <2>4
<1>3. CASE pc["high"] > 4 * Iterations + 3
  <2>1. Iterations \in 0..Iterations /\ First(Iterations) = 4 * Iterations + 4
    BY <1>0 DEF First
  <2>2. pc["high"] \in {First(Iterations), First(Iterations) + 1} \/ pc["high"] = First(Iterations) + 2
    BY <1>0, <1>1, <1>3, <2>1
  <2>3. Now("high").does = "join" \/ Now("high").does = "return"
    BY <1>0, <2>1, <2>2, AssistHighCalls
  <2> QED
    BY <1>3, <2>3, <1>0
<1>4. pc["high"] \in Nat
  BY <1>0
<1> QED
  BY <1>0, <1>2, <1>3, <1>4

\* Who can change the holder of the mutex.
LEMMA HolderChanges ==
  ASSUME GeneralInv, NEW t \in Threads, Step(t), holder' # holder
  PROVE  \/ Is(Now(t), "lock", "lock") /\ holder' = t
         \/ /\ Is(Now(t), "unlock", "lock") /\ holder' # t
            /\ holder' = "free" \/ (holder' \in Threads /\ Is(Now(holder'), "lock", "lock"))
<1>0. PartTypes /\ Running /\ pc[t] \in 1..Size(t)
  BY StepContext DEF GeneralInv, ProgressInv
<1>1. Now(t) \in Calls
  BY <1>0, NowFits
<1>2. Locks(t) \/ Unlocks(t)
  BY DEF Step, Suspend, Posts, Waits, Sends, Receives, Joins, FallsAsleep, Creates, Ends, objectVars
<1>3. CASE Locks(t)
  BY <1>1, <1>3, CallObjects DEF Locks, At, Is
<1>4. CASE Unlocks(t)
  <2>1. Is(Now(t), "unlock", "lock")
    BY <1>1, <1>4, CallObjects DEF Unlocks, At, Is
  <2> QED
    BY <1>0, <2>1, UnlockFacts, AssistNames DEF Threads
<1> QED
  BY <1>2, <1>3, <1>4

\* A call other than pthread_create leaves its thread at it or after it.
LEMMA PlaceMoves ==
  ASSUME PartTypes, NEW t \in Threads, Step(t), Now(t).does # "create"
  PROVE  pc'[t] = pc[t] \/ pc'[t] = pc[t] + 1
<1>1. CASE Takes(t)
  <2>1. PICK S : Goes(t, S)
    BY <1>1 DEF Takes, Posts, Waits, Sends, Receives, Locks, Unlocks, Joins
  <2> QED
    BY <2>1 DEF Goes, PartTypes
<1>2. CASE Suspend(t) \/ FallsAsleep(t) \/ Ends(t)
  BY <1>2 DEF Suspend, FallsAsleep, Ends, PartTypes
<1>3. ~Creates(t)
  BY DEF Creates, At
<1> QED
  BY <1>1, <1>2, <1>3 DEF Step, Takes

LEMMA StepHeld ==
  ASSUME GeneralInv, HeldInv, NEW t \in Threads, Step(t)
  PROVE  HeldInv'
<1>0. PartTypes /\ Running /\ index' = index /\ Test' = Test /\ Running' = Running /\ Iterations \in Nat \ {0}
  BY StepContext, SameProgram, RealtimeAssumption DEF GeneralInv
<1> SUFFICES ASSUME Test = "9_3", ~failed', holder' = "high"
             PROVE  pc'["high"] <= 4 * Iterations + 3
  BY <1>0 DEF HeldInv
<1>1. ~failed /\ pc["high"] \in Nat /\ pc["high"] \in 1..Size("high")
  BY <1>0, StepContext, AssistNames DEF PartTypes, GeneralInv, ProgressInv
<1>2. /\ pc["high"] = 4 * Iterations + 3 => Is(Now("high"), "unlock", "lock")
      /\ pc["high"] > 4 * Iterations + 3 => Now("high").does \in {"join", "return"}
  BY <1>0, LastTurnCalls
<1>3. pc["high"] <= 4 * Iterations + 3
  <2>1. CASE holder = "high"
    BY <1>0, <1>1, <2>1 DEF HeldInv
  <2>2. CASE holder # "high"
    <3>1. Is(Now("high"), "lock", "lock")
      BY <2>2, HolderChanges, AssistNames DEF Is
    <3>2. ~(pc["high"] > 4 * Iterations + 3)
      BY <1>2, <3>1 DEF Is
    <3> QED
      BY <1>0, <1>1, <3>2
  <2> QED
    BY <2>1, <2>2
<1>4. CASE t = "high"
  <2>1. pc["high"] # 4 * Iterations + 3
    <3> SUFFICES ASSUME pc["high"] = 4 * Iterations + 3
                 PROVE  FALSE
      OBVIOUS
    <3>1. Is(Now("high"), "unlock", "lock")
      BY <1>2
    <3>2. holder' # "high"
      BY <1>0, <1>4, <3>1, AssistNames, UnlockFacts
    <3> QED
      BY <3>2
  <2>2. pc'["high"] = pc["high"] \/ pc'["high"] = pc["high"] + 1
    <3>1. CASE Now("high").does = "create"
      BY <1>4, <3>1, CreateFacts, AssistNames DEF Moves
    <3>2. CASE Now("high").does # "create"
      BY <1>0, <1>4, <3>2, PlaceMoves
    <3> QED
      BY <3>1, <3>2
  <2> QED
    BY <1>0, <1>1, <1>3, <2>1, <2>2
<1>5. CASE t # "high"
  <2>1. pc'["high"] = pc["high"]
    <3>1. Now(t).does # "create"
      BY <1>5, CreateFacts
    <3> QED
      BY <1>5, <3>1, OthersStay, AssistNames
  <2> QED
    BY <1>3, <2>1
<1> QED
  BY <1>4, <1>5

LEMMA HeldKeeps ==
  ASSUME GeneralInv, HeldInv, [Next]_vars
  PROVE  HeldInv'
<1>1. CASE Begin \/ Finish \/ Probe
  <2>1. PICK i : Starts(i)
    BY <1>1 DEF Begin, Finish, Probe
  <2>2. holder' # "high"
    BY <2>1 DEF Starts
  <2> QED
    BY <2>2 DEF HeldInv
<1>2. CASE WakesUp
  <2>1. UNCHANGED <<index, failed, pc, holder>>
    BY <1>2 DEF WakesUp, testVars, objectVars
  <2> QED
    BY <2>1, SameProgram DEF HeldInv
<1>3. ASSUME NEW t \in Threads, Step(t)
      PROVE  HeldInv'
  BY <1>3, StepHeld
<1>4. CASE UNCHANGED vars
  <2>1. UNCHANGED <<index, failed, pc, holder>>
    BY <1>4 DEF vars, testVars, objectVars
  <2> QED
    BY <2>1, SameProgram DEF HeldInv
<1> QED
  BY <1>1, <1>2, <1>3, <1>4 DEF Next

\* Everybody waits: the high thread of the running test is not over, and no
\* thread is asleep or can run.
Stuck ==
  /\ Running /\ status["high"] \notin {"none", "ended"} /\ sleepers = <<>>
  /\ \A t \in Threads : ~Active(t)

NeverStuck == ~Misjudged => ~Stuck

LEMMA StuckThreads ==
  ASSUME GeneralInv, WakeupInv, Stuck
  PROVE  /\ ~failed /\ status["high"] = "waiting" /\ Now("high").does \in Blocking /\ ~Returns("high")
         /\ \A t \in Threads :
              /\ pc[t] \in 1..Size(t) /\ Fits(t, Now(t), pc[t], Size(t))
              /\ \/ status[t] = "none" /\ pc[t] = 1
                 \/ status[t] = "ended" /\ pc[t] = Size(t)
                 \/ status[t] = "waiting" /\ Now(t).does \in Blocking /\ ~Returns(t)
<1>0. PartTypes /\ Running
  BY DEF GeneralInv, Stuck
<1>1. ASSUME NEW t \in Threads
      PROVE  /\ pc[t] \in 1..Size(t) /\ Fits(t, Now(t), pc[t], Size(t))
             /\ \/ status[t] = "none" /\ pc[t] = 1
                \/ status[t] = "ended" /\ pc[t] = Size(t)
                \/ status[t] = "waiting" /\ Now(t).does \in Blocking /\ ~Returns(t)
  <2>1. status[t] \in {"none", "waiting", "ended"}
    <3>1. status[t] # "asleep"
      BY DEF Stuck, GeneralInv, SleepInv
    <3>2. status[t] \notin {"ready", "woken"}
      BY DEF Stuck, Active
    <3> QED
      BY <1>0, <3>1, <3>2 DEF PartTypes
  <2>2. pc[t] \in 1..Size(t) /\ Fits(t, Now(t), pc[t], Size(t))
    BY <1>0, NowFits DEF GeneralInv, ProgressInv
  <2> QED
    BY <1>0, <2>1, <2>2 DEF GeneralInv, ProgressInv, WakeupInv
<1>2. status["high"] = "waiting" /\ Now("high").does \in Blocking /\ ~Returns("high")
  BY <1>1, AssistNames DEF Stuck
<1>3. ~failed
  <2>1. pc["high"] # Size("high")
    BY <1>1, <1>2, AssistNames DEF Fits, Blocking
  <2> QED
    BY <1>0, <1>2, <2>1 DEF GeneralInv, FailedInv
<1> QED
  BY <1>1, <1>2, <1>3

\* A helper that waits is at a call that can wait and does not return.
LEMMA HelperWaits ==
  ASSUME GeneralInv, WakeupInv, Stuck, NEW t \in Threads, t # "high",
         At2(t) # Size(t),
         t = "low" => ~(Test \in Suspending /\ pc["high"] <= 2) /\ ~(Test \in Readying /\ pc["high"] <= 3),
         t = "middle" => Test \in Readying /\ pc["high"] > 2, pc["high"] \in Nat
  PROVE  /\ status[t] = "waiting" /\ Now(t).does \in Blocking /\ ~Returns(t)
         /\ pc[t] \in 2..Size(t) /\ At2(t) = pc[t]
<1>1. /\ pc[t] \in 1..Size(t) /\ Fits(t, Now(t), pc[t], Size(t)) /\ ~failed /\ Running
      /\ \/ status[t] = "none" /\ pc[t] = 1
         \/ status[t] = "ended" /\ pc[t] = Size(t)
         \/ status[t] = "waiting" /\ Now(t).does \in Blocking /\ ~Returns(t)
  BY StuckThreads DEF Stuck
<1>2. status[t] # "none"
  BY <1>1, TestKinds DEF GeneralInv, CreatedInv, Threads
<1>3. Size(t) \in Nat /\ Size(t) > 2
  BY <1>1, NowFits
<1>4. status[t] # "ended"
  BY <1>1, <1>3 DEF At2
<1>5. pc[t] # 1
  BY <1>1, <1>2, <1>4 DEF Fits, Blocking
<1> QED
  BY <1>1, <1>2, <1>3, <1>4, <1>5 DEF At2

LEMMA HandingGoesOn ==
  ASSUME TurnsInv, WakeupInv, Honest, Stuck, Test \in Handing
  PROVE  FALSE
<1>0. /\ GeneralInv /\ Running /\ Iterations \in Nat \ {0} /\ "low" \in Threads /\ "high" \in Threads
      /\ Test \in Suspending /\ Test \notin Readying
  BY RealtimeAssumption, TestKinds, AssistNames DEF TurnsInv, Stuck
<1>1. /\ ~failed /\ status["high"] = "waiting" /\ Now("high").does \in Blocking /\ ~Returns("high")
      /\ pc["high"] \in 1..Size("high") /\ Fits("high", Now("high"), pc["high"], Size("high"))
  BY <1>0, StuckThreads
<1>2. Size("high") = 2 * Iterations + 6 /\ Size("low") = 2 * Iterations + 4
  BY HandingSizes
<1>3. pc["high"] \notin {1, 2, 2 * Iterations + 6} /\ pc["high"] \in Nat /\ pc["high"] > 2
  BY <1>0, <1>1, <1>2 DEF Fits, Blocking
<1>4. CASE pc["high"] \in 3..(2 * Iterations + 4)
  <2>1. HandedRow(0)
    BY <1>0, <1>1, <1>4 DEF TurnsInv, HandedInv, HandedAt, HandedRow
  <2>2. Object(0) /\ At2("low") + 1 = pc["high"] + 0
    BY <2>1 DEF HandedRow
  <2>3. At2("low") \in Nat
    BY <1>0, StuckThreads DEF At2
  <2>4. At2("low") # Size("low") /\ At2("low") \in 2..(2 * Iterations + 3)
    BY <1>0, <1>2, <1>4, <2>2, <2>3
  <2>5. Now("low").does \in Blocking /\ ~Returns("low") /\ At2("low") = pc["low"]
    BY <1>0, <1>3, <2>4, HelperWaits
  <2>6. Is(Now("low"), LowCall.does, LowCall.on)
    BY <1>0, <2>4, <2>5, HandingCalls
  <2>7. CASE Test = "4_2"
    BY <2>5, <2>6, <2>7, CallsUnderTest DEF Is, Blocking
  <2>8. CASE Test = "6_2"
    BY <2>2, <2>5, <2>6, <2>8, CallsUnderTest DEF Is, Object, Returns
  <2>9. CASE Test = "6_4"
    BY <2>2, <2>5, <2>6, <2>9, CallsUnderTest DEF Is, Object, Returns, MaxMsg
  <2> QED
    BY <2>7, <2>8, <2>9 DEF Handing
<1>5. CASE pc["high"] = 2 * Iterations + 5
  <2>1. At2("low") = 2 * Iterations + 4
    BY <1>0, <1>1, <1>5 DEF TurnsInv, HandedInv, HandedAt
  <2>2. pc["low"] = Size("low")
    BY <1>0, <1>2, <2>1 DEF At2
  <2>3. Is(Now("high"), "join", "low")
    BY <1>0, <1>5, HandingCalls
  <2>4. status["low"] \notin {"none", "ended"}
    BY <1>1, <2>3 DEF Returns, Is
  <2>5. Now("low").does \in Blocking /\ Fits("low", Now("low"), pc["low"], Size("low"))
    BY <1>0, <2>4, StuckThreads
  <2> QED
    BY <2>2, <2>5 DEF Fits, Blocking
<1> QED
  BY <1>0, <1>1, <1>2, <1>3, <1>4, <1>5

LEMMA LockerGoesOn ==
  ASSUME TurnsInv, WakeupInv, Stuck, Test = "8_2"
  PROVE  FALSE
<1> DEFINE L == 2 * Iterations + 1
<1>0. /\ GeneralInv /\ Running /\ Iterations \in Nat \ {0} /\ "low" \in Threads /\ "high" \in Threads
      /\ Test \in Suspending /\ Test \notin Readying /\ L \in Nat /\ L = 2 * Iterations + 1
  BY RealtimeAssumption, TestKinds, AssistNames DEF TurnsInv, Stuck, Readying
<1>1. /\ ~failed /\ status["high"] = "waiting" /\ Now("high").does \in Blocking /\ ~Returns("high")
      /\ pc["high"] \in 1..Size("high") /\ Fits("high", Now("high"), pc["high"], Size("high"))
  BY <1>0, StuckThreads
<1>2. Size("high") = 4 * L + 5 /\ Size("low") = 4 * L + 5
  <2>1. Size("high") = 8 * Iterations + 9 /\ Size("low") = 8 * Iterations + 9
    BY LockerHighKinds, LockerLowKinds DEF Size
  <2> QED
    BY <1>0, <2>1
<1> HIDE DEF L
<1>3. pc["high"] \in Nat /\ pc["high"] > 2
  BY <1>0, <1>1 DEF Fits, Blocking
<1>4. LockAt(L)
  BY <1>0, <1>1 DEF TurnsInv, LockInv
<1>5. ASSUME NEW n \in 0..L, Idle(n) \/ Locked(n) \/ Told(n) \/ Asked(n)
      PROVE  FALSE
  <2>1. At2("low") \in {4 * n + 2, 4 * n + 3, 4 * n + 4} /\ ~Told(n)
    BY <1>1, <1>5 DEF Idle, Locked, Told, Asked, LockerRow
  <2>2. At2("low") # Size("low")
    BY <1>0, <1>2, <2>1
  <2>3. Now("low").does \in Blocking /\ ~Returns("low") /\ At2("low") = pc["low"]
    BY <1>0, <1>3, <2>2, HelperWaits
  <2>4. n \in 0..(2 * Iterations + 1)
    BY <1>0
  <2>5. CASE Idle(n)
    <3>1. pc["low"] = 4 * n + 2 /\ holder = "free"
      BY <2>3, <2>5 DEF Idle, LockerRow
    <3>2. Is(Now("low"), "lock", "lock")
      BY <2>4, <3>1, LockerLowCalls
    <3> QED
      BY <2>3, <3>1, <3>2 DEF Is, Returns
  <2>6. CASE Locked(n)
    <3>1. pc["low"] = 4 * n + 3
      BY <2>3, <2>6 DEF Locked, LockerRow
    <3>2. Is(Now("low"), "post", "to_locker")
      BY <2>4, <3>1, LockerLowCalls
    <3> QED
      BY <2>3, <3>2 DEF Is, Blocking
  <2>7. CASE Asked(n)
    <3>1. pc["low"] = 4 * n + 4
      BY <2>3, <2>7 DEF Asked, LockerRow
    <3>2. Is(Now("low"), "unlock", "lock")
      BY <2>4, <3>1, LockerLowCalls
    <3> QED
      BY <2>3, <3>2 DEF Is, Blocking
  <2> QED
    BY <1>5, <2>1, <2>5, <2>6, <2>7
<1>6. ASSUME NEW n \in 0..(L - 1), Freed(n) \/ Owned(n) \/ Released(n) \/ Answered(n)
      PROVE  FALSE
  <2>1. Answered(n)
    BY <1>1, <1>6 DEF Freed, Owned, Released, LockerRow
  <2>2. At2("low") = 4 * n + 5 /\ count["to_unlocker"] = 1
    BY <2>1 DEF Answered, LockerRow
  <2>3. At2("low") # Size("low")
    BY <1>0, <1>2, <2>2
  <2>4. Now("low").does \in Blocking /\ ~Returns("low") /\ pc["low"] = 4 * n + 5
    BY <1>0, <1>3, <2>2, <2>3, HelperWaits
  <2>5. n \in 0..(2 * Iterations + 1) /\ n # 2 * Iterations + 1
    BY <1>0
  <2>6. Is(Now("low"), "wait", "to_unlocker")
    BY <2>4, <2>5, LockerLowCalls
  <2> QED
    BY <2>2, <2>4, <2>6 DEF Is, Returns
<1>7. CASE Ending(L)
  <2>1. pc["high"] = 4 * L + 4 /\ pc["low"] = Size("low")
    BY <1>0, <1>1, <1>2, <1>7 DEF Ending, Fits, Blocking
  <2>2. L \in 0..(2 * Iterations + 1)
    BY <1>0
  <2>3. Is(Now("high"), "join", "low")
    BY <1>0, <2>1, <2>2, LockerHighCalls
  <2>4. status["low"] \notin {"none", "ended"}
    BY <1>1, <2>3 DEF Returns, Is
  <2>5. Now("low").does \in Blocking /\ Fits("low", Now("low"), pc["low"], Size("low"))
    BY <1>0, <2>4, StuckThreads
  <2> QED
    BY <2>1, <2>5 DEF Fits, Blocking
<1> QED
  BY <1>3, <1>4, <1>5, <1>6, <1>7 DEF LockAt

\* The middle thread of 9_3 waits only where the high one has the mutex.
LEMMA MiddleGoesOn ==
  ASSUME GeneralInv, WakeupInv, Stuck, Test = "9_3", pc["high"] \in Nat, pc["high"] >= 4,
         NEW k \in 0..Iterations, Excluded(k), holder # "high",
         holder = "middle" \/ At2("middle") # Size("middle")
  PROVE  FALSE
<1>0. Running /\ Iterations \in Nat \ {0} /\ Test \in Readying /\ Test \notin Suspending
  BY RealtimeAssumption, TestKinds DEF Stuck
<1>1. Size("middle") = 2 * Iterations + 2
  BY <1>0, AssistSizes
<1>2. PICK m \in 0..k :
        \/ At2("middle") = 2 * m + 2 /\ (holder = "middle" => m < k)
        \/ At2("middle") = 2 * m + 3 /\ m < k /\ holder = "middle"
  BY DEF Excluded
<1>3. At2("middle") # Size("middle")
  <2>1. CASE holder = "middle"
    BY <1>0, <1>1, <1>2, <2>1
  <2> QED
    BY <2>1
<1>4. Now("middle").does \in Blocking /\ ~Returns("middle") /\ At2("middle") = pc["middle"]
  BY <1>0, <1>3, AssistNames, HelperWaits
<1>5. m \in 0..Iterations /\ m < Iterations
  BY <1>0, <1>1, <1>2, <1>3
<1>6. holder \in {"free", "middle"}
  BY DEF GeneralInv, PartTypes, Threads, Excluded
<1>7. CASE At2("middle") = 2 * m + 2
  <2>1. Is(Now("middle"), "lock", "lock")
    BY <1>4, <1>5, <1>7, ExcludedCalls
  <2> QED
    BY <1>4, <1>6, <2>1 DEF Is, Returns
<1>8. CASE At2("middle") = 2 * m + 3
  <2>1. Is(Now("middle"), "unlock", "lock")
    BY <1>4, <1>5, <1>8, ExcludedCalls
  <2> QED
    BY <1>4, <2>1 DEF Is, Blocking
<1> QED
  BY <1>2, <1>7, <1>8

LEMMA AssistGoesOn ==
  ASSUME TurnsInv, WakeupInv, HeldInv, Honest, Stuck, Test \in Readying
  PROVE  FALSE
<1>0. /\ GeneralInv /\ Running /\ Iterations \in Nat \ {0} /\ Iterations \in 0..Iterations
      /\ Test \notin Suspending
  BY RealtimeAssumption, TestKinds DEF TurnsInv, Stuck
<1>1. /\ ~failed /\ status["high"] = "waiting" /\ Now("high").does \in Blocking /\ ~Returns("high")
      /\ pc["high"] \in 1..Size("high") /\ Fits("high", Now("high"), pc["high"], Size("high"))
  BY <1>0, AssistNames, StuckThreads
<1>2. /\ Size("low") = 2 * Iterations + 2
      /\ Size("middle") = IF Test = "9_3" THEN 2 * Iterations + 2 ELSE Iterations + 2
  BY AssistSizes
<1>3. pc["high"] \in Nat /\ pc["high"] >= 4
  BY <1>0, <1>1 DEF Fits, Blocking
<1>4. PICK k \in 0..Iterations : Settled(k)
  BY <1>0, <1>1, <1>3 DEF TurnsInv, AssistInv, AssistAt, Settled
<1>5. First(k) \in Nat /\ Asks(k) \in Nat /\ (Test = "9_3" => Asks(k) = First(k) + 1) /\ (Test # "9_3" => Asks(k) = First(k))
  BY TurnPlaces
<1>6. Serves(k)
  BY <1>4 DEF Settled
\* The low thread would go on where it has been asked for help.
<1>7. ASSUME k < Iterations, At2("low") \in {2 * k + 2, 2 * k + 3}
      PROVE  /\ At2("low") = 2 * k + 2 => count["to_assist"] = 0
             /\ At2("low") # 2 * k + 3
  <2>1. At2("low") # Size("low")
    BY <1>0, <1>2, <1>7
  <2>2. Now("low").does \in Blocking /\ ~Returns("low") /\ At2("low") = pc["low"]
    BY <1>0, <1>3, <2>1, AssistNames, HelperWaits
  <2>3. CASE At2("low") = 2 * k + 2
    <3>1. Is(Now("low"), "wait", "to_assist")
      BY <1>0, <1>7, <2>2, <2>3, AssistLowCalls
    <3>2. ~(count["to_assist"] > 0) /\ count["to_assist"] \in Nat
      BY <1>0, <2>2, <3>1, AssistNames DEF Is, Returns, GeneralInv, PartTypes
    <3> QED
      BY <1>7, <2>3, <3>2
  <2>4. CASE At2("low") = 2 * k + 3
    <3>1. Is(Now("low"), "post", "to_highest")
      BY <1>0, <1>7, <2>2, <2>4, AssistLowCalls
    <3> QED
      BY <2>2, <3>1 DEF Is, Blocking
  <2> QED
    BY <1>7, <2>3, <2>4
<1>8. CASE After(k)
  <2>1. k < Iterations /\ status["middle"] = "waiting"
    BY <1>8 DEF After
  <2>2. CASE Helped(k)
    <3>1. pc["high"] = Asks(k) + 1 /\ count["to_highest"] = 1
      BY <2>2 DEF Helped, AssistRow
    <3>2. Is(Now("high"), "wait", "to_highest")
      BY <2>1, <3>1, AssistHighCalls
    <3> QED
      BY <1>1, <3>1, <3>2 DEF Is, Returns
  <2>3. CASE Resumed(k)
    <3>1. pc["high"] = Asks(k) + 2
      BY <2>3 DEF Resumed, AssistRow
    <3>2. Is(Now("high"), ReadyingCall.does, ReadyingCall.on)
      BY <2>1, <3>1, AssistHighCalls
    <3>3. CASE Test \in {"5_3", "9_3"}
      BY <1>1, <3>2, <3>3, CallsUnderTest DEF Is, Blocking
    <3>4. CASE Test \in {"6_3", "7_3"}
      <4>1. Object(0)
        BY <1>6, <2>1, <3>4 DEF Serves, Served
      <4>2. CASE Test = "6_3"
        BY <1>1, <3>2, <4>1, <4>2, CallsUnderTest DEF Is, Object, Returns, MaxMsg
      <4>3. CASE Test = "7_3"
        BY <1>1, <3>2, <4>1, <4>3, CallsUnderTest DEF Is, Object, Returns
      <4> QED
        BY <3>4, <4>2, <4>3
    <3> QED
      BY <3>3, <3>4 DEF Readying
  <2> QED
    BY <1>8, <2>2, <2>3 DEF After
<1>9. CASE k < Iterations /\ (Calling(k) \/ Heard(k))
  BY <1>7, <1>9 DEF Calling, Heard, AssistRow
<1>10. CASE k < Iterations /\ Begun(k)
  <2>1. pc["high"] = Asks(k) \/ (Test = "9_3" /\ pc["high"] = First(k))
    BY <1>5, <1>10 DEF Begun, AssistRow
  <2>2. CASE pc["high"] = Asks(k)
    <3>1. Is(Now("high"), "post", "to_assist")
      BY <1>10, <2>2, AssistHighCalls
    <3> QED
      BY <1>1, <3>1 DEF Is, Blocking
  <2>3. CASE Test = "9_3" /\ pc["high"] = First(k)
    <3>1. Excluded(k) /\ holder = "middle"
      BY <1>1, <1>6, <1>10, <2>3 DEF Serves, Excluded
    <3> QED
      BY <1>0, <1>3, <2>3, <3>1, MiddleGoesOn
  <2> QED
    BY <2>1, <2>2, <2>3
<1>11. CASE k = Iterations /\ Over(k)
  <2>1. pc["high"] \in {First(k), First(k) + 1, First(k) + 2} /\ At2("low") = 2 * Iterations + 2
    BY <1>5, <1>11 DEF Over, AssistRow
  <2>2. Now("high").does = "join"
    BY <1>1, <1>11, <2>1, AssistHighCalls DEF Blocking
  <2>3. PICK x \in {"middle", "low"} : Now("high").on = x
    BY <1>1, <2>2 DEF Fits
  <2>4. status[x] \notin {"none", "ended"}
    BY <1>1, <2>2, <2>3 DEF Returns
  <2>5. status[x] = "waiting" /\ Now(x).does \in Blocking /\ ~Returns(x) /\ Fits(x, Now(x), pc[x], Size(x))
    BY <1>0, <2>4, AssistNames, StuckThreads
  <2>6. pc[x] # Size(x)
    BY <2>5 DEF Fits, Blocking
  <2>7. At2(x) # Size(x)
    <3>1. pc[x] # 1
      BY <2>5 DEF Fits, Blocking
    <3> QED
      BY <2>6, <3>1 DEF At2
  <2>8. x = "middle"
    BY <1>2, <2>1, <2>7
  <2>9. CASE Test # "9_3"
    BY <1>2, <1>6, <1>11, <2>5, <2>7, <2>8, <2>9 DEF Serves, Served
  <2>10. CASE Test = "9_3"
    <3>1. Excluded(k) /\ holder # "high"
      <4>1. First(k) = 4 * Iterations + 4
        BY <1>11, <2>10 DEF First
      <4>2. pc["high"] > 4 * Iterations + 3
        BY <1>0, <2>1, <4>1
      <4> QED
        BY <1>0, <1>1, <1>6, <2>10, <4>2 DEF Serves, HeldInv
    <3> QED
      BY <1>0, <1>3, <2>5, <2>7, <2>8, <2>10, <3>1, MiddleGoesOn
  <2> QED
    BY <2>9, <2>10
<1> QED
  BY <1>4, <1>8, <1>9, <1>10, <1>11 DEF Settled, Before

\* What keeps the threads of a test from waiting for each other for ever, in
\* every turn: whoever has been given what it waits for is woken, and the one
\* that is to give it is not among those that wait.  (Not on a queue that test6_0 has
\* misjudged, where 6_2 and 7_3 do wait for ever.)
THEOREM NobodyWaitsForEver == Spec => []NeverStuck
<1> DEFINE GoesOnInv == TurnsInv /\ WakeupInv /\ HeldInv
<1>1. Init => GoesOnInv
  <2>1. Init => WakeupInv /\ HeldInv
    BY DEF Init, WakeupInv, HeldInv
  <2> QED
    BY <2>1, TurnsInit
<1>2. GoesOnInv /\ [Next]_vars => GoesOnInv'
  BY TurnsKeep, WakeupKeeps, HeldKeeps DEF TurnsInv
<1>3. GoesOnInv => NeverStuck
  <2> SUFFICES ASSUME GoesOnInv, ~Misjudged, Stuck
               PROVE  FALSE
    BY DEF NeverStuck
  <2>1. Honest
    BY JudgedHonest
  <2>2. Test \in Handing \/ Test = "8_2" \/ Test \in Readying
    BY TestKinds DEF Stuck
  <2> QED
    BY <2>1, <2>2, HandingGoesOn, LockerGoesOn, AssistGoesOn
<1> QED
  BY <1>1, <1>2, <1>3, PTL DEF Spec

================================================================================
