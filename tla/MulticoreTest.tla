---------------------------- MODULE MulticoreTest ----------------------------
(* What the tests of generator/realtime_orig/multicore/ share: the number   *)
(* of their threads, numbered from 1 here, and what the system may refuse.  *)
EXTENDS Integers

CONSTANTS
  Concurrency,  \* the argument of test_ipc_bw, test_mem_bw and test_task_lat
  MayFail       \* creating a father, a son, a tmp thread or a worker; a buffer, a queue

ASSUME MulticoreAssumption ==
  /\ Concurrency \in Nat \ {0}
  /\ MayFail \subseteq {"father", "son", "tmp", "worker", "buffer", "queue"}

Number == 1..Concurrency
=============================================================================
