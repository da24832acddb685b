---------------------------- MODULE MemBandwidth ----------------------------
(***************************************************************************)
(* The memory bandwidth test                                               *)
(* (generator/realtime_orig/multicore/mem_bw.c): multicore_mem_bw starts   *)
(* workers, waits until each is ready, starts the clock and gives the      *)
(* order to each, stops the clock when each has answered, then joins them  *)
(* one by one, with its semaphores destroyed and its buffer freed at once. *)
(* Each worker has two semaphores of its own: sem_order and sem_response.  *)
(***************************************************************************)
EXTENDS MulticoreTest

VARIABLES
  mem_pc,           \* where the caller is: create, ready, order, done, clean, returned
  mem_i,            \* the worker its loop is at
  mem_clock,        \* before, running or stopped
  sem_order, sem_response,      \* their counts, or -1 when not initialised
  mem_worker,       \* of each worker: none, start, ready, work, ended
  buffer            \* test_buf_dst of each: none, live or freed

memVars == <<mem_pc, mem_i, mem_worker, sem_order, sem_response, buffer, mem_clock>>

MemInit ==
  /\ mem_pc = "create" /\ mem_i = 1 /\ mem_clock = "before"
  /\ mem_worker = [w \in Number |-> "none"] /\ buffer = [w \in Number |-> "none"]
  /\ sem_order = [w \in Number |-> -1] /\ sem_response = [w \in Number |-> -1]

-----------------------------------------------------------------------------
(* multicore_mem_bw *)

\* The loop over the workers goes on, or the caller goes on to step s.
MemLoop(s) ==
  IF mem_i < Concurrency
  THEN mem_i' = mem_i + 1 /\ UNCHANGED mem_pc
  ELSE mem_i' = 1 /\ mem_pc' = s

\* What pthread_create returns is not looked at.
MemCreate ==
  /\ mem_pc = "create"
  /\ sem_order' = [sem_order EXCEPT ![mem_i] = 0]
  /\ sem_response' = [sem_response EXCEPT ![mem_i] = 0]
  /\ \/ mem_worker' = [mem_worker EXCEPT ![mem_i] = "start"]
     \/ "worker" \in MayFail /\ UNCHANGED mem_worker
  /\ MemLoop("ready")
  /\ UNCHANGED <<buffer, mem_clock>>

\* Mutant: each worker is given the order as soon as it is ready.
BugMemAwaitReady ==
  /\ mem_pc = "ready" /\ sem_response[mem_i] > 0
  /\ sem_response' = [sem_response EXCEPT ![mem_i] = @ - 1]
  /\ sem_order' = [sem_order EXCEPT ![mem_i] = @ + 1]
  /\ MemLoop("order")
  /\ mem_clock' = IF mem_i = Concurrency THEN "running" ELSE mem_clock
  /\ UNCHANGED <<mem_worker, buffer>>

MemAwaitReady ==
  /\ mem_pc = "ready" /\ sem_response[mem_i] > 0
  /\ sem_response' = [sem_response EXCEPT ![mem_i] = @ - 1]
  /\ MemLoop("order")
  /\ mem_clock' = IF mem_i = Concurrency THEN "running" ELSE mem_clock
  /\ UNCHANGED <<mem_worker, sem_order, buffer>>

MemOrder ==
  /\ mem_pc = "order"
  /\ sem_order' = [sem_order EXCEPT ![mem_i] = @ + 1]
  /\ MemLoop("done")
  /\ UNCHANGED <<mem_worker, sem_response, buffer, mem_clock>>

MemAwaitDone ==
  /\ mem_pc = "done" /\ sem_response[mem_i] > 0
  /\ sem_response' = [sem_response EXCEPT ![mem_i] = @ - 1]
  /\ MemLoop("clean")
  /\ mem_clock' = IF mem_i = Concurrency THEN "stopped" ELSE mem_clock
  /\ UNCHANGED <<mem_worker, sem_order, buffer>>

\* Joining a worker that was never created does not return.
MemClean ==
  /\ mem_pc = "clean" /\ mem_worker[mem_i] = "ended"
  /\ sem_order' = [sem_order EXCEPT ![mem_i] = -1]
  /\ sem_response' = [sem_response EXCEPT ![mem_i] = -1]
  /\ buffer' = IF buffer[mem_i] = "none" THEN buffer ELSE [buffer EXCEPT ![mem_i] = "freed"]
  /\ MemLoop("returned")
  /\ UNCHANGED <<mem_worker, mem_clock>>

MemCaller == MemCreate \/ MemAwaitReady \/ MemOrder \/ MemAwaitDone \/ MemClean

-----------------------------------------------------------------------------
(* mem_worker_entry *)

\* A worker without a buffer answers like one that is ready.
MemPrepare(w) ==
  /\ mem_worker[w] = "start"
  /\ sem_response' = [sem_response EXCEPT ![w] = @ + 1]
  /\ \/ mem_worker' = [mem_worker EXCEPT ![w] = "ready"] /\ buffer' = [buffer EXCEPT ![w] = "live"]
     \/ "buffer" \in MayFail /\ mem_worker' = [mem_worker EXCEPT ![w] = "ended"] /\ UNCHANGED buffer
  /\ UNCHANGED <<mem_pc, mem_i, sem_order, mem_clock>>

MemStarted(w) ==
  /\ mem_worker[w] = "ready" /\ sem_order[w] > 0
  /\ sem_order' = [sem_order EXCEPT ![w] = @ - 1]
  /\ mem_worker' = [mem_worker EXCEPT ![w] = "work"]
  /\ UNCHANGED <<mem_pc, mem_i, sem_response, buffer, mem_clock>>

\* The kernel of the mode, then the answer.
MemWork(w) ==
  /\ mem_worker[w] = "work"
  /\ sem_response' = [sem_response EXCEPT ![w] = @ + 1]
  /\ mem_worker' = [mem_worker EXCEPT ![w] = "ended"]
  /\ UNCHANGED <<mem_pc, mem_i, sem_order, buffer, mem_clock>>

MemWorkerStep(w) == MemPrepare(w) \/ MemStarted(w) \/ MemWork(w)

MemNext == MemCaller \/ \E w \in Number : MemWorkerStep(w)

\* Every thread runs when it can; the kernels are finite loops.
MemFairness == WF_memVars(MemCaller) /\ \A w \in Number : WF_memVars(MemWorkerStep(w))

MemSpec == MemInit /\ [][MemNext]_memVars /\ MemFairness

-----------------------------------------------------------------------------
MemTypeOK ==
  /\ mem_pc \in {"create", "ready", "order", "done", "clean", "returned"}
  /\ mem_i \in Number /\ mem_clock \in {"before", "running", "stopped"}
  /\ mem_worker \in [Number -> {"none", "start", "ready", "work", "ended"}]
  /\ {sem_order, sem_response} \subseteq [Number -> Int]
  /\ buffer \in [Number -> {"none", "live", "freed"}]

\* No worker touches its buffer before the clock runs or after it stopped,
\* and the buffer is there while it does; the clock never stops for a set of
\* workers of which one did no work.
MemClockSpansWork ==
  /\ mem_clock # "running" => \A w \in Number : mem_worker[w] # "work"
  /\ \A w \in Number : mem_worker[w] = "work" => buffer[w] = "live"
  /\ mem_clock = "stopped" => \A w \in Number : buffer[w] # "none" /\ mem_worker[w] = "ended"

\* The known hangs: the caller waits until a worker is ready that was not
\* created, or for the end of one that had no buffer and answered only once.
MemHangs ==
  \/ mem_pc = "ready" /\ mem_worker[mem_i] = "none"
  \/ /\ mem_pc = "done" /\ sem_response[mem_i] = 0
     /\ mem_worker[mem_i] = "ended" /\ buffer[mem_i] = "none"

=============================================================================
