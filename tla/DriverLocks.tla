---------------------------- MODULE DriverLocks ----------------------------
(***************************************************************************)
(* What the device drivers see of the kernel: threads that are preempted   *)
(* anywhere, and locks.  A lock is the thread that has it, which is what   *)
(* ThreadsProofs shows acquire() and release() to amount to                *)
(* (RecursiveMutex; no driver takes its lock twice).  Any order of steps   *)
(* of the threads is allowed, the orders of the round-robin scheduler      *)
(* among them.                                                             *)
(***************************************************************************)
EXTENDS Integers

CONSTANTS Thread, Nobody

NobodyAssumption == Nobody \notin Thread

VARIABLES
  halter,     \* the thread that has turned interrupts off to halt, or Nobody
  holder,     \* who has each lock
  pc          \* where each thread is in a driver call; "idle" outside

\* With interrupts off for good only the halting thread runs.
Runs(t) == halter \in {Nobody, t}

Goes(t, from, to) == Runs(t) /\ pc[t] = from /\ pc' = [pc EXCEPT ![t] = to]

\* Mutant: a taken lock is taken again.
TakesTaken(t, lock) == holder' = [holder EXCEPT ![lock] = t]

Takes(t, lock) == holder[lock] = Nobody /\ holder' = [holder EXCEPT ![lock] = t]

Gives(t, lock) == holder' = [holder EXCEPT ![lock] = Nobody]
=============================================================================
