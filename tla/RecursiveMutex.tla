--------------------------- MODULE RecursiveMutex ---------------------------
(***************************************************************************)
(* What inc/kern/lock.h promises to the callers of acquire(),              *)
(* try_acquire() and release(), whoever runs when: a thread may take a     *)
(* lock again while it has it, up to a limit, no other thread can take it  *)
(* meanwhile, and it gives the lock back once for every time it took it.   *)
(***************************************************************************)
EXTENDS Naturals

CONSTANTS Threads, Locks, Limit

VARIABLE held   \* held[t][k]: how often t took k and has not given it back

Init == held = [t \in Threads |-> [k \in Locks |-> 0]]

Take(t, k) ==
  /\ \A u \in Threads \ {t} : held[u][k] = 0
  /\ held[t][k] < Limit
  /\ held' = [held EXCEPT ![t][k] = @ + 1]

Give(t, k) ==
  /\ held[t][k] > 0
  /\ held' = [held EXCEPT ![t][k] = @ - 1]

Next == \E t \in Threads, k \in Locks : Take(t, k) \/ Give(t, k)

Spec == Init /\ [][Next]_held
=============================================================================
