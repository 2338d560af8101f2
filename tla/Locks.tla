------------------------------- MODULE Locks -------------------------------
(***************************************************************************)
(* The locks of src/src/kern/lock.c on top of the scheduler.  A lock is a  *)
(* counter and a pointer to the thread that has it; a thread that finds it *)
(* taken yields and tries again.  inc_lock(), release() and smash() run    *)
(* with interrupts off and do not yield, so each is one step; the check of *)
(* the counter at the head of acquire() is outside that section and is a   *)
(* step of its own.                                                        *)
(*                                                                         *)
(* Callers keep the rule of lock.h that every acquire is released: a       *)
(* thread does not exit with a lock.  Nothing else is asked of them.  The  *)
(* acquires of the boot code, with no thread and no tick, are balanced     *)
(* and leave every lock free, which is where the model begins.             *)
(***************************************************************************)
EXTENDS Threads

CONSTANTS
  Lock,       \* the locks
  NoLock,     \* not a lock
  Smashed,    \* the locks halt() and panic() smash: motor, servo and uart
  LockMax     \* LOCK_MAX_ACQUIRES, the largest value of the counter (255)

ASSUME LocksAssumption ==
  /\ NoLock \notin Lock
  /\ Smashed \subseteq Lock
  /\ LockMax \in Nat \ {0}

VARIABLES
  locked,     \* struct lock: how often the owner has acquired it
  owner,      \* struct lock: thread
  pc,         \* where a thread is in acquire() or try_acquire()
  want,       \* the lock it is acquiring there
  held        \* history: acquires of a thread that returned, less its releases

lockVars == <<locked, owner, pc, want, held>>
allVars == <<vars, lockVars>>

LocksTypeOK ==
  /\ TypeOK
  /\ locked \in [Lock -> 0 .. LockMax]
  /\ owner \in [Lock -> Tid \cup {NULL}]
  /\ pc \in [Tid -> {"none", "acquire", "yield", "try"}]
  /\ want \in [Tid -> Lock \cup {NoLock}]
  /\ held \in [Tid -> [Lock -> Nat]]

LocksInit ==
  /\ Init
  /\ locked = [k \in Lock |-> 0]
  /\ owner = [k \in Lock |-> NULL]
  /\ pc = [t \in Tid |-> "none"]
  /\ want = [t \in Tid |-> NoLock]
  /\ held = [t \in Tid |-> [k \in Lock |-> 0]]

-----------------------------------------------------------------------------

\* Thread t runs code of its own, outside acquire() and try_acquire().
Free(t) == Runs(t) /\ pc[t] = "none"

\* halt() smashes its locks first; the board never runs a thread again.
SmashAll ==
  /\ locked' = [k \in Lock |-> IF k \in Smashed THEN 0 ELSE locked[k]]
  /\ owner' = [k \in Lock |-> IF k \in Smashed THEN NULL ELSE owner[k]]
  /\ UNCHANGED <<pc, want, held>>

LockPanic(reason) == Halt(reason) /\ SmashAll

\* Mutant: the limit is off by one.
BelowLimitOrAt(k) == locked[k] <= LockMax

\* The check of the counter in acquire() and try_acquire().
BelowLimit(k) == locked[k] < LockMax

\* acquire() or try_acquire(), up to and with the check of the counter.
Enter(t, k, how) ==
  /\ Free(t)
  /\ BelowLimit(k)
  /\ pc' = [pc EXCEPT ![t] = how]
  /\ want' = [want EXCEPT ![t] = k]
  /\ UNCHANGED <<vars, locked, owner, held>>

\* The check of the counter panics, whoever has the lock: also when the caller
\* would only have had to wait.
TooManyAcquires(t, k) ==
  /\ Free(t)
  /\ ~BelowLimit(k)
  /\ LockPanic("acquired too many times")

\* Mutant: the owner is not compared.
TakesAny(t, k) == TRUE

\* inc_lock() takes a lock that is free or already the thread's own.
Takes(t, k) == locked[k] = 0 \/ owner[k] = t

\* An unsigned char.
Incremented(n) == (n + 1) % (LockMax + 1)

IncLock(t) ==
  LET k == want[t] IN
  /\ Runs(t)
  /\ pc[t] \in {"acquire", "try"}
  /\ Takes(t, k)
  /\ locked' = [locked EXCEPT ![k] = Incremented(@)]
  /\ owner' = [owner EXCEPT ![k] = t]
  /\ held' = [held EXCEPT ![t][k] = @ + 1]
  /\ pc' = [pc EXCEPT ![t] = "none"]
  /\ want' = [want EXCEPT ![t] = NoLock]
  /\ UNCHANGED vars

\* inc_lock() fails: acquire() goes on to yield.
Refused(t) ==
  /\ Runs(t)
  /\ pc[t] = "acquire"
  /\ ~Takes(t, want[t])
  /\ pc' = [pc EXCEPT ![t] = "yield"]
  /\ UNCHANGED <<vars, locked, owner, want, held>>

\* inc_lock() fails: try_acquire() returns 0.
TryFails(t) ==
  /\ Runs(t)
  /\ pc[t] = "try"
  /\ ~Takes(t, want[t])
  /\ pc' = [pc EXCEPT ![t] = "none"]
  /\ want' = [want EXCEPT ![t] = NoLock]
  /\ UNCHANGED <<vars, locked, owner, held>>

\* Mutant: acquire() never looks at the lock again.
AcquireKeepsYielding(t) ==
  /\ pc[t] = "yield"
  /\ Yield(t)
  /\ UNCHANGED lockVars

\* acquire() yields and will call inc_lock() again, without the check.
AcquireYields(t) ==
  /\ pc[t] = "yield"
  /\ Yield(t)
  /\ pc' = [pc EXCEPT ![t] = "acquire"]
  /\ UNCHANGED <<locked, owner, want, held>>

\* Mutant: no check of the holder.
IsHeldUnchecked(t, k) == TRUE

\* is_held() for the current thread t.
IsHeld(t, k) == owner[k] = t /\ locked[k] # 0

\* Mutant: the first release frees the lock.
OwnerCleared(k) == NULL

\* The owner after one release.
OwnerAfterRelease(k) == IF locked[k] = 1 THEN NULL ELSE owner[k]

Release(t, k) ==
  /\ Free(t)
  /\ IsHeld(t, k)
  /\ locked' = [locked EXCEPT ![k] = @ - 1]
  /\ owner' = [owner EXCEPT ![k] = OwnerAfterRelease(k)]
  /\ held' = [held EXCEPT ![t][k] = @ - 1]
  /\ UNCHANGED <<vars, pc, want>>

ReleaseUnheld(t, k) ==
  /\ Free(t)
  /\ ~IsHeld(t, k)
  /\ LockPanic("release unheld lock")

\* round_end(), and the panics of other parts.
StopBoardElsewhere(t) ==
  /\ Runs(t)
  /\ \E r \in {"halt", "panic"} : LockPanic(r)

HoldsNothing(t) == \A k \in Lock : held[t][k] = 0

\* The calls of Threads, from outside the lock functions.
OtherCall(t) ==
  /\ pc[t] = "none"
  /\ \/ KernelCall(t)
     \/ ThreadExit(t) /\ HoldsNothing(t)
  /\ UNCHANGED lockVars

\* A call of a lock function, up to its first preemption point.
LockCall(t) ==
  \E k \in Lock : \/ \E how \in {"acquire", "try"} : Enter(t, k, how)
                  \/ TooManyAcquires(t, k)
                  \/ Release(t, k)
                  \/ ReleaseUnheld(t, k)

\* The rest of acquire() and try_acquire().
CallStep(t) ==
  \/ IncLock(t)
  \/ Refused(t)
  \/ TryFails(t)
  \/ AcquireYields(t)

LocksNext ==
  \/ \E t \in Tid : \/ LockCall(t)
                    \/ CallStep(t)
                    \/ OtherCall(t)
                    \/ OutOfThreads(t) /\ SmashAll
                    \/ StopBoardElsewhere(t)
  \/ (BootCreate \/ StartScheduler \/ Tick) /\ UNCHANGED lockVars
  \/ UnknownInterrupt /\ SmashAll
  \/ mode = "halt" /\ UNCHANGED allVars   \* the blinking loop of halt()

LocksSpec == LocksInit /\ [][LocksNext]_allVars

\* The fairness of the scheduler, and: a thread that gets the processor again
\* and again executes the next steps of its acquire().
LocksFairness ==
  /\ WF_allVars(BootCreate /\ UNCHANGED lockVars)
  /\ WF_allVars(StartScheduler /\ UNCHANGED lockVars)
  /\ SF_allVars(Tick /\ UNCHANGED lockVars)
  /\ \A t \in Tid : /\ SF_allVars(OtherCall(t) /\ AtomicEnd(t))
                    /\ SF_allVars(CallStep(t))

LocksFairSpec == LocksSpec /\ LocksFairness

-----------------------------------------------------------------------------
(* Properties *)

\* No two threads have acquired the same lock, whatever preempts acquire().
MutualExclusion ==
  \A k \in Lock : \A t, u \in Tid :
    held[t][k] > 0 /\ held[u][k] > 0 => t = u

\* The lock knows who holds it and how often: its counter is the number of
\* releases its owner owes, so a release by a holder never panics and the last
\* one frees the lock.  (halt() breaks the locks it smashes, for good.)
LockMatchesHolders ==
  mode # "halt" =>
    \A t \in Tid, k \in Lock :
      held[t][k] = IF owner[k] = t THEN locked[k] ELSE 0

\* A lock with a zero counter has no owner and the other way round.
OwnedIffLocked == \A k \in Lock : owner[k] = NULL <=> locked[k] = 0

\* The check against LOCK_MAX_ACQUIRES is made before the section that counts,
\* and not again after a yield: it must still be good when inc_lock() counts,
\* or the counter wraps to zero and frees a lock that is held.
CheckStaysGood ==
  \A t \in Tid :
    pc[t] # "none" /\ owner[want[t]] = t => locked[want[t]] < LockMax

\* The locks do what RecursiveMutex promises.
Mutex == INSTANCE RecursiveMutex
           WITH Threads <- Tid, Locks <- Lock, Limit <- LockMax
ImplementsMutex == Mutex!Spec

Waiting(k) == \E t \in Tid : want[t] = k /\ pc[t] \in {"acquire", "yield"}

\* A free lock that somebody waits for is taken: the wait by yielding neither
\* loses the release nor deadlocks.
FreeLockIsTaken ==
  \A k \in Lock :
    (mode = "run" /\ Waiting(k) /\ locked[k] = 0)
      ~> (locked[k] > 0 \/ mode = "halt")
=============================================================================
