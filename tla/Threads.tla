------------------------------ MODULE Threads ------------------------------
(***************************************************************************)
(* The JoyOS kernel scheduler: src/src/kern/thread.c, the system tick of   *)
(* kern/isr.c and the boot sequence of kern/main.c.                        *)
(*                                                                         *)
(* The processor has one core.  A thread that runs with the global         *)
(* interrupt flag of SREG set can lose the processor to the tick at any    *)
(* instruction; with the flag clear it keeps the processor until it yields *)
(* or sets the flag again.  So a stretch of code between ATOMIC_BEGIN and  *)
(* ATOMIC_END that does not yield is one step here, and so is schedule()   *)
(* together with the resume() it ends in: the saved scheduler context was  *)
(* taken with the flag clear.                                              *)
(*                                                                         *)
(* What the threads compute is left open: any running thread may make any  *)
(* kernel call at any time.                                                *)
(***************************************************************************)
EXTENDS Integers, Sequences

CONSTANTS
  MaxThreads,   \* MAX_THREADS, size of the thread table (7 in the code)
  BootThreads,  \* how many threads main() creates before it calls schedule()
  Word,         \* modulus of the 32-bit clock and wakeup times
  Delays,       \* the arguments pause() is called with
  MaxNest,      \* bound: how deep a thread nests ATOMIC sections
  Horizon       \* bound: where the clock stops; at Word or beyond it never
                \* stops but wraps

ASSUME ThreadsAssumption ==
  /\ MaxThreads \in Nat \ {0}
  /\ BootThreads \in 1..MaxThreads
  /\ Word \in Nat \ {0}
  /\ Delays \subseteq Nat
  /\ MaxNest \in Nat
  /\ Horizon \in Nat

VARIABLES
  mode,         \* "boot" in main(), "run" under the scheduler, "halt" for ever
  status,       \* th_status of every slot of the thread table
  wakeup,       \* th_wakeup_time
  th_sreg,      \* the interrupt flag a suspended thread gets back when resumed
  atomics,      \* the _cli_was_enabled of each ATOMIC section a thread is in
  current,      \* current_thread
  sreg,         \* the interrupt flag of SREG
  global_time,  \* milliseconds since init_thread, modulo Word
  panicked,     \* why the board was halted
  owed          \* history: ticks a paused thread still has to sleep, if its
                \* pause ends before the clock wraps

vars == <<mode, status, wakeup, th_sreg, atomics, current, sreg,
          global_time, panicked, owed>>

Tid == 0 .. MaxThreads - 1
NULL == -1
Reasons == {"none", "halt", "panic", "out of threads", "unknown interrupt",
            "acquired too many times", "release unheld lock"}

TypeOK ==
  /\ mode \in {"boot", "run", "halt"}
  /\ status \in [Tid -> {"FREE", "RUNNABLE", "PAUSED"}]
  /\ wakeup \in [Tid -> 0 .. Word - 1]
  /\ th_sreg \in [Tid -> BOOLEAN]
  /\ atomics \in [Tid -> Seq(BOOLEAN)]
  /\ current \in Tid \cup {NULL}
  /\ sreg \in BOOLEAN
  /\ global_time \in 0 .. Word - 1
  /\ panicked \in Reasons
  /\ owed \in [Tid -> Nat]

-----------------------------------------------------------------------------
(* schedule() and resume() *)

\* The place of slot t in the scan that starts just after slot from.
Offset(from, t) == IF t > from THEN t - from ELSE t - from + MaxThreads

\* Mutant: a pause ends one tick early.
ReadyEarly(st, wake, now) ==
  \/ st = "RUNNABLE"
  \/ st = "PAUSED" /\ wake <= now + 1

\* A slot the scan would resume: runnable, or paused until now or earlier.
Ready(st, wake, now) ==
  \/ st = "RUNNABLE"
  \/ st = "PAUSED" /\ wake <= now

\* Mutant: every scan starts at slot 0.
ScanFromZero == MaxThreads - 1

\* The slot the scan starts after; slot 0 comes first when the processor was
\* idle or at boot.
ScanStart == IF current = NULL THEN MaxThreads - 1 ELSE current

\* Mutant: the scan stops before it comes back to the slot it started after.
ReadyElsewhere(st, wake, now) ==
  {t \in Tid \ {ScanStart} : Ready(st[t], wake[t], now)}

ReadySlots(st, wake, now) == {t \in Tid : Ready(st[t], wake[t], now)}

\* A thread whose pause is over is made runnable.
Resumed(st, t) == [st EXCEPT ![t] = "RUNNABLE"]

\* schedule() scans the table once and resumes the first thread that is ready;
\* with none ready it sets the interrupt flag and waits for a tick.  st, wake,
\* flags and now are the table and the clock at the call.
Schedule(st, wake, flags, now) ==
  LET ready == ReadySlots(st, wake, now) IN
  \/ /\ ready = {}
     /\ status' = st
     /\ current' = NULL
     /\ sreg' = TRUE
  \/ \E t \in ready :
       /\ \A u \in ready : Offset(ScanStart, t) <= Offset(ScanStart, u)
       /\ status' = Resumed(st, t)
       /\ current' = t
       /\ sreg' = flags[t]

-----------------------------------------------------------------------------
(* Boot *)

\* board_init() and init_thread() have run: every slot is free, interrupts
\* are off and stay off until the first thread starts.
Init ==
  /\ mode = "boot"
  /\ status = [t \in Tid |-> "FREE"]
  /\ wakeup = [t \in Tid |-> 0]
  /\ th_sreg = [t \in Tid |-> FALSE]
  /\ atomics = [t \in Tid |-> <<>>]
  /\ current = NULL
  /\ sreg = FALSE
  /\ global_time = 0
  /\ panicked = "none"
  /\ owed = [t \in Tid |-> 0]

\* create_thread() takes the first free slot.  The new thread starts in
\* thread_stub(), which sets the interrupt flag before it calls the function.
Create ==
  \E t \in Tid :
    /\ status[t] = "FREE"
    /\ \A u \in Tid : u < t => status[u] # "FREE"
    /\ status' = [status EXCEPT ![t] = "RUNNABLE"]
    /\ th_sreg' = [th_sreg EXCEPT ![t] = TRUE]
    /\ atomics' = [atomics EXCEPT ![t] = <<>>]
    /\ owed' = [owed EXCEPT ![t] = 0]
    /\ UNCHANGED <<mode, wakeup, current, sreg, global_time, panicked>>

Booted == \A t \in Tid : t < BootThreads => status[t] # "FREE"

\* main() creates the monitor and rf_init() the radio thread.
BootCreate ==
  /\ mode = "boot"
  /\ ~Booted
  /\ Create

\* main() ends by calling schedule() from the boot stack.
StartScheduler ==
  /\ mode = "boot"
  /\ Booted
  /\ mode' = "run"
  /\ Schedule(status, wakeup, th_sreg, global_time)
  /\ UNCHANGED <<wakeup, th_sreg, atomics, global_time, panicked, owed>>

-----------------------------------------------------------------------------
(* The system tick *)

NextTime == IF global_time = Horizon THEN global_time
                                     ELSE (global_time + 1) % Word

\* The thread's context as it is when the tick interrupts it: interrupts on.
InterruptedFlags == IF current = NULL THEN th_sreg
                                      ELSE [th_sreg EXCEPT ![current] = TRUE]

\* The timer interrupt counts a millisecond and yields on behalf of whatever
\* it interrupted, a thread or the idle loop of schedule().
Tick ==
  /\ mode = "run"
  /\ sreg
  /\ global_time' = NextTime
  /\ owed' = [t \in Tid |-> IF owed[t] > 0 /\ global_time # Horizon
                            THEN owed[t] - 1 ELSE owed[t]]
  /\ th_sreg' = InterruptedFlags
  /\ Schedule(status, wakeup, th_sreg', global_time')
  /\ UNCHANGED <<mode, wakeup, atomics, panicked>>

-----------------------------------------------------------------------------
(* Kernel calls of thread t *)

Runs(t) == mode = "run" /\ current = t

\* ATOMIC_BEGIN remembers the flag and clears it.
AtomicBegin(t) ==
  /\ Runs(t)
  /\ Len(atomics[t]) < MaxNest
  /\ atomics' = [atomics EXCEPT ![t] = Append(@, sreg)]
  /\ sreg' = FALSE
  /\ UNCHANGED <<mode, status, wakeup, th_sreg, current, global_time,
                 panicked, owed>>

\* Mutant: the flag is set whatever it was.
FlagAlwaysOn(t) == TRUE

\* The flag after the end of the innermost ATOMIC section of t.
FlagAfter(t) == sreg \/ atomics[t][Len(atomics[t])]

\* ATOMIC_END sets the flag again if it was set at the matching ATOMIC_BEGIN.
AtomicEnd(t) ==
  /\ Runs(t)
  /\ atomics[t] # <<>>
  /\ sreg' = FlagAfter(t)
  /\ atomics' = [atomics EXCEPT ![t] = SubSeq(@, 1, Len(@) - 1)]
  /\ UNCHANGED <<mode, status, wakeup, th_sreg, current, global_time,
                 panicked, owed>>

\* yield() gives the processor away, inside an ATOMIC section as well; the
\* thread gets its own interrupt flag back when it is resumed.
Yield(t) ==
  /\ Runs(t)
  /\ th_sreg' = [th_sreg EXCEPT ![t] = sreg]
  /\ Schedule(status, wakeup, th_sreg', global_time)
  /\ UNCHANGED <<mode, wakeup, atomics, global_time, panicked, owed>>

\* Mutant: the wakeup time is kept in a type wider than the clock's.
WideWakeupTime(ms) == global_time + ms

WakeupTime(ms) == (global_time + ms) % Word

\* pause() with interrupts on.  (With interrupts off it spins and returns:
\* the tick cannot be served meanwhile, so no state changes.)
Pause(t, ms) ==
  /\ Runs(t)
  /\ sreg
  /\ global_time + ms <= Horizon
  /\ wakeup' = [wakeup EXCEPT ![t] = WakeupTime(ms)]
  /\ owed' = [owed EXCEPT ![t] = IF global_time + ms < Word THEN ms ELSE 0]
  /\ th_sreg' = [th_sreg EXCEPT ![t] = TRUE]
  /\ Schedule([status EXCEPT ![t] = "PAUSED"], wakeup', th_sreg', global_time)
  /\ UNCHANGED <<mode, atomics, global_time, panicked>>

\* thread_exit(): the slot is free from here on and is never resumed again
\* unless create_thread() hands it out.
ThreadExit(t) ==
  /\ Runs(t)
  /\ th_sreg' = [th_sreg EXCEPT ![t] = FALSE]
  /\ Schedule([status EXCEPT ![t] = "FREE"], wakeup, th_sreg', global_time)
  /\ UNCHANGED <<mode, wakeup, atomics, global_time, panicked, owed>>

CreateThread(t) == Runs(t) /\ Create

\* halt(), alone or at the end of panic(): interrupts off, then a loop that
\* never gives the processor away, since pause() spins with interrupts off.
Halt(reason) ==
  /\ mode # "halt"
  /\ mode' = "halt"
  /\ sreg' = FALSE
  /\ panicked' = reason
  /\ UNCHANGED <<status, wakeup, th_sreg, atomics, current, global_time, owed>>

\* create_thread() with no free slot panics.
OutOfThreads(t) ==
  /\ Runs(t)
  /\ \A u \in Tid : status[u] # "FREE"
  /\ Halt("out of threads")

\* round_end() halts; a failed check, of a lock or in resume() too, panics.
StopBoard(t) ==
  /\ Runs(t)
  /\ \E r \in {"halt", "panic", "acquired too many times",
               "release unheld lock"} : Halt(r)

\* The default interrupt vector panics, also when no thread runs.
UnknownInterrupt == mode = "run" /\ sreg /\ Halt("unknown interrupt")

\* The calls that return to their caller.
KernelCall(t) ==
  \/ AtomicBegin(t)
  \/ AtomicEnd(t)
  \/ Yield(t)
  \/ \E ms \in Delays : Pause(t, ms)
  \/ CreateThread(t)

Next ==
  \/ BootCreate
  \/ StartScheduler
  \/ Tick
  \/ \E t \in Tid : \/ KernelCall(t)
                    \/ ThreadExit(t)
                    \/ OutOfThreads(t)
                    \/ StopBoard(t)
  \/ UnknownInterrupt
  \/ mode = "halt" /\ UNCHANGED vars   \* the blinking loop of halt()

Spec == Init /\ [][Next]_vars

\* The overflow flag of the timer stays set until its interrupt is served, so
\* a thread that keeps leaving ATOMIC sections is preempted in the end.  A
\* thread that keeps being resumed reaches the end of its ATOMIC section: no
\* section of the code waits for the clock or for a thread that is paused.
\* (Sections that yield to each other for ever would stop the clock.)
Fairness ==
  /\ WF_vars(BootCreate) /\ WF_vars(StartScheduler)
  /\ SF_vars(Tick)
  /\ \A t \in Tid : SF_vars(AtomicEnd(t))

FairSpec == Spec /\ Fairness

-----------------------------------------------------------------------------
(* Properties *)

\* The thread that runs is runnable: schedule() never resumes a slot whose
\* thread has exited (the panic after yield() in thread_exit() is dead code)
\* and turns a paused thread runnable before it resumes it.
RunningIsRunnable ==
  mode # "boot" /\ current # NULL => status[current] = "RUNNABLE"

\* Interrupts are off exactly while the running thread is in an ATOMIC
\* section, however sections nest and whatever the thread yielded or was
\* preempted in between: no thread runs with another thread's flag.
FlagFollowsSections ==
  mode = "run" => sreg = (current = NULL \/ atomics[current] = <<>>)

\* A paused thread does not run before as many ticks have passed as it asked
\* for, unless the clock wraps first.  (A pause across the wrap is over at
\* once: its wakeup time is less than the time it began.)
PauseNotEarly == current # NULL => owed[current] = 0

\* A thread that stays ready while others run comes closer at every switch:
\* at most MaxThreads - 1 others are resumed before it.  (When the clock wraps
\* a thread whose pause was over may cease to be ready.)
NoBypass ==
  [][\A t \in Tid :
       (/\ mode = "run" /\ current # NULL /\ t # current
        /\ Ready(status[t], wakeup[t], global_time)
        /\ current' # current
        /\ global_time <= global_time')
       => \/ current' = t
          \/ /\ current' # NULL
             /\ Offset(current', t) < Offset(current, t)]_vars

\* The processor idles only when nobody can run: a thread that is ready when
\* the processor goes idle would wait a whole tick for nothing.
IdleOnlyIfNoneReady ==
  mode = "run" /\ current = NULL =>
    \A t \in Tid : ~Ready(status[t], wakeup[t], global_time)

\* schedule() gives the processor to a runnable slot, and to nobody only if
\* nobody is ready.
RunsWhoIsReady == RunningIsRunnable /\ IdleOnlyIfNoneReady

\* Every thread that is created or paused runs again, unless the board halts.
EveryThreadRuns ==
  \A t \in Tid :
    (mode = "run" /\ status[t] # "FREE") ~> (current = t \/ mode = "halt")
=============================================================================
