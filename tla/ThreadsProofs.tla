---------------------------- MODULE ThreadsProofs ---------------------------
(***************************************************************************)
(* Proofs about Threads and Locks, for every size of the thread table, any *)
(* number of locks and every input.                                        *)
(***************************************************************************)
EXTENDS Locks, SequenceTheorems, TLAPS

USE DEF Tid, NULL

\* A remainder of the 32-bit arithmetic is a 32-bit number.
LEMMA ModRange ==
  ASSUME NEW a \in Nat
  PROVE  a % Word \in 0 .. Word - 1
  BY ThreadsAssumption

\* What is left of a stack when its top is removed.
LEMMA FrontEffect ==
  ASSUME NEW S, NEW s \in Seq(S), s # <<>>
  PROVE  /\ Len(s) \in Nat \ {0}
         /\ Len(SubSeq(s, 1, Len(s) - 1)) = Len(s) - 1
         /\ \A i \in 1 .. Len(s) - 1 : SubSeq(s, 1, Len(s) - 1)[i] = s[i]
<1>1. Len(s) \in Nat \ {0}
  OBVIOUS
<1>2. \A i \in 1 .. Len(s) - 1 : s[i] \in S
  BY <1>1
<1> DEFINE n == Len(s) - 1
<1>3. n \in Nat
  BY <1>1
<1>4. \A i \in 1 .. n : s[i] \in S
  BY <1>2
<1> HIDE DEF n
<1>5. /\ Len(SubSeq(s, 1, n)) = IF 1 <= n THEN n - 1 + 1 ELSE 0
      /\ \A i \in 1 .. n - 1 + 1 : SubSeq(s, 1, n)[i] = s[1 + i - 1]
  BY <1>3, <1>4, SubSeqProperties
<1>6. Len(SubSeq(s, 1, n)) = n /\ \A i \in 1 .. n : SubSeq(s, 1, n)[i] = s[i]
  BY <1>3, <1>5
<1> QED BY <1>1, <1>6 DEF n

\* What schedule() leaves behind, whoever calls it: the processor is idle and
\* nobody was ready, or it runs a thread that was ready, is now runnable and
\* has its own interrupt flag.  No other slot changes.
LEMMA ScheduleEffect ==
  ASSUME NEW st \in [Tid -> {"FREE", "RUNNABLE", "PAUSED"}],
         NEW wake, NEW flags, NEW now,
         Schedule(st, wake, flags, now)
  PROVE  \/ /\ \A t \in Tid : ~Ready(st[t], wake[t], now)
            /\ status' = st
            /\ current' = NULL
            /\ sreg' = TRUE
         \/ /\ current' \in Tid
            /\ Ready(st[current'], wake[current'], now)
            /\ \A u \in Tid : Ready(st[u], wake[u], now) =>
                 Offset(ScanStart, current') <= Offset(ScanStart, u)
            /\ status' = [st EXCEPT ![current'] = "RUNNABLE"]
            /\ sreg' = flags[current']
  BY DEF Schedule, ReadySlots, Resumed

\* The types are an invariant of the scheduler.
LEMMA InitTypeOK == Init => TypeOK
<1> SUFFICES ASSUME Init PROVE TypeOK
  OBVIOUS
<1>1. /\ th_sreg \in [Tid -> BOOLEAN]
      /\ sreg \in BOOLEAN
  BY Zenon DEF Init
<1>2. atomics \in [Tid -> Seq(BOOLEAN)]
  BY DEF Init
<1> QED
  BY <1>1, <1>2, ThreadsAssumption DEF Init, TypeOK, Reasons

LEMMA NextTypeOK == TypeOK /\ [Next]_vars => TypeOK'
<1> SUFFICES ASSUME TypeOK, [Next]_vars PROVE TypeOK'
  OBVIOUS
<1> USE DEF TypeOK
<1>1. ASSUME Create PROVE TypeOK'
  BY <1>1 DEF Create
<1>2. ASSUME NEW flags \in [Tid -> BOOLEAN], NEW now \in 0 .. Word - 1,
             NEW st \in [Tid -> {"FREE", "RUNNABLE", "PAUSED"}],
             NEW wake, Schedule(st, wake, flags, now)
      PROVE  /\ status' \in [Tid -> {"FREE", "RUNNABLE", "PAUSED"}]
             /\ current' \in Tid \cup {NULL}
             /\ sreg' \in BOOLEAN
  <2>1. sreg' = TRUE \/ (current' \in Tid /\ sreg' = flags[current'])
    BY <1>2, ScheduleEffect
  <2>2. sreg' \in BOOLEAN
    BY <2>1, Zenon
  <2> QED BY <1>2, <2>2, ScheduleEffect
<1>3. ASSUME NEW r \in Reasons, Halt(r) PROVE TypeOK'
  BY <1>3 DEF Halt
<1>4. CASE BootCreate
  BY <1>1, <1>4 DEF BootCreate
<1>5. CASE StartScheduler
  BY <1>2, <1>5 DEF StartScheduler
<1>6. CASE Tick
  <2>1. global_time' \in 0 .. Word - 1
    BY <1>6, ModRange DEF Tick, NextTime
  <2>2. th_sreg' \in [Tid -> BOOLEAN]
    BY <1>6 DEF Tick, InterruptedFlags
  <2>3. owed' \in [Tid -> Nat]
    BY <1>6 DEF Tick
  <2> QED BY <1>2, <1>6, <2>1, <2>2, <2>3 DEF Tick
<1>7. ASSUME NEW t \in Tid, AtomicBegin(t) PROVE TypeOK'
  <2>1. Append(atomics[t], sreg) \in Seq(BOOLEAN)
    OBVIOUS
  <2>2. atomics' \in [Tid -> Seq(BOOLEAN)] /\ sreg' \in BOOLEAN
    BY <1>7, <2>1 DEF AtomicBegin
  <2> QED BY <1>7, <2>2 DEF AtomicBegin
<1>8. ASSUME NEW t \in Tid, AtomicEnd(t) PROVE TypeOK'
  BY <1>8 DEF AtomicEnd, Runs, FlagAfter
<1>9. ASSUME NEW t \in Tid, Yield(t) PROVE TypeOK'
  BY <1>2, <1>9 DEF Yield, Runs
<1>10. ASSUME NEW t \in Tid, NEW ms \in Delays, Pause(t, ms) PROVE TypeOK'
  <2>1. WakeupTime(ms) \in 0 .. Word - 1
    <3>1. global_time + ms \in Nat
      BY ThreadsAssumption
    <3> QED BY <3>1, ModRange DEF WakeupTime
  <2>2. /\ wakeup' \in [Tid -> 0 .. Word - 1]
        /\ owed' \in [Tid -> Nat]
        /\ th_sreg' \in [Tid -> BOOLEAN]
        /\ [status EXCEPT ![t] = "PAUSED"] \in
             [Tid -> {"FREE", "RUNNABLE", "PAUSED"}]
    BY <1>10, <2>1, ThreadsAssumption DEF Pause
  <2> QED BY <1>2, <1>10, <2>2 DEF Pause
<1>11. ASSUME NEW t \in Tid, ThreadExit(t) PROVE TypeOK'
  <2>1. [status EXCEPT ![t] = "FREE"] \in
          [Tid -> {"FREE", "RUNNABLE", "PAUSED"}]
    OBVIOUS
  <2> QED BY <1>2, <1>11, <2>1 DEF ThreadExit
<1>12. ASSUME NEW t \in Tid, CreateThread(t) PROVE TypeOK'
  BY <1>1, <1>12 DEF CreateThread
<1>13. ASSUME NEW t \in Tid, OutOfThreads(t) \/ StopBoard(t) PROVE TypeOK'
  BY <1>3, <1>13 DEF OutOfThreads, StopBoard, Reasons
<1>14. CASE UnknownInterrupt
  BY <1>3, <1>14 DEF UnknownInterrupt, Reasons
<1>15. CASE UNCHANGED vars
  BY <1>15 DEF vars
<1> QED
  BY <1>4, <1>5, <1>6, <1>7, <1>8, <1>9, <1>10, <1>11, <1>12, <1>13, <1>14,
     <1>15 DEF Next, KernelCall

\* Every reachable state of the scheduler is well typed: among others, the
\* clock and the wakeup times stay 32-bit numbers and the current thread is a
\* slot of the table.
THEOREM TypeCorrect == Spec => []TypeOK
  BY InitTypeOK, NextTypeOK, PTL DEF Spec

-----------------------------------------------------------------------------
(* Who runs *)

\* The inductive invariant behind the properties about who runs: nothing runs
\* while the kernel boots, what runs is runnable, and an idle processor means
\* that nobody was ready when it went idle or was last looked at.
RunInv ==
  /\ TypeOK
  /\ mode = "boot" => current = NULL
  /\ RunningIsRunnable
  /\ IdleOnlyIfNoneReady

LEMMA InitRunInv == Init => RunInv
  BY InitTypeOK DEF Init, RunInv, RunningIsRunnable, IdleOnlyIfNoneReady

LEMMA NextRunInv == RunInv /\ [Next]_vars => RunInv'
<1> SUFFICES ASSUME RunInv, [Next]_vars PROVE RunInv'
  OBVIOUS
<1>0. TypeOK /\ TypeOK'
  BY NextTypeOK DEF RunInv
<1> USE DEF RunInv, RunningIsRunnable, IdleOnlyIfNoneReady
<1>1. ASSUME mode' = "run",
             NEW st \in [Tid -> {"FREE", "RUNNABLE", "PAUSED"}],
             NEW flags, Schedule(st, wakeup', flags, global_time')
      PROVE  RunInv'
  <2>1. CASE /\ \A t \in Tid : ~Ready(st[t], wakeup'[t], global_time')
             /\ status' = st
             /\ current' = NULL
    BY <1>0, <1>1, <2>1
  <2>2. CASE /\ current' \in Tid
             /\ status' = [st EXCEPT ![current'] = "RUNNABLE"]
    BY <1>0, <1>1, <2>2
  <2> HIDE DEF RunInv
  <2>3. \/ /\ \A t \in Tid : ~Ready(st[t], wakeup'[t], global_time')
           /\ status' = st
           /\ current' = NULL
        \/ /\ current' \in Tid
           /\ status' = [st EXCEPT ![current'] = "RUNNABLE"]
    BY <1>1, ScheduleEffect
  <2> QED BY <2>1, <2>2, <2>3
<1>2. ASSUME Create, current # NULL \/ mode = "boot" PROVE RunInv'
  BY <1>0, <1>2 DEF Create, Ready
<1>3. ASSUME NEW r, Halt(r), mode = "run" PROVE RunInv'
  BY <1>0, <1>3 DEF Halt
<1>4. CASE BootCreate
  BY <1>2, <1>4 DEF BootCreate
<1>5. CASE StartScheduler
  BY <1>0, <1>1, <1>5 DEF StartScheduler, TypeOK
<1>6. CASE Tick
  BY <1>0, <1>1, <1>6 DEF Tick, TypeOK
<1>7. ASSUME NEW t \in Tid, AtomicBegin(t) \/ AtomicEnd(t) PROVE RunInv'
  BY <1>0, <1>7 DEF AtomicBegin, AtomicEnd, Runs
<1>8. ASSUME NEW t \in Tid, Yield(t) PROVE RunInv'
  BY <1>0, <1>1, <1>8 DEF Yield, Runs, TypeOK
<1>9. ASSUME NEW t \in Tid, NEW ms \in Delays, Pause(t, ms) PROVE RunInv'
  BY <1>0, <1>1, <1>9 DEF Pause, Runs, TypeOK
<1>10. ASSUME NEW t \in Tid, ThreadExit(t) PROVE RunInv'
  BY <1>0, <1>1, <1>10 DEF ThreadExit, Runs, TypeOK
<1>11. ASSUME NEW t \in Tid, CreateThread(t) PROVE RunInv'
  BY <1>2, <1>11 DEF CreateThread, Runs
<1>12. ASSUME NEW t \in Tid, OutOfThreads(t) \/ StopBoard(t) PROVE RunInv'
  BY <1>3, <1>12 DEF OutOfThreads, StopBoard, Runs
<1>13. CASE UnknownInterrupt
  BY <1>3, <1>13 DEF UnknownInterrupt
<1>14. CASE UNCHANGED vars
  BY <1>0, <1>14 DEF vars
<1> QED
  BY <1>4, <1>5, <1>6, <1>7, <1>8, <1>9, <1>10, <1>11, <1>12, <1>13, <1>14
     DEF Next, KernelCall

\* schedule() never resumes a slot whose thread has exited, nor one still
\* marked paused: the panic at the end of thread_exit() is unreachable.
THEOREM OnlyRunnableRuns == Spec => []RunningIsRunnable
<1>1. RunInv => RunningIsRunnable
  BY DEF RunInv
<1> QED BY <1>1, InitRunInv, NextRunInv, PTL DEF Spec

\* The processor is idle only at moments when no thread could run.
THEOREM NoIdleWhileReady == Spec => []IdleOnlyIfNoneReady
<1>1. RunInv => IdleOnlyIfNoneReady
  BY DEF RunInv
<1> QED BY <1>1, InitRunInv, NextRunInv, PTL DEF Spec

\* Whoever runs is runnable, and whoever is ready keeps the processor from
\* being idle: what schedule() is for.
THEOREM ReadyThreadsRun == Spec => []RunsWhoIsReady
<1>1. RunningIsRunnable /\ IdleOnlyIfNoneReady => RunsWhoIsReady
  BY DEF RunsWhoIsReady
<1> QED BY <1>1, OnlyRunnableRuns, NoIdleWhileReady, PTL

-----------------------------------------------------------------------------
(* The interrupt flag *)

\* The inductive invariant behind FlagFollowsSections: only the outermost
\* ATOMIC section of a thread found the flag set, and a thread that does not
\* run will get the flag its open sections call for.
FlagInv ==
  /\ FlagFollowsSections
  /\ \A t \in Tid : \A i \in 1 .. Len(atomics[t]) :
       atomics[t][i] <=> (i = 1)
  /\ mode # "halt" =>
       \A t \in Tid : status[t] # "FREE" /\ t # current =>
         (th_sreg[t] <=> atomics[t] = <<>>)

LEMMA InitFlagInv == Init => FlagInv
  BY DEF Init, FlagInv, FlagFollowsSections


LEMMA NextFlagInv == RunInv /\ FlagInv /\ [Next]_vars => FlagInv'
<1> SUFFICES ASSUME RunInv, FlagInv, [Next]_vars PROVE FlagInv'
  OBVIOUS
<1>0. TypeOK /\ TypeOK'
  BY NextTypeOK DEF RunInv
<1>1. ASSUME mode # "halt", UNCHANGED atomics,
             NEW st \in [Tid -> {"FREE", "RUNNABLE", "PAUSED"}],
             Schedule(st, wakeup', th_sreg', global_time'),
             \A t \in Tid : st[t] # "FREE" =>
               (th_sreg'[t] <=> atomics[t] = <<>>)
      PROVE  FlagInv'
  <2>1. \/ current' = NULL /\ sreg' = TRUE /\ status' = st
        \/ /\ current' \in Tid
           /\ st[current'] # "FREE"
           /\ status' = [st EXCEPT ![current'] = "RUNNABLE"]
           /\ sreg' = th_sreg'[current']
    BY <1>1, ScheduleEffect DEF Ready
  <2>2. FlagFollowsSections'
    BY <1>0, <1>1, <2>1 DEF FlagFollowsSections, TypeOK
  <2>3. \A t \in Tid : status'[t] # "FREE" => st[t] # "FREE"
    BY <1>1, <2>1
  <2> QED BY <1>0, <1>1, <2>2, <2>3 DEF FlagInv, TypeOK
<1>2. ASSUME NEW t \in Tid PROVE
        /\ mode = "run" /\ t = current => (sreg <=> atomics[t] = <<>>)
        /\ mode # "halt" /\ status[t] # "FREE" /\ t # current =>
             (th_sreg[t] <=> atomics[t] = <<>>)
  BY <1>0 DEF FlagInv, FlagFollowsSections, TypeOK
<1>3. ASSUME Create, mode # "halt", current \in Tid => status[current] # "FREE"
      PROVE  FlagInv'
  <2>1. PICK t \in Tid :
          /\ status[t] = "FREE"
          /\ status' = [status EXCEPT ![t] = "RUNNABLE"]
          /\ th_sreg' = [th_sreg EXCEPT ![t] = TRUE]
          /\ atomics' = [atomics EXCEPT ![t] = <<>>]
          /\ UNCHANGED <<mode, current, sreg>>
    BY <1>3 DEF Create
  <2>2. t # current
    BY <1>3, <2>1
  <2>3. FlagFollowsSections'
    BY <1>0, <2>1, <2>2 DEF FlagInv, FlagFollowsSections, TypeOK
  <2>4. \A u \in Tid : \A i \in 1 .. Len(atomics'[u]) :
          atomics'[u][i] <=> (i = 1)
    BY <1>0, <2>1 DEF FlagInv, TypeOK
  <2>5. \A u \in Tid : status'[u] # "FREE" /\ u # current' =>
          (th_sreg'[u] <=> atomics'[u] = <<>>)
    BY <1>0, <1>2, <1>3, <2>1 DEF TypeOK
  <2> QED BY <2>3, <2>4, <2>5 DEF FlagInv
<1>4. ASSUME NEW r, Halt(r) PROVE FlagInv'
  BY <1>4 DEF Halt, FlagInv, FlagFollowsSections
<1>5. CASE BootCreate
  BY <1>3, <1>5 DEF BootCreate, RunInv
<1>6. CASE StartScheduler
  <2>1. \A t \in Tid : status[t] # "FREE" =>
          (th_sreg[t] <=> atomics[t] = <<>>)
    BY <1>2, <1>6 DEF StartScheduler, RunInv
  <2> QED BY <1>0, <1>1, <1>6, <2>1 DEF StartScheduler, TypeOK
<1>7. CASE Tick
  <2>1. \A t \in Tid : status[t] # "FREE" =>
          (th_sreg'[t] <=> atomics[t] = <<>>)
    <3> SUFFICES ASSUME NEW t \in Tid, status[t] # "FREE"
                 PROVE  th_sreg'[t] <=> atomics[t] = <<>>
      OBVIOUS
    <3>1. CASE t = current
      BY <1>0, <1>2, <1>7, <3>1 DEF Tick, InterruptedFlags, TypeOK
    <3>2. CASE t # current
      <4>1. th_sreg'[t] = th_sreg[t]
        BY <1>0, <1>7, <3>2 DEF Tick, InterruptedFlags, TypeOK
      <4> QED BY <1>2, <1>7, <3>2, <4>1 DEF Tick
    <3> QED BY <3>1, <3>2
  <2> QED BY <1>0, <1>1, <1>7, <2>1 DEF Tick, TypeOK
<1>8. ASSUME NEW t \in Tid, AtomicBegin(t) PROVE FlagInv'
  <2> DEFINE new == Append(atomics[t], sreg)
  <2>1. /\ new # <<>>
        /\ \A i \in 1 .. Len(new) : new[i] <=> (i = 1)
    <3>1. atomics[t] \in Seq(BOOLEAN)
      BY <1>0 DEF TypeOK
    <3>2. sreg <=> Len(atomics[t]) = 0
      BY <1>2, <1>8, <3>1 DEF AtomicBegin, Runs
    <3>3. /\ Len(new) = Len(atomics[t]) + 1
          /\ new[Len(new)] = sreg
          /\ \A i \in 1 .. Len(atomics[t]) : new[i] = atomics[t][i]
          /\ Len(atomics[t]) \in Nat
      BY <3>1
    <3>4. \A i \in 1 .. Len(atomics[t]) : atomics[t][i] <=> (i = 1)
      BY DEF FlagInv
    <3>5. new # <<>>
      BY <3>1
    <3> HIDE DEF new
    <3>6. ASSUME NEW i \in 1 .. Len(new) PROVE new[i] <=> (i = 1)
      <4>1. CASE i = Len(new)
        BY <3>2, <3>3, <4>1
      <4>2. CASE i # Len(new)
        BY <3>3, <3>4, <4>2
      <4> QED BY <4>1, <4>2
    <3> QED BY <3>5, <3>6
  <2>2. /\ atomics' = [atomics EXCEPT ![t] = new]
        /\ sreg' = FALSE
        /\ UNCHANGED <<mode, status, th_sreg, current>>
        /\ mode = "run" /\ current = t
    BY <1>8 DEF AtomicBegin, Runs
  <2> HIDE DEF new
  <2>3. FlagFollowsSections'
    BY <1>0, <2>1, <2>2 DEF FlagFollowsSections, TypeOK
  <2> QED BY <1>0, <2>1, <2>2, <2>3 DEF FlagInv, TypeOK
<1>9. ASSUME NEW t \in Tid, AtomicEnd(t) PROVE FlagInv'
  <2> DEFINE old == atomics[t]
             new == SubSeq(old, 1, Len(old) - 1)
  <2>1. /\ \A i \in 1 .. Len(new) : new[i] <=> (i = 1)
        /\ old[Len(old)] <=> new = <<>>
    <3>1. old \in Seq(BOOLEAN) /\ old # <<>>
      BY <1>0, <1>9 DEF TypeOK, AtomicEnd
    <3>2. /\ Len(new) = Len(old) - 1
          /\ \A i \in 1 .. Len(new) : new[i] = old[i]
          /\ Len(old) \in Nat \ {0}
      <4> HIDE DEF old
      <4> QED BY <3>1, FrontEffect
    <3>3. new = <<>> <=> Len(new) = 0
      <4> HIDE DEF old
      <4>1. new \in Seq(BOOLEAN)
        BY <3>1, <3>2
      <4> HIDE DEF new
      <4> QED BY <4>1
    <3>4. \A i \in 1 .. Len(old) : old[i] <=> (i = 1)
      BY DEF FlagInv
    <3> HIDE DEF new, old
    <3> QED BY <3>2, <3>3, <3>4
  <2>2. /\ atomics' = [atomics EXCEPT ![t] = new]
        /\ sreg' = (sreg \/ old[Len(old)])
        /\ UNCHANGED <<mode, status, th_sreg, current>>
        /\ mode = "run" /\ current = t
    BY <1>9 DEF AtomicEnd, Runs, FlagAfter
  <2>3. ~sreg
    BY <1>0, <1>2, <1>9 DEF AtomicEnd, Runs
  <2> HIDE DEF new, old
  <2>4. FlagFollowsSections'
    BY <1>0, <2>1, <2>2, <2>3 DEF FlagFollowsSections, TypeOK
  <2> QED BY <1>0, <2>1, <2>2, <2>4 DEF FlagInv, TypeOK
<1>10. ASSUME NEW t \in Tid, Yield(t) PROVE FlagInv'
  <2>1. \A u \in Tid : status[u] # "FREE" =>
          (th_sreg'[u] <=> atomics[u] = <<>>)
    BY <1>0, <1>2, <1>10 DEF Yield, Runs, TypeOK
  <2> QED BY <1>0, <1>1, <1>10, <2>1 DEF Yield, Runs, TypeOK
<1>11. ASSUME NEW t \in Tid, NEW ms \in Delays, Pause(t, ms) PROVE FlagInv'
  <2> DEFINE st == [status EXCEPT ![t] = "PAUSED"]
  <2>1. \A u \in Tid : st[u] # "FREE" =>
          (th_sreg'[u] <=> atomics[u] = <<>>)
    BY <1>0, <1>2, <1>11 DEF Pause, Runs, TypeOK
  <2>2. st \in [Tid -> {"FREE", "RUNNABLE", "PAUSED"}]
    BY <1>0 DEF TypeOK
  <2> QED BY <1>1, <1>11, <2>1, <2>2 DEF Pause, Runs
<1>12. ASSUME NEW t \in Tid, ThreadExit(t) PROVE FlagInv'
  <2> DEFINE st == [status EXCEPT ![t] = "FREE"]
  <2>1. \A u \in Tid : st[u] # "FREE" =>
          (th_sreg'[u] <=> atomics[u] = <<>>)
    BY <1>0, <1>2, <1>12 DEF ThreadExit, Runs, TypeOK
  <2>2. st \in [Tid -> {"FREE", "RUNNABLE", "PAUSED"}]
    BY <1>0 DEF TypeOK
  <2> QED BY <1>1, <1>12, <2>1, <2>2 DEF ThreadExit, Runs
<1>13. ASSUME NEW t \in Tid, CreateThread(t) PROVE FlagInv'
  BY <1>3, <1>13 DEF CreateThread, Runs, RunInv, RunningIsRunnable
<1>14. ASSUME NEW t \in Tid, OutOfThreads(t) \/ StopBoard(t) PROVE FlagInv'
  BY <1>4, <1>14 DEF OutOfThreads, StopBoard
<1>15. CASE UnknownInterrupt
  BY <1>4, <1>15 DEF UnknownInterrupt
<1>16. CASE UNCHANGED vars
  BY <1>16 DEF vars, FlagInv, FlagFollowsSections
<1> QED
  BY <1>5, <1>6, <1>7, <1>8, <1>9, <1>10, <1>11, <1>12, <1>13, <1>14, <1>15,
     <1>16 DEF Next, KernelCall

\* However ATOMIC sections nest, and whatever yields or preempts in between,
\* the interrupt flag is off exactly while the running thread is in a section.
THEOREM FlagCorrect == Spec => []FlagFollowsSections
<1>1. FlagInv => FlagFollowsSections
  BY DEF FlagInv
<1> QED
  BY <1>1, InitRunInv, NextRunInv, InitFlagInv, NextFlagInv, PTL DEF Spec

-----------------------------------------------------------------------------
(* Pauses and turns *)

\* The inductive invariant behind PauseNotEarly: the wakeup time of a paused
\* thread is as far ahead of the clock as the thread has ticks to sleep.
SleepInv ==
  \A t \in Tid :
    /\ status[t] = "PAUSED" /\ owed[t] > 0 =>
         wakeup[t] = global_time + owed[t]
    /\ status[t] # "PAUSED" => owed[t] = 0

LEMMA InitSleepInv == Init => SleepInv
  BY ThreadsAssumption DEF Init, SleepInv

\* A sum of the clock and a pause that is less than Word does not wrap.
LEMMA SmallMod ==
  ASSUME NEW n \in 0 .. Word - 1
  PROVE  n % Word = n
  BY ThreadsAssumption

LEMMA NextSleepInv == RunInv /\ SleepInv /\ [Next]_vars => SleepInv'
<1> SUFFICES ASSUME RunInv, SleepInv, [Next]_vars PROVE SleepInv'
  OBVIOUS
<1>0. TypeOK /\ TypeOK'
  BY NextTypeOK DEF RunInv
<1>1. ASSUME NEW st \in [Tid -> {"FREE", "RUNNABLE", "PAUSED"}],
             Schedule(st, wakeup', th_sreg', global_time'),
             \A t \in Tid :
               /\ st[t] = "PAUSED" /\ owed'[t] > 0 =>
                    wakeup'[t] = global_time' + owed'[t]
               /\ st[t] # "PAUSED" => owed'[t] = 0
      PROVE  SleepInv'
  <2>1. \/ status' = st
        \/ /\ current' \in Tid
           /\ Ready(st[current'], wakeup'[current'], global_time')
           /\ status' = [st EXCEPT ![current'] = "RUNNABLE"]
    BY <1>1, ScheduleEffect
  <2>2. CASE status' = st
    BY <1>1, <2>2 DEF SleepInv
  <2>3. CASE /\ current' \in Tid
             /\ Ready(st[current'], wakeup'[current'], global_time')
             /\ status' = [st EXCEPT ![current'] = "RUNNABLE"]
    <3>1. owed'[current'] = 0
      BY <1>0, <1>1, <2>3 DEF Ready, TypeOK
    <3> QED BY <1>0, <1>1, <2>3, <3>1 DEF SleepInv, TypeOK
  <2> QED BY <2>1, <2>2, <2>3
<1>2. ASSUME UNCHANGED <<wakeup, global_time, owed>>, UNCHANGED status
      PROVE  SleepInv'
  BY <1>2 DEF SleepInv
<1>3. ASSUME Create PROVE SleepInv'
  BY <1>0, <1>3 DEF Create, SleepInv, TypeOK
<1>4. CASE BootCreate
  BY <1>3, <1>4 DEF BootCreate
<1>5. CASE StartScheduler
  BY <1>0, <1>1, <1>5 DEF StartScheduler, SleepInv, TypeOK
<1>6. CASE Tick
  <2>1. CASE global_time = Horizon
    BY <1>0, <1>1, <1>6, <2>1 DEF Tick, NextTime, SleepInv, TypeOK
  <2>2. CASE global_time # Horizon
    <3>1. global_time \in 0 .. Word - 1 /\ Word \in Nat
      BY <1>0, ThreadsAssumption DEF TypeOK
    <3>2. global_time # Word - 1 => global_time' = global_time + 1
      <4>1. ASSUME global_time # Word - 1
            PROVE  (global_time + 1) % Word = global_time + 1
        <5>1. global_time + 1 \in 0 .. Word - 1
          BY <3>1, <4>1
        <5> QED BY <5>1, SmallMod
      <4> QED BY <1>6, <2>2, <4>1 DEF Tick, NextTime
    <3>3. \A t \in Tid :
            owed'[t] = IF owed[t] > 0 THEN owed[t] - 1 ELSE owed[t]
      BY <1>6, <2>2 DEF Tick
    <3>4. \A t \in Tid :
            /\ status[t] = "PAUSED" /\ owed'[t] > 0 =>
                 wakeup[t] = global_time' + owed'[t]
            /\ status[t] # "PAUSED" => owed'[t] = 0
      <4> SUFFICES ASSUME NEW t \in Tid
                   PROVE  /\ status[t] = "PAUSED" /\ owed'[t] > 0 =>
                               wakeup[t] = global_time' + owed'[t]
                          /\ status[t] # "PAUSED" => owed'[t] = 0
        OBVIOUS
      <4>1. owed[t] \in Nat /\ wakeup[t] \in 0 .. Word - 1
        BY <1>0 DEF TypeOK
      <4>2. status[t] # "PAUSED" => owed'[t] = 0
        BY <3>3, <4>1 DEF SleepInv
      <4>3. ASSUME status[t] = "PAUSED", owed'[t] > 0
            PROVE  wakeup[t] = global_time' + owed'[t]
        <5>1. owed[t] > 0 /\ owed'[t] = owed[t] - 1
          BY <3>3, <4>1, <4>3
        <5>2. wakeup[t] = global_time + owed[t]
          BY <4>3, <5>1 DEF SleepInv
        <5>3. global_time # Word - 1
          BY <3>1, <4>1, <5>1, <5>2
        <5> QED BY <3>1, <3>2, <4>1, <5>1, <5>2, <5>3
      <4> QED BY <4>2, <4>3
    <3>5. /\ Schedule(status, wakeup', th_sreg', global_time')
          /\ UNCHANGED wakeup
      BY <1>6 DEF Tick
    <3>6. status \in [Tid -> {"FREE", "RUNNABLE", "PAUSED"}]
      BY <1>0 DEF TypeOK
    <3> QED BY <1>1, <3>4, <3>5, <3>6
  <2> QED BY <2>1, <2>2
<1>7. ASSUME NEW t \in Tid, AtomicBegin(t) \/ AtomicEnd(t) PROVE SleepInv'
  BY <1>2, <1>7 DEF AtomicBegin, AtomicEnd
<1>8. ASSUME NEW t \in Tid, Yield(t) PROVE SleepInv'
  BY <1>0, <1>1, <1>8 DEF Yield, SleepInv, TypeOK
<1>9. ASSUME NEW t \in Tid, NEW ms \in Delays, Pause(t, ms) PROVE SleepInv'
  <2> DEFINE st == [status EXCEPT ![t] = "PAUSED"]
  <2>1. global_time + ms \in Nat
    BY <1>0, ThreadsAssumption DEF TypeOK
  <2>2. global_time + ms < Word => WakeupTime(ms) = global_time + ms
    <3>1. ASSUME global_time + ms < Word PROVE global_time + ms \in 0 .. Word - 1
      BY <2>1, <3>1, ThreadsAssumption
    <3> QED BY <3>1, SmallMod DEF WakeupTime
  <2>3. st \in [Tid -> {"FREE", "RUNNABLE", "PAUSED"}]
    BY <1>0 DEF TypeOK
  <2>4. \A u \in Tid :
          /\ st[u] = "PAUSED" /\ owed'[u] > 0 =>
               wakeup'[u] = global_time' + owed'[u]
          /\ st[u] # "PAUSED" => owed'[u] = 0
    BY <1>0, <1>9, <2>2 DEF Pause, SleepInv, TypeOK
  <2>6. Schedule(st, wakeup', th_sreg', global_time')
    BY <1>9 DEF Pause
  <2> HIDE DEF st
  <2> QED BY <1>1, <2>3, <2>4, <2>6
<1>10. ASSUME NEW t \in Tid, ThreadExit(t) PROVE SleepInv'
  <2> DEFINE st == [status EXCEPT ![t] = "FREE"]
  <2>1. owed[t] = 0
    BY <1>10 DEF ThreadExit, Runs, RunInv, RunningIsRunnable, SleepInv, NULL
  <2>2. st \in [Tid -> {"FREE", "RUNNABLE", "PAUSED"}]
    BY <1>0 DEF TypeOK
  <2>3. \A u \in Tid :
          /\ st[u] = "PAUSED" /\ owed'[u] > 0 =>
               wakeup'[u] = global_time' + owed'[u]
          /\ st[u] # "PAUSED" => owed'[u] = 0
    BY <1>0, <1>10, <2>1 DEF ThreadExit, SleepInv, TypeOK
  <2>4. Schedule(st, wakeup', th_sreg', global_time')
    BY <1>10 DEF ThreadExit
  <2> HIDE DEF st
  <2> QED BY <1>1, <2>2, <2>3, <2>4
<1>11. ASSUME NEW t \in Tid, CreateThread(t) PROVE SleepInv'
  BY <1>3, <1>11 DEF CreateThread
<1>12. ASSUME NEW t \in Tid, OutOfThreads(t) \/ StopBoard(t) PROVE SleepInv'
  BY <1>2, <1>12 DEF OutOfThreads, StopBoard, Halt
<1>13. CASE UnknownInterrupt
  BY <1>2, <1>13 DEF UnknownInterrupt, Halt
<1>14. CASE UNCHANGED vars
  BY <1>2, <1>14 DEF vars
<1> QED
  BY <1>4, <1>5, <1>6, <1>7, <1>8, <1>9, <1>10, <1>11, <1>12, <1>13, <1>14
     DEF Next, KernelCall

\* A thread that pauses does not run again before as many ticks have passed as
\* it asked for, unless the clock wraps meanwhile.
THEOREM PauseLastsLongEnough == Spec => []PauseNotEarly
<1>1. RunInv /\ SleepInv => PauseNotEarly
  BY DEF RunInv, RunningIsRunnable, SleepInv, PauseNotEarly, TypeOK
<1>2. RunInv /\ SleepInv /\ [Next]_vars => SleepInv'
  BY NextSleepInv
<1> QED
  BY <1>1, <1>2, InitRunInv, NextRunInv, InitSleepInv, PTL DEF Spec

\* Two slots are never equally far from a third.
LEMMA OffsetInjective ==
  ASSUME NEW from \in Tid, NEW t \in Tid, NEW u \in Tid,
         Offset(from, t) = Offset(from, u)
  PROVE  t = u
  BY ThreadsAssumption DEF Offset

\* A slot passed on the way from one slot to another brings the other closer.
LEMMA OffsetShrinks ==
  ASSUME NEW from \in Tid, NEW t \in Tid, NEW u \in Tid,
         Offset(from, u) < Offset(from, t)
  PROVE  Offset(u, t) < Offset(from, t)
  BY ThreadsAssumption DEF Offset

\* A call of schedule() for the current thread passes over no ready thread.
LEMMA ScheduleIsFair ==
  ASSUME TypeOK, current # NULL,
         NEW st \in [Tid -> {"FREE", "RUNNABLE", "PAUSED"}],
         NEW wake, NEW flags, NEW now, Schedule(st, wake, flags, now),
         NEW t \in Tid, Ready(st[t], wake[t], now)
  PROVE  \/ current' = t
         \/ current' # NULL /\ Offset(current', t) < Offset(current, t)
<1>1. /\ current' \in Tid
      /\ Offset(ScanStart, current') <= Offset(ScanStart, t)
  BY ScheduleEffect
<1>2. current \in Tid /\ ScanStart = current
  BY DEF TypeOK, ScanStart
<1>3. CASE Offset(current, current') = Offset(current, t)
  BY <1>1, <1>2, <1>3, OffsetInjective
<1>4. CASE Offset(current, current') < Offset(current, t)
  BY <1>1, <1>2, <1>4, OffsetShrinks
<1>5. /\ Offset(current, current') \in Int
      /\ Offset(current, t) \in Int
  BY <1>1, <1>2, ThreadsAssumption DEF Offset
<1> QED BY <1>1, <1>2, <1>3, <1>4, <1>5

\* The step that NoBypass is about.
Passes(t) ==
  (/\ mode = "run" /\ current # NULL /\ t # current
   /\ Ready(status[t], wakeup[t], global_time)
   /\ current' # current
   /\ global_time <= global_time')
  => \/ current' = t
     \/ /\ current' # NULL
        /\ Offset(current', t) < Offset(current, t)

LEMMA NextIsFair ==
  ASSUME RunInv, [Next]_vars, NEW t \in Tid
  PROVE  Passes(t)
<1> SUFFICES ASSUME mode = "run", current # NULL, t # current,
                    Ready(status[t], wakeup[t], global_time),
                    current' # current,
                    global_time <= global_time'
             PROVE  \/ current' = t
                    \/ /\ current' # NULL
                       /\ Offset(current', t) < Offset(current, t)
  BY DEF Passes
<1>0. TypeOK
  BY DEF RunInv
<1>1. CASE Tick
  <2>1. global_time' \in Nat
    BY NextTypeOK DEF RunInv, TypeOK
  <2>2. Ready(status[t], wakeup[t], global_time')
    BY <1>0, <2>1 DEF Ready, TypeOK
  <2>3. status \in [Tid -> {"FREE", "RUNNABLE", "PAUSED"}]
    BY <1>0 DEF TypeOK
  <2> QED BY <1>0, <1>1, <2>2, <2>3, ScheduleIsFair DEF Tick
<1>2. ASSUME NEW u \in Tid, Yield(u)
      PROVE  \/ current' = t
             \/ current' # NULL /\ Offset(current', t) < Offset(current, t)
  BY <1>0, <1>2, ScheduleIsFair DEF Yield, TypeOK
<1>3. ASSUME NEW u \in Tid, NEW ms \in Delays, Pause(u, ms)
      PROVE  \/ current' = t
             \/ current' # NULL /\ Offset(current', t) < Offset(current, t)
  <2> DEFINE st == [status EXCEPT ![u] = "PAUSED"]
  <2>1. /\ st \in [Tid -> {"FREE", "RUNNABLE", "PAUSED"}]
        /\ Ready(st[t], wakeup'[t], global_time)
    BY <1>0, <1>3 DEF Pause, Runs, TypeOK
  <2>2. Schedule(st, wakeup', th_sreg', global_time)
    BY <1>3 DEF Pause
  <2> HIDE DEF st
  <2> QED BY <1>0, <2>1, <2>2, ScheduleIsFair
<1>4. ASSUME NEW u \in Tid, ThreadExit(u)
      PROVE  \/ current' = t
             \/ current' # NULL /\ Offset(current', t) < Offset(current, t)
  <2> DEFINE st == [status EXCEPT ![u] = "FREE"]
  <2>1. /\ st \in [Tid -> {"FREE", "RUNNABLE", "PAUSED"}]
        /\ Ready(st[t], wakeup[t], global_time)
    BY <1>0, <1>4 DEF ThreadExit, Runs, TypeOK
  <2>2. Schedule(st, wakeup, th_sreg', global_time)
    BY <1>4 DEF ThreadExit
  <2> HIDE DEF st
  <2> QED BY <1>0, <2>1, <2>2, ScheduleIsFair
<1> QED
  BY <1>1, <1>2, <1>3, <1>4
     DEF Next, KernelCall, BootCreate, StartScheduler, AtomicBegin, AtomicEnd,
         CreateThread, Create, OutOfThreads, StopBoard, UnknownInterrupt, Halt,
         vars

\* A ready thread comes closer to its turn at every switch, so at most
\* MaxThreads - 1 others are resumed before it, unless the clock wraps.
THEOREM RoundRobin == Spec => NoBypass
<1>1. RunInv /\ [Next]_vars => \A t \in Tid : Passes(t)
  BY NextIsFair
<1> QED
  BY <1>1, InitRunInv, NextRunInv, PTL DEF Spec, NoBypass, Passes

-----------------------------------------------------------------------------
(* Locks *)

HIDE DEF Tid, NULL

\* Every step of Locks is a step of Threads or leaves the scheduler alone.
LEMMA LocksNextIsNext == [LocksNext]_allVars => [Next]_vars
<1> SUFFICES ASSUME [LocksNext]_allVars PROVE [Next]_vars
  OBVIOUS
<1>1. ASSUME NEW t \in Tid, LockCall(t) PROVE [Next]_vars
  BY <1>1 DEF LockCall, Enter, TooManyAcquires, Release, ReleaseUnheld,
              LockPanic, Free, StopBoard, Next
<1>2. ASSUME NEW t \in Tid, CallStep(t) PROVE [Next]_vars
  BY <1>2 DEF CallStep, IncLock, Refused, TryFails, AcquireYields, Next,
              KernelCall
<1>3. ASSUME NEW t \in Tid, OtherCall(t) PROVE [Next]_vars
  BY <1>3 DEF OtherCall, Next
<1>4. ASSUME NEW t \in Tid, OutOfThreads(t) \/ StopBoardElsewhere(t)
      PROVE  [Next]_vars
  BY <1>4 DEF StopBoardElsewhere, LockPanic, StopBoard, Next
<1>5. CASE BootCreate \/ StartScheduler \/ Tick \/ UnknownInterrupt
  BY <1>5 DEF Next
<1>6. CASE UNCHANGED allVars
  BY <1>6 DEF allVars
<1> QED
  BY <1>1, <1>2, <1>3, <1>4, <1>5, <1>6 DEF LocksNext

\* Threads with locks run under the same scheduler: whatever Threads promises
\* of its behaviours holds with the locks on top.
THEOREM LocksImplementThreads == LocksSpec => Spec
<1>1. LocksInit => Init
  BY DEF LocksInit
<1> QED BY <1>1, LocksNextIsNext, PTL DEF LocksSpec, Spec

-----------------------------------------------------------------------------
(* The inductive invariant *)

\* A thread inside acquire() or try_acquire() wants a lock, the counters tell
\* the truth, and the check a thread has made of a lock it owns still holds.
\* The last is why the check may be made outside the section that counts:
\* only the owner could have counted further, and the owner is the thread that
\* is still in its call.
LocksInv ==
  /\ LocksTypeOK
  /\ \A t \in Tid : pc[t] # "none" => want[t] \in Lock
  /\ MutualExclusion
  /\ LockMatchesHolders
  /\ OwnedIffLocked
  /\ CheckStaysGood

LEMMA InitLocksInv == LocksInit => LocksInv
<1> SUFFICES ASSUME LocksInit PROVE LocksInv
  OBVIOUS
<1>1. TypeOK
  BY InitTypeOK DEF LocksInit
<1>2. LocksTypeOK
  BY <1>1, LocksAssumption DEF LocksInit, LocksTypeOK
<1> QED
  BY <1>2, LocksAssumption
     DEF LocksInit, LocksInv, MutualExclusion, LockMatchesHolders,
         OwnedIffLocked, CheckStaysGood

\* Counting up to the limit does not wrap.
LEMMA IncrementedEffect ==
  ASSUME NEW n \in 0 .. LockMax - 1
  PROVE  Incremented(n) = n + 1
  BY LocksAssumption DEF Incremented

\* When inc_lock() takes a lock, nobody else holds it and there is room in
\* the counter.
LEMMA TakingIsSafe ==
  ASSUME LocksInv, NEW t \in Tid, IncLock(t)
  PROVE  /\ want[t] \in Lock
         /\ \A u \in Tid \ {t} : held[u][want[t]] = 0
         /\ held[t][want[t]] = locked[want[t]]
         /\ locked[want[t]] \in 0 .. LockMax - 1
<1> DEFINE k == want[t]
<1>1. k \in Lock /\ mode # "halt" /\ Takes(t, k)
  BY DEF LocksInv, IncLock, Runs
<1>2. \A u \in Tid : held[u][k] = IF owner[k] = u THEN locked[k] ELSE 0
  BY <1>1 DEF LocksInv, LockMatchesHolders
<1>3. locked[k] \in 0 .. LockMax /\ LockMax \in Nat \ {0}
  BY <1>1, LocksAssumption DEF LocksInv, LocksTypeOK
<1>4. CASE locked[k] = 0
  BY <1>1, <1>2, <1>3, <1>4
<1>5. CASE locked[k] # 0
  <2>1. owner[k] = t
    BY <1>1, <1>5 DEF Takes
  <2>2. locked[k] < LockMax
    BY <2>1 DEF LocksInv, CheckStaysGood, IncLock
  <2> QED BY <1>1, <1>2, <1>3, <2>1, <2>2
<1> QED BY <1>4, <1>5

LEMMA IncLockKeepsInv ==
  ASSUME LocksInv, TypeOK', NEW t \in Tid, IncLock(t)
  PROVE  LocksInv'
<1> DEFINE k == want[t]
           n == locked[k] + 1
<1>1. /\ k \in Lock
      /\ \A u \in Tid \ {t} : held[u][k] = 0
      /\ held[t][k] = locked[k]
      /\ locked[k] \in 0 .. LockMax - 1
  BY TakingIsSafe
<1>2. /\ locked' = [locked EXCEPT ![k] = n]
      /\ owner' = [owner EXCEPT ![k] = t]
      /\ held' = [held EXCEPT ![t] = [held[t] EXCEPT ![k] = n]]
      /\ pc' = [pc EXCEPT ![t] = "none"]
      /\ want' = [want EXCEPT ![t] = NoLock]
      /\ mode' = mode
  BY <1>1, IncrementedEffect DEF IncLock, vars
<1>3. n \in 1 .. LockMax /\ t # NULL
  BY <1>1, LocksAssumption DEF Tid, NULL
<1> HIDE DEF k, n
<1> USE DEF LocksInv, LocksTypeOK
<1>4. LocksTypeOK'
  BY <1>1, <1>2, <1>3
<1>5. \A u \in Tid : pc'[u] # "none" => want'[u] \in Lock
  BY <1>1, <1>2
<1>6. MutualExclusion'
  BY <1>1, <1>2 DEF MutualExclusion
<1>7. LockMatchesHolders'
  <2>1. mode # "halt"
    BY DEF IncLock, Runs
  <2>2. \A u \in Tid, l \in Lock :
          held[u][l] = IF owner[l] = u THEN locked[l] ELSE 0
    BY <2>1 DEF LockMatchesHolders
  <2>3. \A u \in Tid, l \in Lock :
          held'[u][l] = IF owner'[l] = u THEN locked'[l] ELSE 0
    <3> SUFFICES ASSUME NEW u \in Tid, NEW l \in Lock
                 PROVE  held'[u][l] = IF owner'[l] = u THEN locked'[l] ELSE 0
      OBVIOUS
    <3>1. CASE l = k /\ u = t
      BY <1>1, <1>2, <3>1
    <3>2. CASE l = k /\ u # t
      BY <1>1, <1>2, <3>2
    <3>3. CASE l # k
      BY <1>1, <1>2, <2>2, <3>3
    <3> QED BY <3>1, <3>2, <3>3
  <2> QED BY <2>3 DEF LockMatchesHolders
<1>8. OwnedIffLocked'
  BY <1>1, <1>2, <1>3 DEF OwnedIffLocked
<1>9. CheckStaysGood'
  BY <1>1, <1>2 DEF CheckStaysGood
<1> QED BY <1>4, <1>5, <1>6, <1>7, <1>8, <1>9

LEMMA ReleaseKeepsInv ==
  ASSUME LocksInv, TypeOK', NEW t \in Tid, NEW k \in Lock, Release(t, k)
  PROVE  LocksInv'
<1> DEFINE n == locked[k] - 1
<1>1. /\ mode # "halt" /\ mode' = mode
      /\ pc[t] = "none"
      /\ owner[k] = t
      /\ n \in 0 .. LockMax - 1
      /\ t # NULL
  BY LocksAssumption DEF Release, Free, Runs, IsHeld, vars, Tid, NULL,
                         LocksInv, LocksTypeOK
<1>2. \A u \in Tid, l \in Lock :
        held[u][l] = IF owner[l] = u THEN locked[l] ELSE 0
  BY <1>1 DEF LocksInv, LockMatchesHolders
<1>3. /\ locked' = [locked EXCEPT ![k] = n]
      /\ owner' = [owner EXCEPT ![k] = IF n = 0 THEN NULL ELSE t]
      /\ held' = [held EXCEPT ![t] = [held[t] EXCEPT ![k] = n]]
      /\ UNCHANGED <<pc, want>>
  <2>1. locked[k] \in 0 .. LockMax /\ held[t][k] = locked[k]
    BY <1>1, <1>2 DEF LocksInv, LocksTypeOK
  <2>2. OwnerAfterRelease(k) = IF n = 0 THEN NULL ELSE t
    BY <1>1, <2>1, LocksAssumption DEF OwnerAfterRelease
  <2> QED BY <2>1, <2>2 DEF Release
<1> HIDE DEF n
<1> USE DEF LocksInv, LocksTypeOK
<1>4. LocksTypeOK'
  BY <1>1, <1>3, LocksAssumption DEF NULL
<1>5. \A u \in Tid : pc'[u] # "none" => want'[u] \in Lock
  BY <1>3
<1>6. MutualExclusion'
  BY <1>1, <1>2, <1>3 DEF MutualExclusion
<1>7. LockMatchesHolders'
  <2> SUFFICES ASSUME NEW u \in Tid, NEW l \in Lock
               PROVE  held'[u][l] = IF owner'[l] = u THEN locked'[l] ELSE 0
    BY DEF LockMatchesHolders
  <2>1. CASE l = k /\ u = t
    BY <1>1, <1>3, <2>1
  <2>2. CASE l = k /\ u # t
    BY <1>1, <1>2, <1>3, <2>2
  <2>3. CASE l # k
    BY <1>2, <1>3, <2>3
  <2> QED BY <2>1, <2>2, <2>3
<1>8. OwnedIffLocked'
  BY <1>1, <1>3 DEF OwnedIffLocked
<1>9. CheckStaysGood'
  <2> SUFFICES ASSUME NEW u \in Tid, pc'[u] # "none", owner'[want'[u]] = u
               PROVE  locked'[want'[u]] < LockMax
    BY DEF CheckStaysGood
  <2>1. u # t /\ want'[u] = want[u] /\ want[u] \in Lock /\ u # NULL
    BY <1>1, <1>3 DEF Tid, NULL
  <2>2. want[u] # k
    BY <1>1, <1>3, <2>1
  <2> QED BY <1>3, <2>1, <2>2 DEF CheckStaysGood
<1> QED BY <1>4, <1>5, <1>6, <1>7, <1>8, <1>9

\* Halting keeps the promises about the counters, and nothing is promised of
\* the holders from then on.
LEMMA HaltKeepsInv ==
  ASSUME LocksInv, TypeOK', NEW r, LockPanic(r)
  PROVE  LocksInv'
<1>1. /\ mode' = "halt"
      /\ \A k \in Lock :
           \/ locked'[k] = 0 /\ owner'[k] = NULL
           \/ locked'[k] = locked[k] /\ owner'[k] = owner[k]
      /\ UNCHANGED <<pc, want, held>>
  BY DEF LockPanic, Halt, SmashAll
<1>2. LocksTypeOK'
  BY LocksAssumption DEF LockPanic, SmashAll, LocksInv, LocksTypeOK
<1>3. CheckStaysGood'
  BY <1>1 DEF CheckStaysGood, LocksInv, Tid, NULL
<1> QED
  BY <1>1, <1>2, <1>3 DEF LocksInv, MutualExclusion, LockMatchesHolders,
                          OwnedIffLocked

\* A step that leaves the locks alone and does not revive a halted board.
LEMMA SchedulerKeepsInv ==
  ASSUME LocksInv, TypeOK', UNCHANGED lockVars, mode' = "halt" <=> mode = "halt"
  PROVE  LocksInv'
  BY DEF LocksInv, LocksTypeOK, lockVars, MutualExclusion, LockMatchesHolders,
         OwnedIffLocked, CheckStaysGood

LEMMA NextLocksInv == LocksInv /\ [LocksNext]_allVars => LocksInv'
<1> SUFFICES ASSUME LocksInv, [LocksNext]_allVars PROVE LocksInv'
  OBVIOUS
<1>0. TypeOK'
  BY LocksNextIsNext, NextTypeOK DEF LocksInv, LocksTypeOK
<1>1. ASSUME NEW t \in Tid, NEW k \in Lock, NEW how \in {"acquire", "try"},
             Enter(t, k, how)
      PROVE  LocksInv'
  BY <1>0, <1>1
     DEF Enter, BelowLimit, vars, LocksInv, LocksTypeOK, MutualExclusion,
         LockMatchesHolders, OwnedIffLocked, CheckStaysGood
<1>2. ASSUME NEW t \in Tid, NEW k \in Lock,
             TooManyAcquires(t, k) \/ ReleaseUnheld(t, k)
      PROVE  LocksInv'
  BY <1>0, <1>2, HaltKeepsInv DEF TooManyAcquires, ReleaseUnheld
<1>3. ASSUME NEW t \in Tid, NEW k \in Lock, Release(t, k) PROVE LocksInv'
  BY <1>0, <1>3, ReleaseKeepsInv
<1>4. ASSUME NEW t \in Tid, IncLock(t) PROVE LocksInv'
  BY <1>0, <1>4, IncLockKeepsInv
<1>5. ASSUME NEW t \in Tid, Refused(t) PROVE LocksInv'
  BY <1>0, <1>5
     DEF Refused, vars, LocksInv, LocksTypeOK, MutualExclusion,
         LockMatchesHolders, OwnedIffLocked, CheckStaysGood
<1>6. ASSUME NEW t \in Tid, TryFails(t) PROVE LocksInv'
  BY <1>0, <1>6
     DEF TryFails, vars, LocksInv, LocksTypeOK, MutualExclusion,
         LockMatchesHolders, OwnedIffLocked, CheckStaysGood
<1>7. ASSUME NEW t \in Tid, AcquireYields(t) PROVE LocksInv'
  BY <1>0, <1>7
     DEF AcquireYields, Yield, Runs, LocksInv, LocksTypeOK, MutualExclusion,
         LockMatchesHolders, OwnedIffLocked, CheckStaysGood
<1>8. ASSUME NEW t \in Tid, OtherCall(t) PROVE LocksInv'
  BY <1>0, <1>8, SchedulerKeepsInv
     DEF OtherCall, KernelCall, AtomicBegin, AtomicEnd, Yield, Pause,
         CreateThread, Create, ThreadExit
<1>9. ASSUME NEW t \in Tid, OutOfThreads(t) /\ SmashAll PROVE LocksInv'
  BY <1>0, <1>9, HaltKeepsInv DEF OutOfThreads, LockPanic
<1>10. ASSUME NEW t \in Tid, StopBoardElsewhere(t) PROVE LocksInv'
  BY <1>0, <1>10, HaltKeepsInv DEF StopBoardElsewhere
<1>11. CASE (BootCreate \/ StartScheduler \/ Tick) /\ UNCHANGED lockVars
  BY <1>0, <1>11, SchedulerKeepsInv DEF BootCreate, Create, StartScheduler, Tick
<1>12. CASE UnknownInterrupt /\ SmashAll
  BY <1>0, <1>12, HaltKeepsInv DEF UnknownInterrupt, LockPanic
<1>13. CASE UNCHANGED allVars
  BY <1>0, <1>13, SchedulerKeepsInv DEF allVars, vars
<1> QED
  BY <1>1, <1>2, <1>3, <1>4, <1>5, <1>6, <1>7, <1>8, <1>9, <1>10, <1>11,
     <1>12, <1>13 DEF LocksNext, LockCall, CallStep

LEMMA LocksInvariant == LocksSpec => []LocksInv
  BY InitLocksInv, NextLocksInv, PTL DEF LocksSpec

\* The types of the locks and of the threads in them.
THEOREM LocksTypeCorrect == LocksSpec => []LocksTypeOK
<1>1. LocksInv => LocksTypeOK
  BY DEF LocksInv
<1> QED BY <1>1, LocksInvariant, PTL

\* No two threads have acquired the same lock, however acquire() is preempted.
THEOREM Exclusion == LocksSpec => []MutualExclusion
<1>1. LocksInv => MutualExclusion
  BY DEF LocksInv
<1> QED BY <1>1, LocksInvariant, PTL

\* The counter of a lock is what its owner owes, so releases by a holder never
\* panic and the last one frees the lock.
THEOREM CountersAreTrue == LocksSpec => []LockMatchesHolders
<1>1. LocksInv => LockMatchesHolders
  BY DEF LocksInv
<1> QED BY <1>1, LocksInvariant, PTL

\* The limit checked at the head of acquire() still holds when inc_lock()
\* counts, so the counter never wraps to zero under a holder.
THEOREM NoCounterOverflow == LocksSpec => []CheckStaysGood
<1>1. LocksInv => CheckStaysGood
  BY DEF LocksInv
<1> QED BY <1>1, LocksInvariant, PTL

-----------------------------------------------------------------------------
(* The locks implement the recursive mutex of lock.h *)

LEMMA InitIsMutexInit == LocksInit => Mutex!Init
  BY DEF LocksInit, Mutex!Init

\* inc_lock() is the taking, release() the giving back; no other step shows.
LEMMA StepIsMutexStep ==
  LocksInv /\ [LocksNext]_allVars => [Mutex!Next]_held
<1> SUFFICES ASSUME LocksInv, [LocksNext]_allVars
             PROVE  Mutex!Next \/ UNCHANGED held
  OBVIOUS
<1>1. ASSUME NEW t \in Tid, IncLock(t) PROVE Mutex!Next
  <2>1. Mutex!Take(t, want[t])
    <3>1. /\ \A u \in Tid \ {t} : held[u][want[t]] = 0
          /\ held[t][want[t]] < LockMax
      BY <1>1, TakingIsSafe, LocksAssumption
    <3>2. held' = [held EXCEPT ![t][want[t]] = @ + 1]
      BY <1>1 DEF IncLock
    <3> QED BY <3>1, <3>2 DEF Mutex!Take
  <2> QED BY <1>1, <2>1, TakingIsSafe DEF Mutex!Next
<1>2. ASSUME NEW t \in Tid, NEW k \in Lock, Release(t, k) PROVE Mutex!Next
  <2>1. held[t][k] = locked[k] /\ locked[k] \in Nat \ {0}
    BY <1>2 DEF Release, Free, Runs, IsHeld, LocksInv, LockMatchesHolders,
                LocksTypeOK
  <2>2. Mutex!Give(t, k)
    BY <1>2, <2>1 DEF Release, Mutex!Give
  <2> QED BY <2>2 DEF Mutex!Next
<1>3. ASSUME NEW t \in Tid, NEW k \in Lock,
             \/ \E how \in {"acquire", "try"} : Enter(t, k, how)
             \/ TooManyAcquires(t, k)
             \/ ReleaseUnheld(t, k)
      PROVE  UNCHANGED held
  BY <1>3 DEF Enter, TooManyAcquires, ReleaseUnheld, LockPanic, SmashAll
<1>4. ASSUME NEW t \in Tid, Refused(t) \/ TryFails(t) \/ AcquireYields(t)
      PROVE  UNCHANGED held
  BY <1>4 DEF Refused, TryFails, AcquireYields
<1>5. ASSUME NEW t \in Tid,
             \/ OtherCall(t)
             \/ OutOfThreads(t) /\ SmashAll
             \/ StopBoardElsewhere(t)
      PROVE  UNCHANGED held
  BY <1>5 DEF OtherCall, StopBoardElsewhere, LockPanic, SmashAll, lockVars
<1>6. CASE \/ (BootCreate \/ StartScheduler \/ Tick) /\ UNCHANGED lockVars
           \/ UnknownInterrupt /\ SmashAll
  BY <1>6 DEF SmashAll, lockVars
<1>7. CASE UNCHANGED allVars
  BY <1>7 DEF allVars, lockVars
<1> QED
  BY <1>1, <1>2, <1>3, <1>4, <1>5, <1>6, <1>7 DEF LocksNext, LockCall, CallStep

\* acquire(), try_acquire() and release() do what lock.h says of them: to the
\* callers they are a recursive mutex.
THEOREM LocksImplementMutex == LocksSpec => ImplementsMutex
  BY InitIsMutexInit, StepIsMutexStep, LocksInvariant, PTL
     DEF LocksSpec, ImplementsMutex, Mutex!Spec
=============================================================================
