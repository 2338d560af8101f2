----------------------------- MODULE Actuators -----------------------------
(***************************************************************************)
(* Motors and servos: drivers/motor.c, drivers/servo.c, the registers they *)
(* write in xilinx/fpga/happyio.v, and halt() of kern/thread.c, which must *)
(* stop them whatever the threads were doing.                              *)
(*                                                                         *)
(* A register write is one step.  The FPGA has one latch for the low byte  *)
(* of whichever servo position is being written.                           *)
(***************************************************************************)
EXTENDS DriverLocks

CONSTANTS
  Units,        \* motors and servos are numbered 0 .. Units - 1 (6 in the code)
  Base,         \* number of values of a byte (256)
  Positions,    \* servo positions asked for
  Velocities    \* motor velocities asked for

ActuatorsAssumption ==
  /\ Units \in Nat \ {0}
  /\ Base \in Nat \ {0}
  /\ Positions \subseteq 1 .. 4 * Base - 1
  /\ Velocities \subseteq Int

VARIABLES
  job,          \* the call a thread is in: the unit and the value asked for
  ctl, vel,     \* the registers of the motors
  tempLo,       \* the latch for the low byte of a servo position
  srv,          \* the position register of each servo and its enable bit
  index,        \* the loop counter of halt()
  motorAsked,   \* history: what the last motor call asked of each motor
  servoAsked    \* history: what the last servo call asked of each servo

vars == <<halter, holder, pc, job, ctl, vel, tempLo, srv, index,
          motorAsked, servoAsked>>

Unit == 0 .. Units - 1
NoJob == [unit |-> 0, value |-> 0]
Off == [position |-> 0, enabled |-> FALSE]
NothingAsked == [m \in Unit |-> [ctl |-> "COAST", vel |-> 0]]
At(p) == [position |-> p, enabled |-> TRUE]

\* The direction written to the control register.
Direction(v) == IF v > 0 THEN "FWD" ELSE IF v < 0 THEN "REV" ELSE "COAST"

\* Mutant: the speed register is wider than a byte.
SpeedUncut(v) == IF v < 0 THEN -v ELSE v

\* The byte written to the speed register.
Speed(v) == (IF v < 0 THEN -v ELSE v) % Base

TypeOK ==
  /\ halter \in Thread \cup {Nobody}
  /\ holder \in [{"motor", "servo"} -> Thread \cup {Nobody}]
  /\ ctl \in [Unit -> {"COAST", "FWD", "REV", "BRAKE"}]
  /\ vel \in [Unit -> 0 .. Base - 1]
  /\ tempLo \in 0 .. Base - 1
  /\ srv \in [Unit -> [position : 0 .. 4 * Base - 1, enabled : BOOLEAN]]
  /\ index \in 0 .. Units

\* The FPGA has been configured: motors coast, servos are off.
Init ==
  /\ halter = Nobody
  /\ holder = [l \in {"motor", "servo"} |-> Nobody]
  /\ pc = [t \in Thread |-> "idle"]
  /\ job = [t \in Thread |-> NoJob]
  /\ ctl = [m \in Unit |-> "COAST"]
  /\ vel = [m \in Unit |-> 0]
  /\ tempLo = 0
  /\ srv = [s \in Unit |-> Off]
  /\ index = 0
  /\ motorAsked = NothingAsked
  /\ servoAsked = [s \in Unit |-> Off]

-----------------------------------------------------------------------------
(* Driver calls *)

\* A thread calls motor_set_vel(), motor_brake(), servo_set_pos_raw() or
\* servo_disable().
Call(t, entry, unit, value) ==
  /\ Goes(t, "idle", entry)
  /\ job' = [job EXCEPT ![t] = [unit |-> unit, value |-> value]]
  /\ UNCHANGED <<halter, holder, ctl, vel, tempLo, srv, index,
                 motorAsked, servoAsked>>

VelLock(t) ==
  /\ Goes(t, "vel_lock", "vel_ctl")
  /\ Takes(t, "motor")
  /\ motorAsked' = [motorAsked EXCEPT ![job[t].unit] =
                      [ctl |-> Direction(job[t].value),
                       vel |-> Speed(job[t].value)]]
  /\ UNCHANGED <<halter, job, ctl, vel, tempLo, srv, index, servoAsked>>

VelCtl(t) ==
  /\ Goes(t, "vel_ctl", "vel_vel")
  /\ ctl' = [ctl EXCEPT ![job[t].unit] = Direction(job[t].value)]
  /\ UNCHANGED <<halter, holder, job, vel, tempLo, srv, index,
                 motorAsked, servoAsked>>

VelVel(t) ==
  /\ Goes(t, "vel_vel", "motor_unlock")
  /\ vel' = [vel EXCEPT ![job[t].unit] = Speed(job[t].value)]
  /\ UNCHANGED <<halter, holder, job, ctl, tempLo, srv, index,
                 motorAsked, servoAsked>>

BrakeLock(t) ==
  /\ Goes(t, "brake_lock", "brake_ctl")
  /\ Takes(t, "motor")
  /\ motorAsked' = [motorAsked EXCEPT ![job[t].unit].ctl = "BRAKE"]
  /\ UNCHANGED <<halter, job, ctl, vel, tempLo, srv, index, servoAsked>>

BrakeCtl(t) ==
  /\ Goes(t, "brake_ctl", "motor_unlock")
  /\ ctl' = [ctl EXCEPT ![job[t].unit] = "BRAKE"]
  /\ UNCHANGED <<halter, holder, job, vel, tempLo, srv, index,
                 motorAsked, servoAsked>>

MotorUnlock(t) ==
  /\ Goes(t, "motor_unlock", "idle")
  /\ Gives(t, "motor")
  /\ job' = [job EXCEPT ![t] = NoJob]
  /\ UNCHANGED <<halter, ctl, vel, tempLo, srv, index,
                 motorAsked, servoAsked>>

\* What a servo call asks for; servo_disable() writes zeros.
Asked(t) == IF job[t].value = 0 THEN Off ELSE At(job[t].value)

ServoLock(t) ==
  /\ Goes(t, "servo_lock", "servo_lo")
  /\ Takes(t, "servo")
  /\ servoAsked' = [servoAsked EXCEPT ![job[t].unit] = Asked(t)]
  /\ UNCHANGED <<halter, job, ctl, vel, tempLo, srv, index, motorAsked>>

ServoLo(t) ==
  /\ Goes(t, "servo_lo", "servo_hi")
  /\ tempLo' = job[t].value % Base
  /\ UNCHANGED <<halter, holder, job, ctl, vel, srv, index,
                 motorAsked, servoAsked>>

\* Writing the high byte moves both bytes and the enable bit to the servo.
ServoHi(t) ==
  /\ Goes(t, "servo_hi", "servo_unlock")
  /\ srv' = [srv EXCEPT ![job[t].unit] =
               [position |-> ((job[t].value \div Base) % 4) * Base + tempLo,
                enabled  |-> Asked(t).enabled]]
  /\ UNCHANGED <<halter, holder, job, ctl, vel, tempLo, index,
                 motorAsked, servoAsked>>

ServoUnlock(t) ==
  /\ Goes(t, "servo_unlock", "idle")
  /\ Gives(t, "servo")
  /\ job' = [job EXCEPT ![t] = NoJob]
  /\ UNCHANGED <<halter, ctl, vel, tempLo, srv, index,
                 motorAsked, servoAsked>>

-----------------------------------------------------------------------------
(* halt() *)

\* The locks halt() takes from whoever has them.
SmashedLocks == {"motor", "servo"}

\* halt() turns interrupts off, wherever the thread and all others are, and
\* smashes the locks.
HaltCalled(t) ==
  /\ halter = Nobody
  /\ halter' = t
  /\ holder' = [l \in {"motor", "servo"} |->
                  IF l \in SmashedLocks THEN Nobody ELSE holder[l]]
  /\ pc' = [pc EXCEPT ![t] = "halt_motor"]
  /\ index' = 0
  /\ motorAsked' = NothingAsked   \* the asking is over
  /\ servoAsked' = [s \in Unit |-> Off]
  /\ UNCHANGED <<job, ctl, vel, tempLo, srv>>

\* acquire() in halt().  A lock that another thread has makes it yield, and
\* the next thread runs with the interrupt flag it had.
HaltAcquires(t, lock, from, to) ==
  LET free == holder[lock] \in {Nobody, t} IN
  /\ Goes(t, from, IF free THEN to ELSE from)
  /\ halter' = IF free THEN t ELSE Nobody
  /\ holder' = IF free THEN [holder EXCEPT ![lock] = t] ELSE holder

\* Mutant: the loop stops one short.
LoopShort == Units - 1

\* How many motors and servos the loop of halt() stops.
LoopEnd == Units

HaltMotor(t) ==
  /\ index < LoopEnd
  /\ HaltAcquires(t, "motor", "halt_motor", "halt_brake")
  /\ UNCHANGED <<job, ctl, vel, tempLo, srv, index, motorAsked, servoAsked>>

HaltBrake(t) ==
  /\ Goes(t, "halt_brake", "halt_servo")
  /\ ctl' = [ctl EXCEPT ![index] = "BRAKE"]
  /\ Gives(t, "motor")
  /\ UNCHANGED <<halter, job, vel, tempLo, srv, index, motorAsked, servoAsked>>

HaltServo(t) ==
  /\ HaltAcquires(t, "servo", "halt_servo", "halt_disable")
  /\ UNCHANGED <<job, ctl, vel, tempLo, srv, index, motorAsked, servoAsked>>

HaltDisable(t) ==
  /\ Goes(t, "halt_disable", "halt_motor")
  /\ tempLo' = 0
  /\ srv' = [srv EXCEPT ![index] = Off]
  /\ Gives(t, "servo")
  /\ index' = index + 1
  /\ UNCHANGED <<halter, job, ctl, vel, motorAsked, servoAsked>>

\* The busy loop at the end of halt().
HaltDone(t) ==
  /\ halter = t
  /\ pc[t] = "halt_motor"
  /\ index = LoopEnd
  /\ UNCHANGED vars

-----------------------------------------------------------------------------

DriverStep(t) ==
  \/ VelLock(t) \/ VelCtl(t) \/ VelVel(t)
  \/ BrakeLock(t) \/ BrakeCtl(t) \/ MotorUnlock(t)
  \/ ServoLock(t) \/ ServoLo(t) \/ ServoHi(t) \/ ServoUnlock(t)

HaltStep(t) ==
  \/ HaltMotor(t) \/ HaltBrake(t) \/ HaltServo(t) \/ HaltDisable(t)

Next ==
  \E t \in Thread :
    \/ \E u \in Unit :
         \/ \E v \in Velocities : Call(t, "vel_lock", u, v)
         \/ Call(t, "brake_lock", u, 0)
         \/ \E p \in Positions \cup {0} : Call(t, "servo_lock", u, p)
    \/ DriverStep(t)
    \/ HaltCalled(t)
    \/ HaltStep(t)
    \/ HaltDone(t)

Spec == Init /\ [][Next]_vars

\* A thread that runs with interrupts off keeps executing instructions.
FairSpec == Spec /\ \A t \in Thread : WF_vars(HaltStep(t))

-----------------------------------------------------------------------------
(* Properties *)

\* When no thread is in a motor call, every motor does what the last call
\* asked: no direction of one call with the speed of another.
MotorsAsAsked ==
  (/\ halter = Nobody
   /\ \A t \in Thread : pc[t] \notin {"vel_ctl", "vel_vel", "brake_ctl"})
  => \A m \in Unit : /\ ctl[m] = motorAsked[m].ctl
                     /\ vel[m] = motorAsked[m].vel

\* When no thread is in a servo call, every servo has the whole position the
\* last call for it asked: the latch never mixes bytes of two calls.
ServosAsAsked ==
  (/\ halter = Nobody
   /\ \A t \in Thread : pc[t] \notin {"servo_lo", "servo_hi"})
  => srv = servoAsked

\* Once halt() has turned interrupts off no other thread runs again: it never
\* waits for a lock.
HaltIsFinal == [][halter # Nobody => halter' = halter]_vars

Stopped == /\ \A m \in Unit : ctl[m] = "BRAKE"
           /\ \A s \in Unit : ~srv[s].enabled

\* Every motor ends up braked and every servo off, for good, whatever calls
\* the halt cut short.
HaltStops == halter # Nobody ~> []Stopped
=============================================================================
