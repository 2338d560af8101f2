---------------------------- MODULE PortsProofs -----------------------------
(***************************************************************************)
(* Proofs about the drivers of the FPGA's ports (Actuators, DigitalPorts   *)
(* and Encoders) in Drivers, for any number of threads, motors, servos,    *)
(* ports and encoders and any width of a register.                         *)
(***************************************************************************)
EXTENDS Drivers, TLAPS

\* What a number is made of: the bytes the drivers take it apart into.
LEMMA BytesOfNumber ==
  ASSUME NEW base \in Nat \ {0}, NEW n \in Int
  PROVE  /\ n % base \in 0 .. base - 1
         /\ n \div base \in Int
         /\ n = ((n \div base) * base) + (n % base)
  OBVIOUS

\* The digits of the upper byte are between those of base and its bound.
LEMMA QuotientBounds ==
  ASSUME NEW base \in Nat \ {0}, NEW top \in Nat \ {0},
         NEW n \in 0 .. top * base - 1
  PROVE  n \div base \in 0 .. top - 1
<1> DEFINE q == n \div base
           r == n % base
<1>1. /\ r \in 0 .. base - 1
      /\ q \in Int
      /\ n = q * base + r
  BY BytesOfNumber
<1> HIDE DEF q, r
<1>2. q >= 0
  <2> SUFFICES ASSUME q <= -1 PROVE FALSE
    BY <1>1
  <2>1. q * base <= (-1) * base
    BY <1>1
  <2> QED BY <1>1, <2>1
<1>3. q <= top - 1
  <2> SUFFICES ASSUME q >= top PROVE FALSE
    BY <1>1
  <2>1. q * base >= top * base
    BY <1>1
  <2> QED BY <1>1, <2>1
<1> QED BY <1>1, <1>2, <1>3 DEF q

\* Upper and lower byte make a number below the bound.
LEMMA NumberOfBytes ==
  ASSUME NEW base \in Nat \ {0}, NEW top \in Nat \ {0},
         NEW hi \in 0 .. top - 1, NEW lo \in 0 .. base - 1
  PROVE  hi * base + lo \in 0 .. top * base - 1
<1>1. hi * base <= (top - 1) * base
  OBVIOUS
<1>2. (top - 1) * base = top * base - base
  OBVIOUS
<1>3. hi * base \in Nat
  OBVIOUS
<1>4. top * base \in Int
  OBVIOUS
<1> QED BY <1>1, <1>2, <1>3, <1>4

\* A position of a servo has ten bits or fewer: two more than its low byte.
LEMMA TwoMoreBits ==
  ASSUME NEW base \in Nat \ {0}, NEW n \in 0 .. 4 * base - 1
  PROVE  /\ n \div base \in 0 .. 3
         /\ (n \div base) % 4 = n \div base
<1> DEFINE top == 4
<1>1. top \in Nat \ {0} /\ n \in 0 .. top * base - 1
  OBVIOUS
<1> HIDE DEF top
<1>2. n \div base \in 0 .. top - 1
  BY <1>1, QuotientBounds
<1> QED BY <1>2 DEF top

\* The steps of Drivers while its behaviour is one of a part.
LEMMA ActSteps ==
  [Next]_vars => part' = part /\ (part = "actuators" => [Act!Next]_actVars)
BY DEF Next, vars

LEMMA DigSteps ==
  [Next]_vars => part' = part /\ (part = "digital" => [Dig!Next]_digVars)
BY DEF Next, vars

LEMMA EncSteps ==
  [Next]_vars => part' = part /\ (part = "encoders" => [Enc!Next]_encVars)
BY DEF Next, vars

-----------------------------------------------------------------------------
(* Motors and servos *)

ActInMotor == {"vel_ctl", "vel_vel", "brake_ctl", "motor_unlock"}
ActInServo == {"servo_lo", "servo_hi", "servo_unlock"}
ActInHalt == {"halt_motor", "halt_brake", "halt_servo", "halt_disable"}
ActPcs == {"idle", "vel_lock", "brake_lock", "servo_lock"}
          \cup ActInMotor \cup ActInServo \cup ActInHalt

\* The types of all variables of Actuators, those of its history included.
ActTypes ==
  /\ Act!TypeOK
  /\ actPc \in [ActThread -> ActPcs]
  /\ job \in [ActThread -> [unit : Act!Unit, value : Int]]
  /\ motorAsked \in [Act!Unit -> [ctl : {"COAST", "FWD", "REV", "BRAKE"},
                                  vel : 0 .. ActBase - 1]]
  /\ servoAsked \in [Act!Unit -> [position : 0 .. 4 * ActBase - 1,
                                  enabled : BOOLEAN]]
  /\ \A t \in ActThread :
       actPc[t] \in ActInServo \cup {"servo_lock"} =>
         job[t].value \in 0 .. 4 * ActBase - 1
  /\ \A t \in ActThread :
       actPc[t] \in ActInHalt \ {"halt_motor"} => actIndex < Units

\* Who is between a lock and its unlock has the lock.
ActLocked ==
  \A t \in ActThread :
    /\ actPc[t] \in ActInMotor => actHolder["motor"] = t
    /\ actPc[t] \in ActInServo => actHolder["servo"] = t

\* What a motor does is what was asked last, or a call is about to write it.
ActMotors ==
  /\ \A m1 \in Act!Unit :
       \/ ctl[m1] = motorAsked[m1].ctl
       \/ \E t \in ActThread :
            actPc[t] \in {"vel_ctl", "brake_ctl"} /\ job[t].unit = m1
  /\ \A m1 \in Act!Unit :
       \/ vel[m1] = motorAsked[m1].vel
       \/ \E t \in ActThread :
            actPc[t] \in {"vel_ctl", "vel_vel"} /\ job[t].unit = m1
  /\ \A t \in ActThread :
       actPc[t] \in {"vel_ctl", "vel_vel"} =>
         /\ motorAsked[job[t].unit].ctl = Act!Direction(job[t].value)
         /\ motorAsked[job[t].unit].vel = Act!Speed(job[t].value)
  /\ \A t \in ActThread :
       actPc[t] = "brake_ctl" => motorAsked[job[t].unit].ctl = "BRAKE"

\* The same of a servo. Nobody writes the latch between the two bytes.
ActServos ==
  /\ \A s \in Act!Unit :
       \/ srv[s] = servoAsked[s]
       \/ \E t \in ActThread :
            actPc[t] \in {"servo_lo", "servo_hi"} /\ job[t].unit = s
  /\ \A t \in ActThread :
       actPc[t] \in {"servo_lo", "servo_hi"} =>
         servoAsked[job[t].unit] = Act!Asked(t)
  /\ \A t \in ActThread :
       actPc[t] = "servo_hi" => tempLo = job[t].value % ActBase

\* Until a thread halts the calls are in order; from then on nobody but that
\* thread has a lock.
ActInv ==
  /\ ActTypes
  /\ \A t \in ActThread : actPc[t] \in ActInHalt <=> t = actHalter
  /\ actHalter = Nobody => ActLocked /\ ActMotors /\ ActServos
  /\ actHalter # Nobody =>
       \A l \in {"motor", "servo"} : actHolder[l] \in {Nobody, actHalter}

LEMMA ActInit == Act!Init => ActInv
BY DriversAssumption
   DEF Act!NobodyAssumption, Act!ActuatorsAssumption, Act!Init, ActInv, ActTypes, Act!TypeOK, ActPcs,
       ActInMotor, ActInServo, ActInHalt, ActLocked, ActMotors, ActServos,
       Act!Unit, Act!NoJob, Act!Off, Act!NothingAsked

\* Who runs: a halting thread is the one with interrupts off, and others run
\* only while nobody halts.
LEMMA ActRuns ==
  ASSUME ActInv, NEW t \in ActThread, Act!Runs(t)
  PROVE  /\ actPc[t] \notin ActInHalt => actHalter = Nobody
         /\ actPc[t] \in ActInHalt => actHalter = t
         /\ t # Nobody
BY DriversAssumption DEF Act!NobodyAssumption, Act!Runs, ActInv

LEMMA SpeedType ==
  ASSUME NEW v \in Int PROVE Act!Speed(v) \in 0 .. ActBase - 1
BY DriversAssumption, BytesOfNumber DEF Act!ActuatorsAssumption, Act!Speed

LEMMA DirectionType ==
  ASSUME NEW v \in Int
  PROVE  Act!Direction(v) \in {"COAST", "FWD", "REV", "BRAKE"}
BY DEF Act!Direction

\* A step that leaves the registers of the motors and the calls for them.
LEMMA MotorsUntouched ==
  ASSUME ActMotors, UNCHANGED <<ctl, vel, motorAsked>>,
         \A u \in ActThread :
           \/ actPc'[u] = actPc[u] /\ job'[u] = job[u]
           \/ {actPc[u], actPc'[u]} \cap {"vel_ctl", "vel_vel", "brake_ctl"} = {}
  PROVE  ActMotors'
<1>1. \A u \in ActThread, p \in {"vel_ctl", "vel_vel", "brake_ctl"} :
        /\ actPc'[u] = p <=> actPc[u] = p
        /\ actPc[u] = p => job'[u] = job[u]
  OBVIOUS
<1>2. \A m1 \in Act!Unit :
        \/ ctl'[m1] = motorAsked'[m1].ctl
        \/ \E t \in ActThread :
             actPc'[t] \in {"vel_ctl", "brake_ctl"} /\ job'[t].unit = m1
  BY <1>1 DEF ActMotors
<1>3. \A m1 \in Act!Unit :
        \/ vel'[m1] = motorAsked'[m1].vel
        \/ \E t \in ActThread :
             actPc'[t] \in {"vel_ctl", "vel_vel"} /\ job'[t].unit = m1
  BY <1>1 DEF ActMotors
<1> QED BY <1>1, <1>2, <1>3 DEF ActMotors

\* A step that leaves the servos, their latch and the calls for them.
LEMMA ServosUntouched ==
  ASSUME ActServos, UNCHANGED <<tempLo, srv, servoAsked>>,
         \A u \in ActThread :
           \/ actPc'[u] = actPc[u] /\ job'[u] = job[u]
           \/ {actPc[u], actPc'[u]} \cap {"servo_lo", "servo_hi"} = {}
  PROVE  ActServos'
<1>1. \A u \in ActThread, p \in {"servo_lo", "servo_hi"} :
        /\ actPc'[u] = p <=> actPc[u] = p
        /\ actPc[u] = p => job'[u] = job[u]
  OBVIOUS
<1>2. \A s \in Act!Unit :
        \/ srv'[s] = servoAsked'[s]
        \/ \E t \in ActThread :
             actPc'[t] \in {"servo_lo", "servo_hi"} /\ job'[t].unit = s
  BY <1>1 DEF ActServos
<1> QED BY <1>1, <1>2 DEF ActServos, Act!Asked

LEMMA ActVelLockKeeps ==
  ASSUME ActInv, NEW t \in ActThread, Act!VelLock(t)
  PROVE  ActInv'
<1> USE DEF Act!VelLock, Act!Goes, Act!Takes, Act!Gives
<1>1. /\ actHalter = Nobody /\ actHalter' = Nobody
      /\ job[t] \in [unit : Act!Unit, value : Int]
      /\ ActTypes /\ ActLocked /\ ActMotors /\ ActServos
      /\ \A u \in ActThread : actPc[u] \notin ActInHalt /\ u # Nobody
  BY ActRuns, DriversAssumption
     DEF Act!NobodyAssumption, ActInHalt, ActInv, ActTypes
<1>2. ActTypes'
  BY <1>1, SpeedType, DirectionType
     DEF ActTypes, Act!TypeOK, ActPcs, ActInMotor, ActInServo, ActInHalt
<1>3. ActLocked'
  BY <1>1 DEF ActLocked, ActTypes, Act!TypeOK, ActInMotor, ActInServo
<1>4. ActMotors'
  BY <1>1 DEF ActMotors, ActLocked, ActTypes, Act!TypeOK, ActInMotor
<1>5. ActServos'
  BY <1>1, ServosUntouched DEF ActTypes
<1> QED
  BY <1>1, <1>2, <1>3, <1>4, <1>5 DEF ActInv, ActTypes, ActInHalt

LEMMA ActVelCtlKeeps ==
  ASSUME ActInv, NEW t \in ActThread, Act!VelCtl(t)
  PROVE  ActInv'
<1> USE DEF Act!VelCtl, Act!Goes, Act!Takes, Act!Gives
<1>1. /\ actHalter = Nobody /\ actHalter' = Nobody
      /\ job[t] \in [unit : Act!Unit, value : Int]
      /\ ActTypes /\ ActLocked /\ ActMotors /\ ActServos
      /\ \A u \in ActThread : actPc[u] \notin ActInHalt /\ u # Nobody
  BY ActRuns, DriversAssumption
     DEF Act!NobodyAssumption, ActInHalt, ActInv, ActTypes
<1>2. ActTypes'
  BY <1>1, SpeedType, DirectionType
     DEF ActTypes, Act!TypeOK, ActPcs, ActInMotor, ActInServo, ActInHalt
<1>3. ActLocked'
  BY <1>1 DEF ActLocked, ActTypes, Act!TypeOK, ActInMotor, ActInServo
<1>4. ActMotors'
  <2>1. \A u \in ActThread \ {t} : actPc[u] \notin ActInMotor
    BY <1>1 DEF ActLocked, ActInMotor
  <2>2. \A m1 \in Act!Unit :
          \/ ctl'[m1] = motorAsked'[m1].ctl
          \/ \E u \in ActThread :
               actPc'[u] \in {"vel_ctl", "brake_ctl"} /\ job'[u].unit = m1
    BY <1>1, <2>1 DEF ActMotors, ActTypes, Act!TypeOK, ActInMotor
  <2>3. \A m1 \in Act!Unit :
          \/ vel'[m1] = motorAsked'[m1].vel
          \/ \E u \in ActThread :
               actPc'[u] \in {"vel_ctl", "vel_vel"} /\ job'[u].unit = m1
    BY <1>1, <2>1 DEF ActMotors, ActTypes, Act!TypeOK, ActInMotor
  <2> QED
    BY <1>1, <2>1, <2>2, <2>3 DEF ActMotors, ActTypes, ActInMotor
<1>5. ActServos'
  BY <1>1, ServosUntouched DEF ActTypes
<1> QED
  BY <1>1, <1>2, <1>3, <1>4, <1>5 DEF ActInv, ActTypes, ActInHalt

LEMMA ActVelVelKeeps ==
  ASSUME ActInv, NEW t \in ActThread, Act!VelVel(t)
  PROVE  ActInv'
<1> USE DEF Act!VelVel, Act!Goes, Act!Takes, Act!Gives
<1>1. /\ actHalter = Nobody /\ actHalter' = Nobody
      /\ job[t] \in [unit : Act!Unit, value : Int]
      /\ ActTypes /\ ActLocked /\ ActMotors /\ ActServos
      /\ \A u \in ActThread : actPc[u] \notin ActInHalt /\ u # Nobody
  BY ActRuns, DriversAssumption
     DEF Act!NobodyAssumption, ActInHalt, ActInv, ActTypes
<1>2. ActTypes'
  BY <1>1, SpeedType, DirectionType
     DEF ActTypes, Act!TypeOK, ActPcs, ActInMotor, ActInServo, ActInHalt
<1>3. ActLocked'
  BY <1>1 DEF ActLocked, ActTypes, Act!TypeOK, ActInMotor, ActInServo
<1>4. ActMotors'
  <2>1. \A u \in ActThread \ {t} : actPc[u] \notin ActInMotor
    BY <1>1 DEF ActLocked, ActInMotor
  <2>2. \A m1 \in Act!Unit :
          \/ ctl'[m1] = motorAsked'[m1].ctl
          \/ \E u \in ActThread :
               actPc'[u] \in {"vel_ctl", "brake_ctl"} /\ job'[u].unit = m1
    BY <1>1, <2>1 DEF ActMotors, ActTypes, Act!TypeOK, ActInMotor
  <2>3. \A m1 \in Act!Unit :
          \/ vel'[m1] = motorAsked'[m1].vel
          \/ \E u \in ActThread :
               actPc'[u] \in {"vel_ctl", "vel_vel"} /\ job'[u].unit = m1
    BY <1>1, <2>1 DEF ActMotors, ActTypes, Act!TypeOK, ActInMotor
  <2> QED
    BY <1>1, <2>1, <2>2, <2>3 DEF ActMotors, ActTypes, ActInMotor
<1>5. ActServos'
  BY <1>1, ServosUntouched DEF ActTypes
<1> QED
  BY <1>1, <1>2, <1>3, <1>4, <1>5 DEF ActInv, ActTypes, ActInHalt

LEMMA ActBrakeLockKeeps ==
  ASSUME ActInv, NEW t \in ActThread, Act!BrakeLock(t)
  PROVE  ActInv'
<1> USE DEF Act!BrakeLock, Act!Goes, Act!Takes, Act!Gives
<1>1. /\ actHalter = Nobody /\ actHalter' = Nobody
      /\ job[t] \in [unit : Act!Unit, value : Int]
      /\ ActTypes /\ ActLocked /\ ActMotors /\ ActServos
      /\ \A u \in ActThread : actPc[u] \notin ActInHalt /\ u # Nobody
  BY ActRuns, DriversAssumption
     DEF Act!NobodyAssumption, ActInHalt, ActInv, ActTypes
<1>a. motorAsked' \in [Act!Unit -> [ctl : {"COAST", "FWD", "REV", "BRAKE"},
                                     vel : 0 .. ActBase - 1]]
  BY <1>1, SMTT(40) DEF ActTypes
<1>2. ActTypes'
  BY <1>1, <1>a
     DEF ActTypes, Act!TypeOK, ActPcs, ActInMotor, ActInServo, ActInHalt
<1>3. ActLocked'
  BY <1>1 DEF ActLocked, ActTypes, Act!TypeOK, ActInMotor, ActInServo
<1>4. ActMotors'
  BY <1>1 DEF ActMotors, ActLocked, ActTypes, Act!TypeOK, ActInMotor
<1>5. ActServos'
  BY <1>1, ServosUntouched DEF ActTypes
<1> QED
  BY <1>1, <1>2, <1>3, <1>4, <1>5 DEF ActInv, ActTypes, ActInHalt

LEMMA ActBrakeCtlKeeps ==
  ASSUME ActInv, NEW t \in ActThread, Act!BrakeCtl(t)
  PROVE  ActInv'
<1> USE DEF Act!BrakeCtl, Act!Goes, Act!Takes, Act!Gives
<1>1. /\ actHalter = Nobody /\ actHalter' = Nobody
      /\ job[t] \in [unit : Act!Unit, value : Int]
      /\ ActTypes /\ ActLocked /\ ActMotors /\ ActServos
      /\ \A u \in ActThread : actPc[u] \notin ActInHalt /\ u # Nobody
  BY ActRuns, DriversAssumption
     DEF Act!NobodyAssumption, ActInHalt, ActInv, ActTypes
<1>2. ActTypes'
  BY <1>1, SpeedType, DirectionType
     DEF ActTypes, Act!TypeOK, ActPcs, ActInMotor, ActInServo, ActInHalt
<1>3. ActLocked'
  BY <1>1 DEF ActLocked, ActTypes, Act!TypeOK, ActInMotor, ActInServo
<1>4. ActMotors'
  <2>1. \A u \in ActThread \ {t} : actPc[u] \notin ActInMotor
    BY <1>1 DEF ActLocked, ActInMotor
  <2>2. \A m1 \in Act!Unit :
          \/ ctl'[m1] = motorAsked'[m1].ctl
          \/ \E u \in ActThread :
               actPc'[u] \in {"vel_ctl", "brake_ctl"} /\ job'[u].unit = m1
    BY <1>1, <2>1 DEF ActMotors, ActTypes, Act!TypeOK, ActInMotor
  <2>3. \A m1 \in Act!Unit :
          \/ vel'[m1] = motorAsked'[m1].vel
          \/ \E u \in ActThread :
               actPc'[u] \in {"vel_ctl", "vel_vel"} /\ job'[u].unit = m1
    BY <1>1, <2>1, ZenonT(60) DEF ActMotors, ActTypes, Act!TypeOK, ActInMotor
  <2> QED
    BY <1>1, <2>1, <2>2, <2>3 DEF ActMotors, ActTypes, ActInMotor
<1>5. ActServos'
  BY <1>1, ServosUntouched DEF ActTypes
<1> QED
  BY <1>1, <1>2, <1>3, <1>4, <1>5 DEF ActInv, ActTypes, ActInHalt

LEMMA ActMotorUnlockKeeps ==
  ASSUME ActInv, NEW t \in ActThread, Act!MotorUnlock(t)
  PROVE  ActInv'
<1> USE DEF Act!MotorUnlock, Act!Goes, Act!Takes, Act!Gives
<1>1. /\ actHalter = Nobody /\ actHalter' = Nobody
      /\ job[t] \in [unit : Act!Unit, value : Int]
      /\ ActTypes /\ ActLocked /\ ActMotors /\ ActServos
      /\ \A u \in ActThread : actPc[u] \notin ActInHalt /\ u # Nobody
  BY ActRuns, DriversAssumption
     DEF Act!NobodyAssumption, ActInHalt, ActInv, ActTypes
<1>a. Act!NoJob \in [unit : Act!Unit, value : Int]
  BY DriversAssumption DEF Act!ActuatorsAssumption, Act!NoJob, Act!Unit
<1>2. ActTypes'
  BY <1>1, <1>a
     DEF ActTypes, Act!TypeOK, ActPcs, ActInMotor,
         ActInServo, ActInHalt
<1>3. ActLocked'
  BY <1>1 DEF ActLocked, ActTypes, Act!TypeOK, ActInMotor, ActInServo
<1>4. ActMotors'
  BY <1>1, MotorsUntouched DEF ActTypes
<1>5. ActServos'
  BY <1>1, ServosUntouched DEF ActTypes
<1> QED
  BY <1>1, <1>2, <1>3, <1>4, <1>5 DEF ActInv, ActTypes, ActInHalt

LEMMA ActServoLockKeeps ==
  ASSUME ActInv, NEW t \in ActThread, Act!ServoLock(t)
  PROVE  ActInv'
<1> USE DEF Act!ServoLock, Act!Goes, Act!Takes, Act!Gives
<1>1. /\ actHalter = Nobody /\ actHalter' = Nobody
      /\ job[t] \in [unit : Act!Unit, value : Int]
      /\ ActTypes /\ ActLocked /\ ActMotors /\ ActServos
      /\ \A u \in ActThread : actPc[u] \notin ActInHalt /\ u # Nobody
  BY ActRuns, DriversAssumption
     DEF Act!NobodyAssumption, ActInHalt, ActInv, ActTypes
<1>a. Act!Asked(t) \in [position : 0 .. 4 * ActBase - 1, enabled : BOOLEAN]
  BY <1>1, DriversAssumption
     DEF Act!ActuatorsAssumption, ActTypes, Act!Asked, Act!Off, Act!At
<1>2. ActTypes'
  BY <1>1, <1>a
     DEF ActTypes, Act!TypeOK, ActPcs, ActInMotor, ActInServo, ActInHalt
<1>3. ActLocked'
  BY <1>1 DEF ActLocked, ActTypes, Act!TypeOK, ActInMotor, ActInServo
<1>4. ActMotors'
  BY <1>1, MotorsUntouched DEF ActTypes
<1>5. ActServos'
  BY <1>1 DEF ActServos, ActLocked, ActTypes, Act!TypeOK, ActInServo, Act!Asked
<1> QED
  BY <1>1, <1>2, <1>3, <1>4, <1>5 DEF ActInv, ActTypes, ActInHalt

LEMMA ActServoLoKeeps ==
  ASSUME ActInv, NEW t \in ActThread, Act!ServoLo(t)
  PROVE  ActInv'
<1> USE DEF Act!ServoLo, Act!Goes, Act!Takes, Act!Gives
<1>1. /\ actHalter = Nobody /\ actHalter' = Nobody
      /\ job[t] \in [unit : Act!Unit, value : Int]
      /\ ActTypes /\ ActLocked /\ ActMotors /\ ActServos
      /\ \A u \in ActThread : actPc[u] \notin ActInHalt /\ u # Nobody
  BY ActRuns, DriversAssumption
     DEF Act!NobodyAssumption, ActInHalt, ActInv, ActTypes
<1>a. job[t].value % ActBase \in 0 .. ActBase - 1
  BY <1>1, BytesOfNumber, DriversAssumption DEF Act!ActuatorsAssumption
<1>2. ActTypes'
  BY <1>1, <1>a
     DEF ActTypes, Act!TypeOK, ActPcs, ActInMotor, ActInServo, ActInHalt
<1>3. ActLocked'
  BY <1>1 DEF ActLocked, ActTypes, Act!TypeOK, ActInMotor, ActInServo
<1>4. ActMotors'
  BY <1>1, MotorsUntouched DEF ActTypes
<1>5. ActServos'
  BY <1>1 DEF ActServos, ActLocked, ActTypes, Act!TypeOK, ActInServo, Act!Asked
<1> QED
  BY <1>1, <1>2, <1>3, <1>4, <1>5 DEF ActInv, ActTypes, ActInHalt

LEMMA ActServoHiKeeps ==
  ASSUME ActInv, NEW t \in ActThread, Act!ServoHi(t)
  PROVE  ActInv'
<1> USE DEF Act!ServoHi, Act!Goes, Act!Takes, Act!Gives
<1>1. /\ actHalter = Nobody /\ actHalter' = Nobody
      /\ job[t] \in [unit : Act!Unit, value : Int]
      /\ ActTypes /\ ActLocked /\ ActMotors /\ ActServos
      /\ \A u \in ActThread : actPc[u] \notin ActInHalt /\ u # Nobody
  BY ActRuns, DriversAssumption
     DEF Act!NobodyAssumption, ActInHalt, ActInv, ActTypes
<1>a. /\ ActBase \in Nat \ {0}
      /\ tempLo \in 0 .. ActBase - 1
      /\ job[t].value \in 0 .. 4 * ActBase - 1
      /\ Act!Asked(t) = servoAsked[job[t].unit]
      /\ Act!Asked(t).enabled \in BOOLEAN
  BY <1>1, DriversAssumption
     DEF Act!ActuatorsAssumption, Act!TypeOK, ActInServo, ActTypes, ActServos
<1>b. (job[t].value \div ActBase) % 4 = job[t].value \div ActBase
  BY <1>a, TwoMoreBits
<1>c. (job[t].value \div ActBase) * ActBase + tempLo = job[t].value
  <2>1. tempLo = job[t].value % ActBase
    BY <1>1 DEF ActServos
  <2>2. job[t].value \in Int
    BY <1>1
  <2> QED BY <1>a, <2>1, <2>2, BytesOfNumber
<1>2. ActTypes'
  BY <1>1, <1>a, <1>b, <1>c
     DEF ActTypes, Act!TypeOK, ActPcs, ActInMotor, ActInServo, ActInHalt
<1>3. ActLocked'
  BY <1>1 DEF ActLocked, ActTypes, Act!TypeOK, ActInMotor, ActInServo
<1>4. ActMotors'
  BY <1>1, MotorsUntouched DEF ActTypes
<1>5. ActServos'
  <2>1. \A u \in ActThread \ {t} : actPc[u] \notin ActInServo
    BY <1>1 DEF ActLocked, ActInServo
  <2>2. srv'[job[t].unit] = servoAsked[job[t].unit]
    BY <1>1, <1>a, <1>b, <1>c DEF ActTypes, Act!TypeOK, Act!Asked, Act!Off, Act!At
  <2> QED
    BY <1>1, <2>1, <2>2 DEF ActServos, ActTypes, Act!TypeOK, ActInServo
<1> QED
  BY <1>1, <1>2, <1>3, <1>4, <1>5 DEF ActInv, ActTypes, ActInHalt

LEMMA ActServoUnlockKeeps ==
  ASSUME ActInv, NEW t \in ActThread, Act!ServoUnlock(t)
  PROVE  ActInv'
<1> USE DEF Act!ServoUnlock, Act!Goes, Act!Takes, Act!Gives
<1>1. /\ actHalter = Nobody /\ actHalter' = Nobody
      /\ job[t] \in [unit : Act!Unit, value : Int]
      /\ ActTypes /\ ActLocked /\ ActMotors /\ ActServos
      /\ \A u \in ActThread : actPc[u] \notin ActInHalt /\ u # Nobody
  BY ActRuns, DriversAssumption
     DEF Act!NobodyAssumption, ActInHalt, ActInv, ActTypes
<1>a. Act!NoJob \in [unit : Act!Unit, value : Int]
  BY DriversAssumption DEF Act!ActuatorsAssumption, Act!NoJob, Act!Unit
<1>2. ActTypes'
  BY <1>1, <1>a
     DEF ActTypes, Act!TypeOK, ActPcs, ActInMotor,
         ActInServo, ActInHalt
<1>3. ActLocked'
  BY <1>1 DEF ActLocked, ActTypes, Act!TypeOK, ActInMotor, ActInServo
<1>4. ActMotors'
  BY <1>1, MotorsUntouched DEF ActTypes
<1>5. ActServos'
  BY <1>1, ServosUntouched DEF ActTypes
<1> QED
  BY <1>1, <1>2, <1>3, <1>4, <1>5 DEF ActInv, ActTypes, ActInHalt

LEMMA ActCallKeeps ==
  ASSUME ActInv, NEW t \in ActThread, NEW unit \in Act!Unit,
         NEW value \in Int,
         NEW entry \in {"vel_lock", "brake_lock", "servo_lock"},
         entry = "servo_lock" => value \in 0 .. 4 * ActBase - 1,
         Act!Call(t, entry, unit, value)
  PROVE  ActInv'
<1> USE DEF Act!Call, Act!Goes
<1>1. /\ actHalter = Nobody /\ actHalter' = Nobody
      /\ ActTypes /\ ActLocked /\ ActMotors /\ ActServos
      /\ \A u \in ActThread : actPc[u] \notin ActInHalt
  BY ActRuns, DriversAssumption
     DEF Act!NobodyAssumption, ActInHalt, ActInv, ActTypes
<1>2. ActTypes'
  BY <1>1 DEF ActTypes, Act!TypeOK, ActPcs, ActInMotor, ActInServo, ActInHalt
<1>3. ActLocked'
  BY <1>1 DEF ActLocked, ActTypes, ActInMotor, ActInServo
<1>4. ActMotors' /\ ActServos'
  BY <1>1, MotorsUntouched, ServosUntouched DEF ActTypes
<1> QED
  BY <1>1, <1>2, <1>3, <1>4 DEF ActInv, ActTypes, ActInHalt

LEMMA ActHaltCalledKeeps ==
  ASSUME ActInv, NEW t \in ActThread, Act!HaltCalled(t)
  PROVE  ActInv'
<1> USE DEF Act!HaltCalled
<1>1. /\ actHalter = Nobody /\ actHalter' = t
      /\ ActTypes
      /\ \A u \in ActThread : actPc[u] \notin ActInHalt /\ u # Nobody
  BY DriversAssumption DEF Act!NobodyAssumption, ActInv
<1>2. /\ motorAsked' \in [Act!Unit -> [ctl : {"COAST", "FWD", "REV", "BRAKE"},
                                       vel : 0 .. ActBase - 1]]
      /\ servoAsked' \in [Act!Unit -> [position : 0 .. 4 * ActBase - 1,
                                       enabled : BOOLEAN]]
  BY DriversAssumption DEF Act!ActuatorsAssumption, Act!NothingAsked, Act!Off
<1>3. ActTypes'
  BY <1>1, <1>2, DriversAssumption
     DEF Act!ActuatorsAssumption, ActTypes, Act!TypeOK, ActPcs, ActInServo,
         ActInHalt
<1> QED
  BY <1>1, <1>3 DEF ActInv, ActTypes, ActInHalt, Act!SmashedLocks

\* halt() finds every lock free or its own, so it never yields.
LEMMA HaltNeverWaits ==
  ASSUME ActInv, NEW t \in ActThread, NEW lock \in {"motor", "servo"},
         NEW from \in ActInHalt, NEW to,
         Act!HaltAcquires(t, lock, from, to)
  PROVE  /\ actHalter = t /\ actHalter' = t
         /\ actPc[t] = from /\ actPc' = [actPc EXCEPT ![t] = to]
         /\ actHolder' = [actHolder EXCEPT ![lock] = t]
<1>1. actHalter = t /\ actPc[t] = from /\ t # Nobody
  BY ActRuns DEF Act!HaltAcquires, Act!Goes
<1>2. actHolder[lock] \in {Nobody, t}
  BY <1>1 DEF ActInv
<1> QED BY <1>1, <1>2 DEF Act!HaltAcquires, Act!Goes

LEMMA ActHaltStepKeeps ==
  ASSUME ActInv, NEW t \in ActThread, Act!HaltStep(t)
  PROVE  ActInv' /\ actHalter = t /\ actHalter' = t
<1> USE DEF ActInHalt, Act!Unit
<1>0. /\ Nobody \notin ActThread
      /\ Units \in Nat \ {0} /\ ActBase \in Nat \ {0}
  BY DriversAssumption DEF Act!NobodyAssumption, Act!ActuatorsAssumption
<1>1. CASE Act!HaltMotor(t)
  <2>1. /\ actHalter = t /\ actHalter' = t
        /\ actPc[t] = "halt_motor"
        /\ actPc' = [actPc EXCEPT ![t] = "halt_brake"]
        /\ actHolder' = [actHolder EXCEPT !["motor"] = t]
        /\ actIndex < Units
    BY <1>1, HaltNeverWaits DEF Act!HaltMotor, Act!LoopEnd
  <2>2. ActTypes'
    BY <1>0, <1>1, <2>1, ZenonT(60)
       DEF Act!HaltMotor, ActInv, ActTypes, Act!TypeOK, ActPcs, ActInServo
  <2> QED BY <1>0, <2>1, <2>2 DEF ActInv, ActTypes, Act!TypeOK
<1>2. CASE Act!HaltBrake(t)
  <2>1. /\ actHalter = t /\ actHalter' = t
        /\ actPc[t] = "halt_brake"
        /\ actPc' = [actPc EXCEPT ![t] = "halt_servo"]
        /\ actHolder' = [actHolder EXCEPT !["motor"] = Nobody]
        /\ actIndex \in 0 .. Units - 1
    <3>1. Act!Runs(t) /\ actPc[t] = "halt_brake"
      BY <1>2 DEF Act!HaltBrake, Act!Goes
    <3>2. actHalter = t
      BY <3>1, ActRuns
    <3>3. actIndex \in 0 .. Units /\ actIndex < Units
      BY <3>1 DEF ActInv, ActTypes, Act!TypeOK
    <3> QED BY <1>0, <1>2, <3>1, <3>2, <3>3 DEF Act!HaltBrake, Act!Goes, Act!Gives
  <2>2. ActTypes'
    BY <1>0, <1>2, <2>1, ZenonT(60)
       DEF Act!HaltBrake, ActInv, ActTypes, Act!TypeOK, ActPcs, ActInServo
  <2> QED BY <1>0, <2>1, <2>2 DEF ActInv, ActTypes, Act!TypeOK
<1>3. CASE Act!HaltServo(t)
  <2>1. /\ actHalter = t /\ actHalter' = t
        /\ actPc[t] = "halt_servo"
        /\ actPc' = [actPc EXCEPT ![t] = "halt_disable"]
        /\ actHolder' = [actHolder EXCEPT !["servo"] = t]
    BY <1>3, HaltNeverWaits, Zenon DEF Act!HaltServo
  <2>2. ActTypes'
    BY <1>0, <1>3, <2>1, ZenonT(60)
       DEF Act!HaltServo, ActInv, ActTypes, Act!TypeOK, ActPcs, ActInServo
  <2> QED BY <1>0, <2>1, <2>2 DEF ActInv, ActTypes, Act!TypeOK
<1>4. CASE Act!HaltDisable(t)
  <2>1. /\ actHalter = t /\ actHalter' = t
        /\ actPc[t] = "halt_disable"
        /\ actPc' = [actPc EXCEPT ![t] = "halt_motor"]
        /\ actHolder' = [actHolder EXCEPT !["servo"] = Nobody]
        /\ actIndex \in 0 .. Units - 1
    <3>1. Act!Runs(t) /\ actPc[t] = "halt_disable"
      BY <1>4 DEF Act!HaltDisable, Act!Goes
    <3>2. actHalter = t
      BY <3>1, ActRuns
    <3>3. actIndex \in 0 .. Units /\ actIndex < Units
      BY <3>1 DEF ActInv, ActTypes, Act!TypeOK
    <3> QED BY <1>0, <1>4, <3>1, <3>2, <3>3 DEF Act!HaltDisable, Act!Goes, Act!Gives
  <2>2. \A u \in ActThread : actPc[u] \in ActInHalt \ {"halt_motor"} => u = t
    BY <2>1 DEF ActInv
  <2>3. ActTypes'
    <3>1. /\ actIndex' \in 0 .. Units
          /\ tempLo' \in 0 .. ActBase - 1
          /\ srv' \in [Act!Unit -> [position : 0 .. 4 * ActBase - 1,
                                   enabled : BOOLEAN]]
      <4>1. Act!Off \in [position : 0 .. 4 * ActBase - 1, enabled : BOOLEAN]
        BY <1>0 DEF Act!Off
      <4>2. srv \in [Act!Unit -> [position : 0 .. 4 * ActBase - 1,
                                  enabled : BOOLEAN]]
        BY DEF ActInv, ActTypes, Act!TypeOK
      <4>3. /\ srv' = [srv EXCEPT ![actIndex] = Act!Off]
            /\ actIndex' = actIndex + 1 /\ tempLo' = 0
        BY <1>4 DEF Act!HaltDisable
      <4> QED BY <1>0, <2>1, <4>1, <4>2, <4>3
    <3>2. \A u \in ActThread : actPc'[u] \in ActInHalt => actPc'[u] = "halt_motor"
      BY <2>1, <2>2 DEF ActInv, ActTypes
    <3>3. /\ actHolder' \in [{"motor", "servo"} -> ActThread \cup {Nobody}]
          /\ actHalter' \in ActThread \cup {Nobody}
          /\ actPc' \in [ActThread -> ActPcs]
          /\ UNCHANGED <<job, ctl, vel, motorAsked, servoAsked>>
      BY <1>4, <2>1, Zenon
         DEF Act!HaltDisable, ActInv, ActTypes, Act!TypeOK, ActPcs
    <3> QED
      BY <2>1, <3>1, <3>2, <3>3, Zenon DEF ActInv, ActTypes, Act!TypeOK, ActInServo
  <2> QED BY <1>0, <2>1, <2>3 DEF ActInv, ActTypes, Act!TypeOK
<1> QED BY <1>1, <1>2, <1>3, <1>4 DEF Act!HaltStep

LEMMA ActNextKeeps == ActInv /\ [Act!Next]_actVars => ActInv'
<1> SUFFICES ASSUME ActInv, [Act!Next]_actVars PROVE ActInv'
  OBVIOUS
<1>1. ASSUME NEW t \in ActThread, NEW u \in Act!Unit, NEW v \in Velocities,
             Act!Call(t, "vel_lock", u, v)
      PROVE  ActInv'
  BY <1>1, ActCallKeeps, DriversAssumption DEF Act!ActuatorsAssumption
<1>2. ASSUME NEW t \in ActThread, NEW u \in Act!Unit,
             Act!Call(t, "brake_lock", u, 0)
      PROVE  ActInv'
  BY <1>2, ActCallKeeps
<1>3. ASSUME NEW t \in ActThread, NEW u \in Act!Unit,
             NEW p \in Positions \cup {0}, Act!Call(t, "servo_lock", u, p)
      PROVE  ActInv'
  <2>1. p \in Int /\ p \in 0 .. 4 * ActBase - 1
    BY DriversAssumption DEF Act!ActuatorsAssumption
  <2> QED BY <1>3, <2>1, ActCallKeeps
<1>4. ASSUME NEW t \in ActThread, Act!DriverStep(t) PROVE ActInv'
  BY <1>4, ActVelLockKeeps, ActVelCtlKeeps, ActVelVelKeeps, ActBrakeLockKeeps,
     ActBrakeCtlKeeps, ActMotorUnlockKeeps, ActServoLockKeeps, ActServoLoKeeps,
     ActServoHiKeeps, ActServoUnlockKeeps
     DEF Act!DriverStep
<1>5. ASSUME NEW t \in ActThread, Act!HaltCalled(t) \/ Act!HaltStep(t)
      PROVE  ActInv'
  BY <1>5, ActHaltCalledKeeps, ActHaltStepKeeps
<1>6. ASSUME UNCHANGED actVars PROVE ActInv'
  BY <1>6 DEF actVars, ActInv, ActTypes, Act!TypeOK, ActLocked, ActMotors,
              ActServos, Act!Asked
<1>7. ASSUME NEW t \in ActThread, Act!HaltDone(t) PROVE ActInv'
  BY <1>6, <1>7 DEF Act!HaltDone, Act!vars, actVars
<1> QED
  BY <1>1, <1>2, <1>3, <1>4, <1>5, <1>6, <1>7 DEF Act!Next

LEMMA ActInvariant == Spec => [](part = "actuators" => ActInv)
<1>1. Init => ActInv
  BY ActInit DEF Init
<1>2. (part = "actuators" => ActInv) /\ [Next]_vars
        => (part = "actuators" => ActInv)'
  BY ActSteps, ActNextKeeps
<1> QED BY <1>1, <1>2, PTL DEF Spec

\* Outside calls, and until a thread halts, every motor turns with the
\* direction and the speed of one last call and every servo has the whole
\* position of one: preempted between the two bytes, a call is not mixed
\* with another (drivers/motor.c, drivers/servo.c).
THEOREM ActuatorsAreAsAsked == Spec => []ActuatorsAsAsked
<1>1. (part = "actuators" => ActInv) => ActuatorsAsAsked
  <2> SUFFICES ASSUME ActInv PROVE Act!MotorsAsAsked /\ Act!ServosAsAsked
    BY DEF ActuatorsAsAsked
  <2>1. Act!MotorsAsAsked
    BY DEF ActInv, ActMotors, Act!MotorsAsAsked
  <2>2. Act!ServosAsAsked
    <3> SUFFICES ASSUME actHalter = Nobody,
                        \A t \in ActThread : actPc[t] \notin {"servo_lo", "servo_hi"}
                 PROVE  srv = servoAsked
      BY DEF Act!ServosAsAsked
    <3>1. \A s \in Act!Unit : srv[s] = servoAsked[s]
      BY DEF ActInv, ActServos
    <3> QED BY <3>1 DEF ActInv, ActTypes, Act!TypeOK
  <2> QED BY <2>1, <2>2
<1> QED BY <1>1, ActInvariant, PTL

\* Once halt() has turned interrupts off it never waits for a lock, so no
\* thread that still turns a motor runs again (kern/thread.c).
THEOREM HaltingIsFinal == Spec => Act!HaltIsFinal
<1>1. (part = "actuators" => ActInv) /\ [Next]_vars
        => [actHalter # Nobody => actHalter' = actHalter]_Act!vars
  <2> SUFFICES ASSUME part = "actuators" => ActInv, [Next]_vars,
                      actHalter # Nobody
               PROVE  actHalter' = actHalter
    OBVIOUS
  <2>1. ASSUME ActInv, NEW t \in ActThread, Act!HaltStep(t)
        PROVE  actHalter' = actHalter
    BY <2>1, ActHaltStepKeeps
  <2>2. CASE part = "actuators"
    BY <2>1, <2>2, ActSteps, Zenon
       DEF Act!Next, Act!Call, Act!DriverStep, Act!VelLock, Act!VelCtl,
           Act!VelVel, Act!BrakeLock, Act!BrakeCtl, Act!MotorUnlock,
           Act!ServoLock, Act!ServoLo, Act!ServoHi, Act!ServoUnlock,
           Act!HaltCalled, Act!HaltDone, Act!vars, actVars
  <2>3. CASE part # "actuators"
    BY <2>3 DEF Next, vars, actVars
  <2> QED BY <2>2, <2>3
<1> QED BY <1>1, ActInvariant, PTL DEF Spec, Act!HaltIsFinal

-----------------------------------------------------------------------------
(* Digital ports *)

DigInCall == {"pwm", "load", "store", "mode", "sample", "unlock"}

DigTypes ==
  /\ Dig!TypeOK
  /\ digPc \in [DigThread -> {"idle", "lock"} \cup DigInCall]
  /\ digCall \in [DigThread -> [port : Port, level : Level \cup {Dig!NoLevel}]]
  /\ digAsked \in [Port -> Level \cup {Dig!NoLevel}]

\* The call that has the lock is the last for its port, and it knows the
\* variable as it is.
DigCalls ==
  \A t \in DigThread :
    digPc[t] \in DigInCall =>
      /\ digHolder["digital"] = t
      /\ digAsked[digCall[t].port] = digCall[t].level
      /\ digPc[t] = "pwm" => Dig!Writes(t)
      /\ digPc[t] = "store" => digLoaded[t] = output_pinmode
      /\ digPc[t] = "sample" => ~Dig!Writes(t)

\* Level, variable and register follow what was asked, in this order, but for
\* the port of a call that has not come that far.
DigPorts ==
  \A p \in Port :
    /\ \/ digAsked[p] # Dig!NoLevel => digitalPwm[p] = digAsked[p]
       \/ \E t \in DigThread : digPc[t] = "pwm" /\ digCall[t].port = p
    /\ \/ p \in output_pinmode <=> digAsked[p] # Dig!NoLevel
       \/ \E t \in DigThread :
            digPc[t] \in {"pwm", "load", "store"} /\ digCall[t].port = p
    /\ \/ p \in digitalPinMode <=> p \in output_pinmode
       \/ \E t \in DigThread : digPc[t] = "mode" /\ digCall[t].port = p

DigInv == DigTypes /\ DigCalls /\ DigPorts

LEMMA DigInit == Dig!Init => DigInv
BY DriversAssumption
   DEF Dig!DigitalPortsAssumption, Dig!Init, DigInv, DigTypes, Dig!TypeOK,
       DigInCall, DigCalls, DigPorts, Dig!NoCall

\* The lock: a thread inside a call is alone there.
LEMMA DigAlone ==
  ASSUME DigInv, NEW t \in DigThread, digPc[t] \in DigInCall
  PROVE  \A u \in DigThread \ {t} : digPc[u] \notin DigInCall
BY DEF DigInv, DigCalls

LEMMA DigCallKeeps ==
  ASSUME DigInv, NEW t \in DigThread, NEW p \in Port,
         NEW l \in Level \cup {Dig!NoLevel}, Dig!Call(t, p, l)
  PROVE  DigInv'
<1> USE DEF Dig!Call, Dig!Goes, DigInv, DigInCall
<1>1. DigTypes'
  BY DEF DigTypes, Dig!TypeOK
<1>2. DigCalls'
  BY DEF DigTypes, DigCalls, Dig!Writes
<1>3. DigPorts'
  BY DEF DigTypes, DigPorts
<1> QED BY <1>1, <1>2, <1>3

LEMMA DigLockKeeps ==
  ASSUME DigInv, NEW t \in DigThread, Dig!Lock(t)
  PROVE  DigInv'
<1> USE DEF Dig!Lock, Dig!Goes, Dig!Takes, DigInv, DigInCall
<1>1. /\ \A u \in DigThread : digPc[u] \notin DigInCall
      /\ Dig!FirstStep(t) = IF Dig!Writes(t) THEN "pwm" ELSE "load"
      /\ digPc' = [digPc EXCEPT ![t] = Dig!FirstStep(t)]
      /\ digCall[t].port \in Port
  BY DriversAssumption
     DEF Dig!NobodyAssumption, DigTypes, DigCalls, Dig!FirstStep
<1>2. DigTypes'
  BY <1>1 DEF DigTypes, Dig!TypeOK
<1>3. DigCalls'
  BY <1>1 DEF DigTypes, Dig!TypeOK, DigCalls, Dig!Writes
<1>4. DigPorts'
  <2> SUFFICES ASSUME NEW p \in Port
               PROVE  /\ \/ digAsked'[p] # Dig!NoLevel
                              => digitalPwm'[p] = digAsked'[p]
                         \/ \E u \in DigThread :
                              digPc'[u] = "pwm" /\ digCall'[u].port = p
                      /\ \/ p \in output_pinmode' <=> digAsked'[p] # Dig!NoLevel
                         \/ \E u \in DigThread :
                              /\ digPc'[u] \in {"pwm", "load", "store"}
                              /\ digCall'[u].port = p
                      /\ p \in digitalPinMode' <=> p \in output_pinmode'
    BY DEF DigPorts
  <2>1. CASE p = digCall[t].port
    BY <1>1, <2>1 DEF DigTypes, DigPorts, Dig!Writes, Dig!FirstStep
  <2>2. CASE p # digCall[t].port
    BY <1>1, <2>2 DEF DigTypes, DigPorts
  <2> QED BY <2>1, <2>2
<1> QED BY <1>2, <1>3, <1>4

LEMMA DigWritePwmKeeps ==
  ASSUME DigInv, NEW t \in DigThread, Dig!WritePwm(t)
  PROVE  DigInv'
<1> USE DEF Dig!WritePwm, Dig!Goes, Dig!Gives, DigInv, DigInCall
<1>1. /\ \A u \in DigThread \ {t} : digPc[u] \notin DigInCall
      /\ digCall[t] \in [port : Port, level : Level \cup {Dig!NoLevel}]
      /\ digAsked[digCall[t].port] = digCall[t].level
  BY DigAlone DEF DigTypes, DigCalls
<1>2. DigTypes'
  BY <1>1, DriversAssumption
     DEF Dig!DigitalPortsAssumption, DigTypes, Dig!TypeOK, Dig!Changed,
         Dig!NoCall, DigCalls, Dig!Writes
<1>3. DigCalls'
  BY <1>1 DEF DigTypes, Dig!TypeOK, DigCalls, Dig!Writes
<1>4. DigPorts'
  BY <1>1 DEF DigTypes, Dig!TypeOK, DigCalls, DigPorts, Dig!Changed, Dig!Writes
<1> QED BY <1>2, <1>3, <1>4

LEMMA DigLoadModesKeeps ==
  ASSUME DigInv, NEW t \in DigThread, Dig!LoadModes(t)
  PROVE  DigInv'
<1> USE DEF Dig!LoadModes, Dig!Goes, Dig!Gives, DigInv, DigInCall
<1>1. /\ \A u \in DigThread \ {t} : digPc[u] \notin DigInCall
      /\ digCall[t] \in [port : Port, level : Level \cup {Dig!NoLevel}]
      /\ digAsked[digCall[t].port] = digCall[t].level
  BY DigAlone DEF DigTypes, DigCalls
<1>2. DigTypes'
  BY <1>1, DriversAssumption
     DEF Dig!DigitalPortsAssumption, DigTypes, Dig!TypeOK, Dig!Changed,
         Dig!NoCall, DigCalls, Dig!Writes
<1>3. DigCalls'
  BY <1>1 DEF DigTypes, Dig!TypeOK, DigCalls, Dig!Writes
<1>4. DigPorts'
  BY <1>1 DEF DigTypes, Dig!TypeOK, DigCalls, DigPorts, Dig!Changed, Dig!Writes
<1> QED BY <1>2, <1>3, <1>4

LEMMA DigStoreModesKeeps ==
  ASSUME DigInv, NEW t \in DigThread, Dig!StoreModes(t)
  PROVE  DigInv'
<1> USE DEF Dig!StoreModes, Dig!Goes, Dig!Gives, DigInv, DigInCall
<1>1. /\ \A u \in DigThread \ {t} : digPc[u] \notin DigInCall
      /\ digCall[t] \in [port : Port, level : Level \cup {Dig!NoLevel}]
      /\ digAsked[digCall[t].port] = digCall[t].level
  BY DigAlone DEF DigTypes, DigCalls
<1>2. DigTypes'
  BY <1>1, DriversAssumption
     DEF Dig!DigitalPortsAssumption, DigTypes, Dig!TypeOK, Dig!Changed,
         Dig!NoCall, DigCalls, Dig!Writes
<1>3. DigCalls'
  BY <1>1 DEF DigTypes, Dig!TypeOK, DigCalls, Dig!Writes
<1>4. DigPorts'
  BY <1>1 DEF DigTypes, Dig!TypeOK, DigCalls, DigPorts, Dig!Changed, Dig!Writes
<1> QED BY <1>2, <1>3, <1>4

LEMMA DigWriteModesKeeps ==
  ASSUME DigInv, NEW t \in DigThread, Dig!WriteModes(t)
  PROVE  DigInv'
<1> USE DEF Dig!WriteModes, Dig!Goes, Dig!Gives, DigInv, DigInCall
<1>1. /\ \A u \in DigThread \ {t} : digPc[u] \notin DigInCall
      /\ digCall[t] \in [port : Port, level : Level \cup {Dig!NoLevel}]
      /\ digAsked[digCall[t].port] = digCall[t].level
  BY DigAlone DEF DigTypes, DigCalls
<1>2. DigTypes'
  BY <1>1, DriversAssumption
     DEF Dig!DigitalPortsAssumption, DigTypes, Dig!TypeOK, Dig!Changed,
         Dig!NoCall, DigCalls, Dig!Writes
<1>3. DigCalls'
  BY <1>1 DEF DigTypes, Dig!TypeOK, DigCalls, Dig!Writes
<1>4. DigPorts'
  BY <1>1 DEF DigTypes, Dig!TypeOK, DigCalls, DigPorts, Dig!Changed, Dig!Writes
<1> QED BY <1>2, <1>3, <1>4

LEMMA DigSampleKeeps ==
  ASSUME DigInv, NEW t \in DigThread, Dig!Sample(t)
  PROVE  DigInv'
<1> USE DEF Dig!Sample, Dig!Goes, Dig!Gives, DigInv, DigInCall
<1>1. /\ \A u \in DigThread \ {t} : digPc[u] \notin DigInCall
      /\ digCall[t] \in [port : Port, level : Level \cup {Dig!NoLevel}]
      /\ digAsked[digCall[t].port] = digCall[t].level
  BY DigAlone DEF DigTypes, DigCalls
<1>2. DigTypes'
  BY <1>1, DriversAssumption
     DEF Dig!DigitalPortsAssumption, DigTypes, Dig!TypeOK, Dig!Changed,
         Dig!NoCall, DigCalls, Dig!Writes
<1>3. DigCalls'
  BY <1>1 DEF DigTypes, Dig!TypeOK, DigCalls, Dig!Writes
<1>4. DigPorts'
  BY <1>1 DEF DigTypes, Dig!TypeOK, DigCalls, DigPorts, Dig!Changed, Dig!Writes
<1> QED BY <1>2, <1>3, <1>4

LEMMA DigUnlockKeeps ==
  ASSUME DigInv, NEW t \in DigThread, Dig!Unlock(t)
  PROVE  DigInv'
<1> USE DEF Dig!Unlock, Dig!Goes, Dig!Gives, DigInv, DigInCall
<1>1. /\ \A u \in DigThread \ {t} : digPc[u] \notin DigInCall
      /\ digCall[t] \in [port : Port, level : Level \cup {Dig!NoLevel}]
      /\ digAsked[digCall[t].port] = digCall[t].level
  BY DigAlone DEF DigTypes, DigCalls
<1>2. DigTypes'
  BY <1>1, DriversAssumption
     DEF Dig!DigitalPortsAssumption, DigTypes, Dig!TypeOK, Dig!Changed,
         Dig!NoCall, DigCalls, Dig!Writes
<1>3. DigCalls'
  BY <1>1 DEF DigTypes, Dig!TypeOK, DigCalls, Dig!Writes
<1>4. DigPorts'
  BY <1>1 DEF DigTypes, Dig!TypeOK, DigCalls, DigPorts, Dig!Changed, Dig!Writes
<1> QED BY <1>2, <1>3, <1>4

LEMMA DigNextKeeps == DigInv /\ [Dig!Next]_digVars => DigInv'
<1> SUFFICES ASSUME DigInv, [Dig!Next]_digVars PROVE DigInv'
  OBVIOUS
<1>1. CASE UNCHANGED digVars
  BY <1>1 DEF digVars, DigInv, DigTypes, Dig!TypeOK, DigCalls, DigPorts,
              Dig!Writes
<1> QED
  BY <1>1, DigCallKeeps, DigLockKeeps, DigWritePwmKeeps, DigLoadModesKeeps,
     DigStoreModesKeeps, DigWriteModesKeeps, DigSampleKeeps, DigUnlockKeeps
     DEF Dig!Next

LEMMA DigInvariant == Spec => [](part = "digital" => DigInv)
<1>1. Init => DigInv
  BY DigInit DEF Init
<1>2. (part = "digital" => DigInv) /\ [Next]_vars
        => (part = "digital" => DigInv)'
  BY DigSteps, DigNextKeeps
<1> QED BY <1>1, <1>2, PTL DEF Spec

\* A port that becomes an output has the level of the call that made it one.
LEMMA DigLevelFirst ==
  ASSUME DigInv, [Dig!Next]_digVars, NEW p \in Port,
         p \in digitalPinMode' \ digitalPinMode
  PROVE  digitalPwm'[p] = digAsked[p]
<1>1. PICK t \in DigThread : Dig!WriteModes(t)
  BY DEF Dig!Next, Dig!Call, Dig!Lock, Dig!WritePwm, Dig!LoadModes,
         Dig!StoreModes, Dig!Sample, Dig!Unlock, digVars
<1>2. /\ digPc[t] = "mode"
      /\ p \in output_pinmode
      /\ digitalPwm' = digitalPwm
  BY <1>1 DEF Dig!WriteModes, Dig!Goes
<1>3. \A u \in DigThread : digPc[u] \notin {"pwm", "load", "store"}
  BY <1>2, DigAlone DEF DigInCall
<1> QED BY <1>2, <1>3 DEF DigInv, DigPorts

\* Between calls every port is as the last call for it asked, a port is not
\* driven while it is sampled, and one that becomes an output never drives the
\* level of before: calls for different ports share a variable and a register
\* and do not undo each other (drivers/digital.c).
THEOREM PortsAreAsAsked == Spec => PortsAsAsked
<1>1. (part = "digital" => DigInv)
        => (part = "digital" => Dig!PortsAsAsked /\ Dig!SampledIsInput)
  <2> SUFFICES ASSUME DigInv PROVE Dig!PortsAsAsked /\ Dig!SampledIsInput
    OBVIOUS
  <2>1. Dig!PortsAsAsked
    BY DEF DigInv, DigPorts, Dig!PortsAsAsked
  <2>2. Dig!SampledIsInput
    <3> SUFFICES ASSUME NEW t \in DigThread, digPc[t] = "sample"
                 PROVE  digCall[t].port \notin digitalPinMode
      BY DEF Dig!SampledIsInput
    <3>1. \A u \in DigThread : digPc[u] \notin {"pwm", "load", "store", "mode"}
      BY DigAlone DEF DigInCall
    <3> QED
      BY <3>1 DEF DigInv, DigTypes, DigInCall, DigCalls, DigPorts, Dig!Writes
  <2> QED BY <2>1, <2>2
<1>2. (part = "digital" => DigInv) /\ [Next]_vars
        => [\A p \in Port : p \in digitalPinMode' \ digitalPinMode
              => digitalPwm'[p] = digAsked[p]]_Dig!vars
  <2>1. CASE part = "digital"
    BY <2>1, DigSteps, DigLevelFirst
  <2>2. CASE part # "digital"
    BY <2>2 DEF Next, vars, digVars
  <2> QED BY <2>1, <2>2
<1> QED BY <1>1, <1>2, DigInvariant, PTL DEF Spec, PortsAsAsked, Dig!NoStaleLevel

-----------------------------------------------------------------------------
(* Encoders *)

EncInCall == {"lo", "hi", "unlock"}

EncTypes ==
  /\ Enc!TypeOK
  /\ encPc \in [EncThread -> {"idle", "lock", "zero"} \cup EncInCall]
  /\ encCall \in [EncThread -> [entry : {"read", "reset"}, encoder : Encoder]]
  /\ \A t \in EncThread : encPc[t] # "idle" => encCall[t].encoder \in Uses[t]
  /\ atRead \in [EncThread -> 0 .. Enc!Modulus - 1]
  /\ zeroed \in [Encoder -> Seq(0 .. Enc!Modulus - 1)]
  /\ \A e \in Encoder : Len(zeroed[e]) > 0

\* The lock keeps the latch for the thread that filled it until that thread
\* has read it, so both bytes are those of one count.
EncBytes ==
  \A t \in EncThread :
    /\ encPc[t] \in EncInCall => encHolder["encoder"] = t
    /\ encPc[t] = "hi" => /\ encRaw[t]["lo"] = atRead[t] % EncBase
                          /\ tempHi = Enc!Latched(atRead[t])
    /\ encPc[t] \in {"unlock", "zero"} => Enc!Value(encRaw[t]) = atRead[t]

EncInv == EncTypes /\ EncBytes

\* The two bytes of a count.
LEMMA BytesOfCount ==
  ASSUME NEW n \in 0 .. Enc!Modulus - 1
  PROVE  /\ n % EncBase \in Enc!Byte
         /\ Enc!Latched(n) \in Enc!Byte
         /\ Enc!Latched(n) * EncBase + (n % EncBase) = n
<1>1. EncBase \in Nat \ {0} /\ n \in 0 .. EncBase * EncBase - 1
  BY DriversAssumption DEF Enc!EncodersAssumption, Enc!Modulus
<1>2. n \div EncBase \in 0 .. EncBase - 1
  BY <1>1, QuotientBounds, Zenon
<1>3. /\ n % EncBase \in 0 .. EncBase - 1
      /\ n = ((n \div EncBase) * EncBase) + (n % EncBase)
  <2>1. n \in Int
    BY <1>1
  <2> QED BY <1>1, <2>1, BytesOfNumber
<1> QED BY <1>2, <1>3 DEF Enc!Byte, Enc!Latched

LEMMA ModulusType == Enc!Modulus \in Nat \ {0} /\ EncBase \in Nat \ {0}
<1>1. EncBase \in Nat \ {0}
  BY DriversAssumption DEF Enc!EncodersAssumption
<1>2. EncBase * EncBase # 0
  BY <1>1
<1> QED BY <1>1, <1>2 DEF Enc!Modulus

LEMMA EncInit == Enc!Init => EncInv
<1> SUFFICES ASSUME Enc!Init PROVE EncInv
  OBVIOUS
<1> USE DEF Enc!Init
<1>1. Enc!NoCall \in [entry : {"read", "reset"}, encoder : Encoder]
  BY DriversAssumption DEF Enc!EncodersAssumption, Enc!NoCall
<1>2. 0 \in Enc!Byte /\ 0 \in 0 .. Enc!Modulus - 1
  BY ModulusType DEF Enc!Byte
<1>3. <<0>> \in Seq(0 .. Enc!Modulus - 1) /\ Len(<<0>>) = 1
  BY <1>2
<1>4. Enc!TypeOK
  BY <1>2 DEF Enc!TypeOK, Enc!Zero
<1>5. EncTypes
  BY <1>1, <1>2, <1>3, <1>4 DEF EncTypes
<1> QED BY <1>5 DEF EncInv, EncBytes, EncInCall

LEMMA EncPulseKeeps ==
  ASSUME EncInv, NEW e \in Encoder, Enc!Pulse(e)
  PROVE  EncInv'
<1>1. encCount' \in [Encoder -> 0 .. Enc!Modulus - 1]
  <2>1. (encCount[e] + 1) % Enc!Modulus \in 0 .. Enc!Modulus - 1
    BY ModulusType, SMTT(40) DEF EncInv, EncTypes, Enc!TypeOK
  <2> QED BY <2>1 DEF Enc!Pulse, EncInv, EncTypes, Enc!TypeOK
<1> QED
  BY <1>1 DEF Enc!Pulse, EncInv, EncTypes, Enc!TypeOK, EncBytes, Enc!Value

LEMMA EncCallKeeps ==
  ASSUME EncInv, NEW t \in EncThread, NEW e \in Uses[t],
         NEW entry \in {"read", "reset"}, Enc!Call(t, entry, e)
  PROVE  EncInv'
<1>1. e \in Encoder
  BY DriversAssumption DEF Enc!EncodersAssumption
<1> QED
  BY <1>1, SMTT(40) DEF Enc!Call, Enc!Goes, EncInv, EncTypes, Enc!TypeOK, EncBytes,
              Enc!Value, EncInCall

LEMMA EncLockKeeps ==
  ASSUME EncInv, NEW t \in EncThread, Enc!Lock(t)
  PROVE  EncInv'
BY DriversAssumption
   DEF Enc!NobodyAssumption, Enc!Lock, Enc!Goes, Enc!Takes, EncInv, EncTypes,
       Enc!TypeOK, EncBytes, Enc!Value, EncInCall

LEMMA EncReadLoKeeps ==
  ASSUME EncInv, NEW t \in EncThread, Enc!ReadLo(t)
  PROVE  EncInv'
<1> DEFINE n == encCount[encCall[t].encoder]
<1>1. /\ n \in 0 .. Enc!Modulus - 1
      /\ encRaw' = [encRaw EXCEPT ![t]["lo"] = n % EncBase]
      /\ tempHi' = Enc!Latched(n)
      /\ atRead' = [atRead EXCEPT ![t] = n]
      /\ encPc[t] = "lo" /\ encPc' = [encPc EXCEPT ![t] = "hi"]
      /\ UNCHANGED <<encHolder, encCount, zero, encCall, encLoaded, encTodo,
                     zeroed>>
  BY DEF Enc!ReadLo, Enc!Goes, EncInv, EncTypes, Enc!TypeOK
<1>2. n % EncBase \in Enc!Byte /\ Enc!Latched(n) \in Enc!Byte
  BY <1>1, BytesOfCount
<1> HIDE DEF n
<1>3. EncTypes'
  BY <1>1, <1>2 DEF EncInv, EncTypes, Enc!TypeOK, Enc!Bytes, EncInCall
<1>4. EncBytes'
  BY <1>1, <1>2
     DEF EncInv, EncTypes, Enc!TypeOK, Enc!Bytes, EncBytes, EncInCall, Enc!Value
<1> QED BY <1>3, <1>4 DEF EncInv

LEMMA EncReadHiKeeps ==
  ASSUME EncInv, NEW t \in EncThread, Enc!ReadHi(t)
  PROVE  EncInv'
<1>1. /\ encRaw' = [encRaw EXCEPT ![t]["hi"] = tempHi]
      /\ encPc[t] = "hi" /\ encPc' = [encPc EXCEPT ![t] = "unlock"]
      /\ UNCHANGED <<encHolder, encCount, tempHi, zero, encCall, encLoaded,
                     encTodo, atRead, zeroed>>
  BY DEF Enc!ReadHi, Enc!Goes
<1>2. EncTypes'
  BY <1>1 DEF EncInv, EncTypes, Enc!TypeOK, Enc!Bytes, EncInCall
<1>3. Enc!Value(encRaw'[t]) = atRead[t]
  <2>1. /\ encRaw'[t]["hi"] = Enc!Latched(atRead[t])
        /\ encRaw'[t]["lo"] = atRead[t] % EncBase
    BY <1>1 DEF EncInv, EncTypes, Enc!TypeOK, Enc!Bytes, EncBytes
  <2>2. atRead[t] \in 0 .. Enc!Modulus - 1
    BY DEF EncInv, EncTypes
  <2> QED BY <2>1, <2>2, BytesOfCount DEF Enc!Value
<1>4. EncBytes'
  BY <1>1, <1>3
     DEF EncInv, EncTypes, Enc!TypeOK, EncBytes, EncInCall, Enc!Value
<1> QED BY <1>2, <1>4 DEF EncInv

LEMMA EncUnlockKeeps ==
  ASSUME EncInv, NEW t \in EncThread, Enc!Unlock(t)
  PROVE  EncInv'
<1>1. /\ encPc[t] = "unlock" /\ encPc' = [encPc EXCEPT ![t] = "zero"]
      /\ encHolder' = [encHolder EXCEPT !["encoder"] = Nobody]
      /\ encTodo' = [encTodo EXCEPT ![t] = Enc!Bytes]
      /\ UNCHANGED <<encCount, tempHi, zero, encCall, encRaw, encLoaded, atRead>>
  BY DEF Enc!Unlock, Enc!Goes, Enc!Gives
<1>2. /\ zeroed' \in [Encoder -> Seq(0 .. Enc!Modulus - 1)]
      /\ \A e \in Encoder : Len(zeroed'[e]) > 0
  BY DEF Enc!Unlock, EncInv, EncTypes
<1>3. EncTypes'
  BY <1>1, <1>2 DEF EncInv, EncTypes, Enc!TypeOK, EncInCall
<1>4. EncBytes'
  BY <1>1 DEF EncInv, EncTypes, EncBytes, EncInCall, Enc!Value
<1> QED BY <1>3, <1>4 DEF EncInv

LEMMA EncStoreZeroKeeps ==
  ASSUME EncInv, NEW t \in EncThread, Enc!StoreZero(t)
  PROVE  EncInv'
<1>1. EncTypes'
  BY DEF Enc!StoreZero, Enc!Store, EncInv, EncTypes, Enc!TypeOK
<1> QED
  BY <1>1 DEF Enc!StoreZero, EncInv, EncTypes, EncBytes, Enc!Value

LEMMA EncLoadZeroKeeps ==
  ASSUME EncInv, NEW t \in EncThread, Enc!LoadZero(t)
  PROVE  EncInv'
<1>1. EncTypes'
  BY DEF Enc!LoadZero, EncInv, EncTypes, Enc!TypeOK
<1> QED
  BY <1>1 DEF Enc!LoadZero, EncInv, EncTypes, EncBytes, Enc!Value

LEMMA EncReturnKeeps ==
  ASSUME EncInv, NEW t \in EncThread, Enc!Return(t)
  PROVE  EncInv'
<1>1. Enc!NoCall \in [entry : {"read", "reset"}, encoder : Encoder]
  BY DriversAssumption DEF Enc!EncodersAssumption, Enc!NoCall
<1>2. 0 \in Enc!Byte /\ 0 \in 0 .. Enc!Modulus - 1
  BY ModulusType DEF Enc!Byte
<1>3. EncTypes'
  BY <1>1, <1>2
     DEF Enc!Return, Enc!Goes, EncInv, EncTypes, Enc!TypeOK, Enc!Zero
<1> QED
  BY <1>3 DEF Enc!Return, Enc!Goes, EncInv, EncTypes, Enc!TypeOK, EncBytes,
              EncInCall, Enc!Value

LEMMA EncNextKeeps == EncInv /\ [Enc!Next]_encVars => EncInv'
<1> SUFFICES ASSUME EncInv, [Enc!Next]_encVars PROVE EncInv'
  OBVIOUS
<1>1. CASE UNCHANGED encVars
  BY <1>1 DEF encVars, EncInv, EncTypes, Enc!TypeOK, EncBytes, Enc!Value
<1> QED
  BY <1>1, EncPulseKeeps, EncCallKeeps, EncLockKeeps, EncReadLoKeeps,
     EncReadHiKeeps, EncUnlockKeeps, EncStoreZeroKeeps, EncLoadZeroKeeps,
     EncReturnKeeps
     DEF Enc!Next

\* The hypothesis under which a reading is the distance since the last reset:
\* the counters are free for all, the zero points are not locked.
UsedByOneThread ==
  \A t, u \in EncThread : t # u => Uses[t] \cap Uses[u] = {}

EncResets(t, e) ==
  /\ encPc[t] = "zero" /\ encCall[t].entry = "reset"
  /\ encCall[t].encoder = e

\* The zero point of an encoder is the count of its last reset, or a call of
\* its only user is storing it; what that user has loaded or stored so far it
\* has whole.
EncZeros ==
  /\ \A e \in Encoder :
       \/ Enc!Value(zero[e]) = Enc!LastZeroed(e)
       \/ \E t \in EncThread : EncResets(t, e)
  /\ \A t \in EncThread :
       encPc[t] = "zero" =>
         /\ encCall[t].entry = "reset" =>
              /\ atRead[t] = Enc!LastZeroed(encCall[t].encoder)
              /\ \A b \in Enc!Bytes \ encTodo[t] :
                   zero[encCall[t].encoder][b] = encRaw[t][b]
         /\ encCall[t].entry = "read" =>
              \A b \in Enc!Bytes \ encTodo[t] :
                encLoaded[t][b] = zero[encCall[t].encoder][b]

\* A step that leaves the zero points, and the calls that are about to use
\* them.
LEMMA ZerosUntouched ==
  ASSUME EncZeros, UNCHANGED <<zero, zeroed>>,
         \A u \in EncThread :
           \/ /\ encPc'[u] = encPc[u] /\ encCall'[u] = encCall[u]
              /\ atRead'[u] = atRead[u] /\ encTodo'[u] = encTodo[u]
              /\ encRaw'[u] = encRaw[u] /\ encLoaded'[u] = encLoaded[u]
           \/ encPc[u] # "zero" /\ encPc'[u] # "zero"
  PROVE  EncZeros'
<1>1. \A u \in EncThread, e \in Encoder : EncResets(u, e) => EncResets(u, e)'
  BY DEF EncResets
<1>2. \A e \in Encoder : \/ Enc!Value(zero'[e]) = Enc!LastZeroed(e)'
                         \/ \E t \in EncThread : EncResets(t, e)'
  BY <1>1 DEF EncZeros, Enc!Value, Enc!LastZeroed
<1> QED BY <1>2 DEF EncZeros, Enc!LastZeroed, Enc!Value

LEMMA ZeroValueEqual ==
  ASSUME NEW a \in [Enc!Bytes -> Enc!Byte], NEW b \in [Enc!Bytes -> Enc!Byte],
         \A x \in Enc!Bytes : a[x] = b[x]
  PROVE  Enc!Value(a) = Enc!Value(b)
BY DEF Enc!Bytes, Enc!Value

LEMMA EncUnlockKeepsZeros ==
  ASSUME EncInv, EncZeros, UsedByOneThread, NEW t \in EncThread, Enc!Unlock(t)
  PROVE  EncZeros'
<1> DEFINE e1 == encCall[t].encoder
<1>1. /\ encPc[t] = "unlock" /\ encPc' = [encPc EXCEPT ![t] = "zero"]
      /\ encTodo' = [encTodo EXCEPT ![t] = Enc!Bytes]
      /\ UNCHANGED <<zero, encCall, encRaw, encLoaded, atRead>>
      /\ e1 \in Encoder /\ e1 \in Uses[t]
      /\ encCall[t].entry \in {"read", "reset"}
      /\ atRead[t] \in 0 .. Enc!Modulus - 1
      /\ zeroed[e1] \in Seq(0 .. Enc!Modulus - 1)
  BY DEF Enc!Unlock, Enc!Goes, EncInv, EncTypes
<1>2. \A u \in EncThread \ {t} : encPc[u] # "idle" => encCall[u].encoder # e1
  BY <1>1 DEF UsedByOneThread, EncInv, EncTypes
<1>3. CASE encCall[t].entry = "read"
  <2>1. zeroed' = zeroed
    BY <1>3 DEF Enc!Unlock
  <2> QED
    BY <1>1, <1>3, <2>1
       DEF EncZeros, EncResets, EncInv, EncTypes, Enc!TypeOK, Enc!Value,
           Enc!LastZeroed
<1>4. CASE encCall[t].entry = "reset"
  <2>1. /\ zeroed' = [zeroed EXCEPT ![e1] = Append(@, atRead[t])]
        /\ Enc!LastZeroed(e1)' = atRead[t]
        /\ \A e \in Encoder \ {e1} : Enc!LastZeroed(e)' = Enc!LastZeroed(e)
    BY <1>1, <1>4 DEF Enc!Unlock, Enc!LastZeroed, EncInv, EncTypes
  <2>2. EncResets(t, e1)'
    BY <1>1, <1>4 DEF EncResets, EncInv, EncTypes
  <2>3. \A u \in EncThread, e \in Encoder : EncResets(u, e) => EncResets(u, e)'
    BY <1>1 DEF EncResets, EncInv, EncTypes
  <2>4. \A e \in Encoder : \/ Enc!Value(zero'[e]) = Enc!LastZeroed(e)'
                           \/ \E u \in EncThread : EncResets(u, e)'
    BY <1>1, <2>1, <2>2, <2>3 DEF EncZeros, Enc!Value
  <2>5. ASSUME NEW u \in EncThread, encPc'[u] = "zero"
        PROVE  /\ encCall'[u].entry = "reset" =>
                    /\ atRead'[u] = Enc!LastZeroed(encCall[u].encoder)'
                    /\ \A b \in Enc!Bytes \ encTodo'[u] :
                         zero'[encCall'[u].encoder][b] = encRaw'[u][b]
               /\ encCall'[u].entry = "read" =>
                    \A b \in Enc!Bytes \ encTodo'[u] :
                      encLoaded'[u][b] = zero'[encCall'[u].encoder][b]
    <3>1. CASE u = t
      BY <1>1, <1>4, <2>1, <3>1 DEF EncInv, EncTypes, Enc!TypeOK
    <3>2. CASE u # t
      <4>1. encPc[u] = "zero" /\ encTodo'[u] = encTodo[u]
        BY <1>1, <2>5, <3>2 DEF EncInv, EncTypes, Enc!TypeOK
      <4>2. encCall[u].encoder \in Encoder \ {e1}
        BY <1>2, <3>2, <4>1 DEF EncInv, EncTypes
      <4> QED BY <1>1, <2>1, <4>1, <4>2 DEF EncZeros
    <3> QED BY <3>1, <3>2
  <2> QED BY <1>1, <2>4, <2>5 DEF EncZeros
<1> QED BY <1>1, <1>3, <1>4

LEMMA EncStoreKeepsZeros ==
  ASSUME EncInv, EncZeros, UsedByOneThread, NEW t \in EncThread,
         Enc!StoreZero(t)
  PROVE  EncZeros'
<1> DEFINE e1 == encCall[t].encoder
<1>1. PICK b1 \in encTodo[t] :
        /\ encPc[t] = "zero" /\ encCall[t].entry = "reset"
        /\ zero' = [zero EXCEPT ![e1][b1] = encRaw[t][b1]]
        /\ encTodo' = [encTodo EXCEPT ![t] = @ \ {b1}]
        /\ UNCHANGED <<encPc, encCall, encRaw, encLoaded, atRead, zeroed>>
  BY DEF Enc!StoreZero, Enc!Store
<1>2. e1 \in Encoder /\ e1 \in Uses[t] /\ b1 \in Enc!Bytes
  BY <1>1 DEF EncInv, EncTypes, Enc!TypeOK
<1>3. \A u \in EncThread \ {t} : encPc[u] # "idle" => encCall[u].encoder # e1
  BY <1>2 DEF UsedByOneThread, EncInv, EncTypes
<1>4. /\ zero'[e1][b1] = encRaw[t][b1]
      /\ \A b \in Enc!Bytes \ {b1} : zero'[e1][b] = zero[e1][b]
      /\ \A e \in Encoder \ {e1} : zero'[e] = zero[e]
  BY <1>1, <1>2 DEF EncInv, EncTypes, Enc!TypeOK
<1>5. \A e \in Encoder : \/ Enc!Value(zero'[e]) = Enc!LastZeroed(e)'
                         \/ \E u \in EncThread : EncResets(u, e)'
  <2>1. EncResets(t, e1)'
    BY <1>1 DEF EncResets
  <2>2. \A u \in EncThread, e \in Encoder : EncResets(u, e) => EncResets(u, e)'
    BY <1>1 DEF EncResets
  <2> QED
    BY <1>1, <1>4, <2>1, <2>2 DEF EncZeros, Enc!Value, Enc!LastZeroed
<1>6. ASSUME NEW u \in EncThread, encPc'[u] = "zero"
      PROVE  /\ encCall'[u].entry = "reset" =>
                  /\ atRead'[u] = Enc!LastZeroed(encCall[u].encoder)'
                  /\ \A b \in Enc!Bytes \ encTodo'[u] :
                       zero'[encCall'[u].encoder][b] = encRaw'[u][b]
             /\ encCall'[u].entry = "read" =>
                  \A b \in Enc!Bytes \ encTodo'[u] :
                    encLoaded'[u][b] = zero'[encCall'[u].encoder][b]
  <2>1. CASE u = t
    BY <1>1, <1>2, <1>4, <2>1
       DEF EncZeros, EncInv, EncTypes, Enc!TypeOK, Enc!LastZeroed
  <2>2. CASE u # t
    <3>1. encCall[u].encoder \in Encoder \ {e1}
      BY <1>1, <1>3, <1>6, <2>2 DEF EncInv, EncTypes
    <3> QED
      BY <1>1, <1>4, <1>6, <2>2, <3>1
         DEF EncZeros, EncInv, EncTypes, Enc!TypeOK, Enc!LastZeroed
  <2> QED BY <2>1, <2>2
<1> QED BY <1>1, <1>5, <1>6 DEF EncZeros

LEMMA EncLoadKeepsZeros ==
  ASSUME EncInv, EncZeros, NEW t \in EncThread, Enc!LoadZero(t)
  PROVE  EncZeros'
<1>1. PICK b1 \in encTodo[t] :
        /\ encPc[t] = "zero" /\ encCall[t].entry = "read"
        /\ encLoaded' = [encLoaded EXCEPT ![t][b1] =
                           zero[encCall[t].encoder][b1]]
        /\ encTodo' = [encTodo EXCEPT ![t] = @ \ {b1}]
        /\ UNCHANGED <<encPc, encCall, encRaw, zero, atRead, zeroed>>
  BY DEF Enc!LoadZero
<1>2. \A e \in Encoder : \/ Enc!Value(zero'[e]) = Enc!LastZeroed(e)'
                         \/ \E u \in EncThread : EncResets(u, e)'
  BY <1>1 DEF EncZeros, Enc!Value, Enc!LastZeroed, EncResets
<1> QED
  BY <1>1, <1>2
     DEF EncZeros, EncInv, EncTypes, Enc!TypeOK, Enc!LastZeroed, Enc!Value

LEMMA EncReturnKeepsZeros ==
  ASSUME EncInv, EncZeros, NEW t \in EncThread, Enc!Return(t)
  PROVE  EncZeros'
<1>1. /\ encPc[t] = "zero" /\ encPc' = [encPc EXCEPT ![t] = "idle"]
      /\ encTodo[t] = {}
      /\ \A u \in EncThread \ {t} :
           /\ encPc'[u] = encPc[u] /\ encCall'[u] = encCall[u]
           /\ atRead'[u] = atRead[u] /\ encTodo'[u] = encTodo[u]
           /\ encRaw'[u] = encRaw[u] /\ encLoaded'[u] = encLoaded[u]
      /\ UNCHANGED <<zero, zeroed>>
      /\ encCall[t].encoder \in Encoder
  BY DEF Enc!Return, Enc!Goes, EncInv, EncTypes, Enc!TypeOK
<1>2. encCall[t].entry = "reset" =>
        Enc!Value(zero[encCall[t].encoder]) = Enc!LastZeroed(encCall[t].encoder)
  <2> SUFFICES ASSUME encCall[t].entry = "reset"
               PROVE  Enc!Value(zero[encCall[t].encoder])
                        = Enc!LastZeroed(encCall[t].encoder)
    OBVIOUS
  <2>1. \A b \in Enc!Bytes : zero[encCall[t].encoder][b] = encRaw[t][b]
    BY <1>1 DEF EncZeros
  <2>2. Enc!Value(zero[encCall[t].encoder]) = Enc!Value(encRaw[t])
    <3>1. /\ zero[encCall[t].encoder] \in [Enc!Bytes -> Enc!Byte]
          /\ encRaw[t] \in [Enc!Bytes -> Enc!Byte]
      BY <1>1 DEF EncInv, EncTypes, Enc!TypeOK
    <3> QED BY <2>1, <3>1, ZeroValueEqual
  <2> QED BY <1>1, <2>2 DEF EncZeros, EncInv, EncBytes
<1>3. \A e \in Encoder : \/ Enc!Value(zero'[e]) = Enc!LastZeroed(e)'
                         \/ \E u \in EncThread : EncResets(u, e)'
  <2> SUFFICES ASSUME NEW e \in Encoder,
                      Enc!Value(zero[e]) # Enc!LastZeroed(e)
               PROVE  \E u \in EncThread : EncResets(u, e)'
    BY <1>1 DEF Enc!Value, Enc!LastZeroed
  <2>1. PICK u \in EncThread : EncResets(u, e)
    BY DEF EncZeros
  <2>2. u # t
    BY <1>2, <2>1 DEF EncResets
  <2> QED BY <1>1, <2>1, <2>2 DEF EncResets
<1>4. \A u \in EncThread : encPc'[u] = "zero" => u # t
  BY <1>1 DEF EncInv, EncTypes
<1> QED
  BY <1>1, <1>3, <1>4 DEF EncZeros, Enc!LastZeroed

LEMMA EncNextKeepsZeros ==
  UsedByOneThread /\ EncInv /\ EncZeros /\ [Enc!Next]_encVars => EncZeros'
<1> SUFFICES ASSUME UsedByOneThread, EncInv, EncZeros, [Enc!Next]_encVars
             PROVE  EncZeros'
  OBVIOUS
<1>1. CASE UNCHANGED encVars
  BY <1>1, ZerosUntouched DEF encVars
<1>2. ASSUME NEW e \in Encoder, Enc!Pulse(e) PROVE EncZeros'
  BY <1>2, ZerosUntouched DEF Enc!Pulse
<1>3. ASSUME NEW t \in EncThread, NEW e \in Uses[t],
             NEW entry \in {"read", "reset"}, Enc!Call(t, entry, e)
      PROVE  EncZeros'
  BY <1>3, ZerosUntouched DEF Enc!Call, Enc!Goes, EncInv, EncTypes
<1>4. ASSUME NEW t \in EncThread, Enc!Lock(t) PROVE EncZeros'
  BY <1>4, ZerosUntouched DEF Enc!Lock, Enc!Goes, EncInv, EncTypes
<1>5. ASSUME NEW t \in EncThread, Enc!ReadLo(t) PROVE EncZeros'
  BY <1>5, ZerosUntouched
     DEF Enc!ReadLo, Enc!Goes, EncInv, EncTypes, Enc!TypeOK
<1>6. ASSUME NEW t \in EncThread, Enc!ReadHi(t) PROVE EncZeros'
  BY <1>6, ZerosUntouched
     DEF Enc!ReadHi, Enc!Goes, EncInv, EncTypes, Enc!TypeOK
<1> QED
  BY <1>1, <1>2, <1>3, <1>4, <1>5, <1>6, EncUnlockKeepsZeros,
     EncStoreKeepsZeros, EncLoadKeepsZeros, EncReturnKeepsZeros
     DEF Enc!Next

LEMMA EncInvariant == Spec => [](part = "encoders" => EncInv)
<1>1. Init => EncInv
  BY EncInit DEF Init
<1>2. (part = "encoders" => EncInv) /\ [Next]_vars
        => (part = "encoders" => EncInv)'
  BY EncSteps, EncNextKeeps
<1> QED BY <1>1, <1>2, PTL DEF Spec

\* What encoder_read_raw() returns is one count, whoever else reads encoders
\* and however far the wheel turns between the two bytes: nobody else moves
\* the latch (drivers/encoder.c, xilinx/fpga/happyio.v).
THEOREM ReadingsAreWhole ==
  Spec => [](part = "encoders" => Enc!ReadingsAreWhole)
<1>1. (part = "encoders" => EncInv)
        => (part = "encoders" => Enc!ReadingsAreWhole)
  BY DEF EncInv, EncBytes, Enc!ReadingsAreWhole
<1> QED BY <1>1, EncInvariant, PTL

\* If no two threads use the same encoder, encoder_read() returns the distance
\* since the last encoder_reset(), also when the counter has run over.
THEOREM DistancesAreRight ==
  ASSUME UsedByOneThread PROVE Spec => []DistancesAreTrue
<1>1. Init => EncZeros
  <2> SUFFICES ASSUME Enc!Init PROVE EncZeros
    BY DEF Init
  <2>1. \A e \in Encoder : Enc!LastZeroed(e) = 0
    BY DEF Enc!Init, Enc!LastZeroed
  <2>2. \A e \in Encoder : Enc!Value(zero[e]) = 0
    BY ModulusType DEF Enc!Init, Enc!Value, Enc!Zero, Enc!Bytes
  <2>3. \A t \in EncThread : encPc[t] # "zero"
    BY DEF Enc!Init
  <2> QED BY <2>1, <2>2, <2>3 DEF EncZeros
<1>2. (part = "encoders" => EncInv) /\ (part = "encoders" => EncZeros)
      /\ [Next]_vars => (part = "encoders" => EncZeros)'
  BY EncSteps, EncNextKeepsZeros
<1>3. (part = "encoders" => EncInv) /\ (part = "encoders" => EncZeros)
        => DistancesAreTrue
  <2> SUFFICES ASSUME EncInv, EncZeros
               PROVE  Enc!ReadingsAreWhole /\ Enc!ReadsDistanceSinceReset
    BY DEF DistancesAreTrue
  <2>1. Enc!ReadingsAreWhole
    BY DEF EncInv, EncBytes, Enc!ReadingsAreWhole
  <2>2. ASSUME NEW t \in EncThread, Enc!Returning(t)
        PROVE  Enc!Reading(t)
                 = Enc!Distance(atRead[t], Enc!LastZeroed(encCall[t].encoder))
    <3> DEFINE e == encCall[t].encoder
    <3>1. /\ encPc[t] = "zero" /\ encCall[t].entry = "read" /\ e \in Encoder
          /\ \A b \in Enc!Bytes : encLoaded[t][b] = zero[e][b]
      BY <2>2, ZenonT(60) DEF Enc!Returning, EncZeros, EncInv, EncTypes
    <3>2. \A u \in EncThread : ~EncResets(u, e)
      BY <3>1 DEF EncResets, UsedByOneThread, EncInv, EncTypes
    <3>3. Enc!Value(zero[e]) = Enc!LastZeroed(e)
      BY <3>1, <3>2 DEF EncZeros
    <3>4. Enc!Value(encLoaded[t]) = Enc!Value(zero[e])
      BY <3>1, ZeroValueEqual, Zenon DEF EncInv, EncTypes, Enc!TypeOK
    <3>5. Enc!Value(encRaw[t]) = atRead[t]
      BY <3>1 DEF EncInv, EncBytes
    <3> QED BY <3>3, <3>4, <3>5 DEF Enc!Reading
  <2> QED BY <2>1, <2>2 DEF Enc!ReadsDistanceSinceReset
<1> QED BY <1>1, <1>2, <1>3, EncInvariant, PTL DEF Spec
=============================================================================
