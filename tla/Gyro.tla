-------------------------------- MODULE Gyro --------------------------------
(***************************************************************************)
(* The gyroscope, drivers/gyro.c, and the clock it integrates over:        *)
(* get_time_us() of kern/thread.c and the interrupt of the timer.          *)
(*                                                                         *)
(* The timer counts from TIMER_1MS_EXPIRE to its top and starts again from *)
(* 0; the interrupt sets it back and counts a millisecond.  With           *)
(* interrupts off that has to wait, and the time is of another epoch until *)
(* it is done.  Times are in ticks and are computed modulo 2^w.            *)
(***************************************************************************)
EXTENDS DriverLocks

CONSTANTS
  GyroThread,    \* the thread that runs gyro_update()
  User,          \* a thread of the program
  Top,           \* the timer counts 0 .. Top - 1 (256)
  Expire,        \* TIMER_1MS_EXPIRE (131)
  Modulus32,     \* number of values of a 32-bit time
  StartTimes,    \* values of global_time when gyro_init() is called
  Readings,      \* what analog_read() may return
  Degrees,       \* angles the gyro is set to, in units of _theta
  CalibrationMs, \* time_ms
  MaxTicks, MaxSamples, MaxUpdates, MaxSets   \* bounds

GyroAssumption ==
  /\ GyroThread \in Thread /\ User \in Thread \ {GyroThread}
  /\ Top \in Nat /\ Expire \in 1 .. Top - 1
  /\ Modulus32 \in Nat \ {0} /\ Modulus32 % 2 = 0
  /\ StartTimes \subseteq Nat /\ Readings \subseteq Nat /\ Degrees \subseteq Int
  /\ CalibrationMs \in Nat \ {0}

VARIABLES
  global_time,   \* milliseconds counted
  tcnt,          \* TCNT2
  pending,       \* the overflow flag of the timer
  ticks,         \* the ticks there have been, a counter of the bound
  begun,         \* history: global_time at first
  lost,          \* history: ticks that passed while an overflow was pending
  start_time,    \* when the calibration began
  sum, samples,  \* the calibration
  _theta, _theta_fix,
  time_us,       \* the time of the sample before
  new_time_us,   \* the time of this sample
  reading,       \* the sample
  dtheta,        \* what is to be subtracted from _theta
  area,          \* history: the exact integral since the gyro was set
  since,         \* history: _theta and _theta_fix when it was
  updates, sets  \* counters of the bounds

clockVars == <<global_time, tcnt, pending, ticks, begun, lost>>
calibration == <<start_time, sum, samples>>
angle == <<_theta, _theta_fix, area, since, sets>>
update == <<time_us, new_time_us, reading, dtheta, updates>>
gyroVars == <<clockVars, calibration, angle, update>>

MsTicks == Top - Expire
_offset == sum \div samples
_offset_fix == sum % samples

Signed32(n) == ((n + Modulus32 \div 2) % Modulus32) - Modulus32 \div 2

\* Division as in C, towards 0.
Quotient(a, b) == IF a >= 0 THEN a \div b ELSE -((-a) \div b)

GyroTypeOK ==
  /\ tcnt \in 0 .. Top - 1
  /\ time_us \in 0 .. Modulus32 - 1
  /\ dtheta \in -(Modulus32 \div 2) .. Modulus32 \div 2 - 1
  /\ samples > 0 => _theta_fix \in -(samples - 1) .. samples - 1

GyroInit ==
  /\ global_time \in StartTimes
  /\ tcnt = Expire /\ pending = FALSE /\ ticks = 0
  /\ begun = global_time /\ lost = 0
  /\ start_time = 0 /\ sum = 0 /\ samples = 0
  /\ _theta = 0 /\ _theta_fix = 0
  /\ time_us = 0 /\ new_time_us = 0 /\ reading = 0 /\ dtheta = 0
  /\ area = 0 /\ since = <<0, 0>>
  /\ updates = 0 /\ sets = 0

-----------------------------------------------------------------------------
(* The clock *)

\* With interrupts off the flag stays set and the timer counts on.
Tick ==
  /\ ticks < MaxTicks
  /\ pending => halter # Nobody /\ tcnt < Top - 1
  /\ ticks' = ticks + 1
  /\ tcnt' = (tcnt + 1) % Top
  /\ pending' = (pending \/ tcnt = Top - 1)
  /\ UNCHANGED <<halter, holder, pc, global_time, begun, lost, calibration,
                 angle, update>>

Reloaded == Expire

TimerInterrupt ==
  /\ pending /\ halter = Nobody
  /\ pending' = FALSE
  /\ tcnt' = Reloaded
  /\ global_time' = global_time + 1
  /\ lost' = lost + tcnt
  /\ UNCHANGED <<halter, holder, pc, ticks, begun, calibration, angle, update>>

\* With interrupts on the interrupt comes before anything a thread does.
Steps(t, from, to) == Goes(t, from, to) /\ (pending => halter = t)

\* get_time_us(), without a look at the flag.
TimeUs == (global_time * MsTicks + tcnt - Expire) % Modulus32

\* A section of some other code with interrupts off.
BeginSection ==
  /\ Steps(User, "idle", "section")
  /\ halter' = User
  /\ UNCHANGED <<holder, gyroVars>>

EndSection ==
  /\ Steps(User, "section", "idle")
  /\ halter' = Nobody
  /\ UNCHANGED <<holder, gyroVars>>

-----------------------------------------------------------------------------
(* gyro_init() *)

BeginCalibration ==
  /\ samples = 0
  /\ Steps(User, "idle", "calibrate")
  /\ start_time' = global_time
  /\ UNCHANGED <<halter, holder, clockVars, sum, samples, angle, update>>

Calibrate(r) ==
  /\ samples < MaxSamples
  /\ Steps(User, "calibrate", "calibrate")
  /\ global_time - start_time < CalibrationMs
  /\ sum' = sum + r
  /\ samples' = samples + 1
  /\ UNCHANGED <<halter, holder, clockVars, start_time, angle, update>>

\* Time enough for a sample has passed (or the driver would divide by 0).
EndCalibration ==
  /\ samples > 0
  /\ global_time - start_time >= CalibrationMs
  /\ Steps(User, "calibrate", "idle")
  /\ UNCHANGED <<halter, holder, gyroVars>>

-----------------------------------------------------------------------------
(* gyro_update(), the thread *)

UpdateBegins ==
  /\ samples > 0 /\ pc[User] # "calibrate"
  /\ Steps(GyroThread, "idle", "first")
  /\ halter' = GyroThread
  /\ UNCHANGED <<holder, gyroVars>>

FirstTime ==
  /\ Steps(GyroThread, "first", "sample")
  /\ time_us' = TimeUs
  /\ halter' = Nobody
  /\ UNCHANGED <<holder, clockVars, calibration, angle, new_time_us, reading,
                 dtheta, updates>>

TakeSample(r) ==
  /\ updates < MaxUpdates
  /\ Steps(GyroThread, "sample", "mask")
  /\ reading' = r
  /\ updates' = updates + 1
  /\ UNCHANGED <<halter, holder, clockVars, calibration, angle, time_us,
                 new_time_us, dtheta>>

\* get_time_us() turns interrupts off.
MaskInterrupts ==
  /\ Steps(GyroThread, "mask", "time")
  /\ halter' = GyroThread
  /\ UNCHANGED <<holder, gyroVars>>

NewTime ==
  /\ Steps(GyroThread, "time", "lock")
  /\ new_time_us' = TimeUs
  /\ halter' = Nobody
  /\ UNCHANGED <<holder, clockVars, calibration, angle, time_us, reading,
                 dtheta, updates>>

Delta == (new_time_us - time_us) % Modulus32

LockTheta ==
  /\ Steps(GyroThread, "lock", "fix")
  /\ Takes(GyroThread, "gyro")
  /\ UNCHANGED <<halter, gyroVars>>

\* Mutant: what the division leaves is dropped.
FixDropped(fix) == 0

FixLeft(fix) == fix - samples * Quotient(fix, samples)

\* The fraction of the offset is accumulated and applied; the product and the
\* sum are 32-bit numbers, whatever the sign of the time that has passed.
ApplyFix ==
  LET fix == _theta_fix + Signed32(_offset_fix * Delta) IN
  /\ Steps(GyroThread, "fix", "theta")
  /\ dtheta' = Signed32((reading - _offset) * Delta) - Quotient(fix, samples)
  /\ _theta_fix' = FixLeft(fix)
  /\ UNCHANGED <<halter, holder, clockVars, calibration, _theta, area, since,
                 sets, time_us, new_time_us, reading, updates>>

IntegrateTheta ==
  /\ Steps(GyroThread, "theta", "unlock")
  /\ _theta' = _theta - dtheta
  /\ area' = area + (samples * reading - sum) * Signed32(Delta)
  /\ UNCHANGED <<halter, holder, clockVars, calibration, _theta_fix, since,
                 sets, update>>

UnlockTheta ==
  /\ Steps(GyroThread, "unlock", "sample")
  /\ Gives(GyroThread, "gyro")
  /\ time_us' = new_time_us
  /\ new_time_us' = 0 /\ reading' = 0 /\ dtheta' = 0
  /\ UNCHANGED <<halter, clockVars, calibration, angle, updates>>

-----------------------------------------------------------------------------
(* gyro_set_degrees() and gyro_get_degrees() *)

CallSetDegrees ==
  /\ sets < MaxSets /\ samples > 0
  /\ Steps(User, "idle", "setDegrees")
  /\ Takes(User, "gyro")
  /\ UNCHANGED <<halter, gyroVars>>

SetDegrees(d) ==
  /\ Steps(User, "setDegrees", "degreesDone")
  /\ _theta' = d
  /\ since' = <<d, _theta_fix>>
  /\ area' = 0
  /\ sets' = sets + 1
  /\ UNCHANGED <<halter, holder, clockVars, calibration, _theta_fix, update>>

\* gyro_get_degrees() reads the angle under the lock.
CallGetDegrees ==
  /\ samples > 0
  /\ Steps(User, "idle", "degreesDone")
  /\ Takes(User, "gyro")
  /\ UNCHANGED <<halter, gyroVars>>

DegreesReturns ==
  /\ Steps(User, "degreesDone", "idle")
  /\ Gives(User, "gyro")
  /\ UNCHANGED <<halter, gyroVars>>

GyroNext ==
  \/ Tick \/ TimerInterrupt \/ BeginSection \/ EndSection
  \/ BeginCalibration \/ EndCalibration
  \/ \E r \in Readings : Calibrate(r) \/ TakeSample(r)
  \/ UpdateBegins \/ FirstTime \/ MaskInterrupts \/ NewTime \/ LockTheta
  \/ ApplyFix \/ IntegrateTheta \/ UnlockTheta
  \/ CallSetDegrees \/ (\E d \in Degrees : SetDegrees(d))
  \/ CallGetDegrees \/ DegreesReturns

-----------------------------------------------------------------------------
(* Properties *)

\* gyro.h: "the current heading".  Between updates the angle is exactly minus
\* the integral of the readings over the time get_time_us() told, less their
\* average while calibrating, since it was last set: also when the time wraps
\* or goes back, with an average that is not whole, and with a set at any time.
HeadingIsIntegral ==
  pc[GyroThread] \notin {"theta", "unlock"} /\ samples > 0 =>
    samples * (_theta - since[1]) + (_theta_fix - since[2]) = -area

\* get_time_us() tells the ticks there have been, less those that passed while
\* an overflow waited for its interrupt; and while one waits, it is the whole
\* range of the timer behind.  In each case modulo 2^w.
TimeTold ==
  TimeUs = (begun * MsTicks + ticks - lost - (IF pending THEN Top ELSE 0))
             % Modulus32
=============================================================================
