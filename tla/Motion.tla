------------------------------- MODULE Motion -------------------------------
(***************************************************************************)
(* A group of motors that a controller drives to a position: lib/motion.c, *)
(* lib/pid.c and lib/motor_group.c.  The encoder counts 16 bits and only   *)
(* upwards.  The gains are whole numbers, and updates are a unit of time   *)
(* apart.                                                                  *)
(***************************************************************************)
EXTENDS Integers

CONSTANTS
  Word,          \* number of values of an encoder (2^16)
  Goals,         \* target positions
  kp, ki, kd,    \* the gains
  Reach,         \* units the wheel turns between two updates at most
  MaxUpdates     \* bound: number of updates

MotionAssumption ==
  /\ Word \in Nat /\ Word % 2 = 0
  /\ Reach \in 1 .. Word \div 2
  /\ Goals \subseteq Int /\ kp \in Int /\ ki \in Int /\ kd \in Int
  /\ MaxUpdates \in Nat

VARIABLES
  encoder,           \* encoder_read()
  encoder_old_pos, position,
  goal, sum, has_past, last_val,   \* of the PID controller
  vel,               \* the velocity of the motors
  updates,           \* counter of the bound
  travelled,         \* history: units the wheel has turned since motion_init()
  counted            \* history: those until the last update

pid == <<sum, has_past, last_val>>
motionVars == <<encoder, encoder_old_pos, position, goal, pid, vel, updates,
                travelled, counted>>

\* delta_roll(): the difference of two readings, across a roll-over.
delta_roll(new, old) ==
  LET diff == (new - old) % Word
  IN  IF diff > Word \div 2 THEN diff - Word ELSE diff

\* limit()
limit(v, low, high) == IF v > high THEN high ELSE IF v < low THEN low ELSE v

\* motion_init(), and the first goal.
MotionInit ==
  /\ encoder \in 0 .. Word - 1 /\ encoder_old_pos = encoder
  /\ position = 0
  /\ goal \in Goals
  /\ sum = 0 /\ has_past = FALSE /\ last_val = 0
  /\ vel = 0
  /\ updates = 0 /\ travelled = 0 /\ counted = 0

\* The wheel turns between two updates.
Turns(n) ==
  /\ vel # 0 /\ travelled + n <= counted + Reach
  /\ encoder' = (encoder + n) % Word
  /\ travelled' = travelled + n
  /\ UNCHANGED <<encoder_old_pos, position, goal, pid, vel, updates, counted>>

motion_set_goal(g) ==
  /\ goal' = g
  /\ UNCHANGED <<encoder, encoder_old_pos, position, pid, vel, updates,
                 travelled, counted>>

\* The integral of the error, from the second update on.
partial_sum(value) == IF has_past THEN sum + goal - value ELSE 0

update_pid_input(value) ==
  (goal - value) * kp + ki * partial_sum(value)
    + (IF has_past THEN kd * (value - last_val) ELSE 0)

\* motion_update(), with motor_group_set_vel(): the old reading stays that of
\* motion_init().
motion_update ==
  LET value == position + delta_roll(encoder, encoder_old_pos) IN
  /\ updates < MaxUpdates
  /\ updates' = updates + 1
  /\ position' = value
  /\ sum' = partial_sum(value) /\ has_past' = TRUE /\ last_val' = value
  /\ vel' = limit(update_pid_input(value), -255, 255)
  /\ counted' = travelled
  /\ UNCHANGED <<encoder, encoder_old_pos, goal, travelled>>

MotionNext ==
  \/ \E n \in 1 .. Reach : Turns(n)
  \/ \E g \in Goals : motion_set_goal(g)
  \/ motion_update

MotionSpec == MotionInit /\ [][MotionNext]_motionVars

-----------------------------------------------------------------------------
(* Properties *)

\* motion.h says of position that it is the "current encoder position", and
\* motion.c that it handles rollover: after each update it is what the wheel
\* has turned since the controller was set up.
PositionIsCurrent == position = counted
=============================================================================
