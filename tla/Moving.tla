------------------------------- MODULE Moving -------------------------------
(***************************************************************************)
(* How the robot moves: user/robot/src/moving.c and util.c.                *)
(*                                                                         *)
(* The program is one thread.  What it has still to do is the sequence     *)
(* todo of instructions: a call puts its body in its own place, and a loop *)
(* puts one pass in front of itself.  Between two pauses the program takes *)
(* no time; a loop waits for a tick in each pass, whether it pauses or     *)
(* only prints.  In a tick a wheel with power rolls at most Roll units,    *)
(* and of the wheels with power at least one rolls.  A unit one wheel      *)
(* rolls turns the robot by one unit of angle, of which there are Full in  *)
(* a circle.  The position system tells where we were a tick ago, the gyro *)
(* turns as the robot does, from whatever it was set to.                   *)
(***************************************************************************)
EXTENDS Integers, Sequences

CONSTANTS
  Full,       \* units of angle in 360 degrees
  Roll,       \* units a wheel rolls in a tick at most
  Wrap,       \* number of values of an encoder (2^16)
  MmRoll,     \* millimetres a wheel goes in a unit
  MmAway,     \* millimetres in a unit of the distance to a target
  TickMs,     \* milliseconds in a tick
  MaxAway     \* bound: the farthest the robot is from its target

ASSUME MovingAssumption ==
  /\ Full \in Nat \ {0} /\ Full % 12 = 0
  /\ Roll \in Nat \ {0} /\ 360 * 2 * Roll < 9 * Full
  /\ Wrap \in Nat \ {0}
  /\ MmRoll \in Nat \ {0} /\ MmAway \in Nat \ {0} /\ TickMs \in Nat \ {0}
  /\ MaxAway \in Nat

VARIABLES
  todo,          \* what is left of the program
  last_motor_pows, \* signs of the power of the wheels
  heading,       \* the angle the robot really has
  gyro,          \* gyro_get_degrees()
  vps_theta,     \* get_vps_theta()
  encoders,      \* of the wheels
  final,         \* rotate_by_gyro(): the angle to reach; or the starting angle
  correct_timer, \* 0: not active, 1 + n: active for n ticks
  encoders_start, delta_encs, distance, \* locals of the moves by encoders
  gone,          \* history: units the wheels have rolled in this move
  away, bearing, \* distance and angle of the target from the robot
  close_timer,   \* go_to_point(): as correct_timer
  synced         \* go_to_point(): ticks since last_gyro_sync

move == <<final, correct_timer, encoders_start, delta_encs, distance>>
body == <<heading, vps_theta, encoders, gone, away, bearing>>
movingVars == <<todo, last_motor_pows, gyro, close_timer, synced, move, body>>

Half == Full \div 2
Abs(n) == IF n < 0 THEN -n ELSE n
Sign(n) == IF n > 0 THEN 1 ELSE IF n < 0 THEN -1 ELSE 0

\* An angle of n units is smaller than so many degrees.
Below(n, degrees) == 360 * Abs(n) < degrees * Full

\* The pause of a number of milliseconds, in ticks.
Ticks(ms) == (ms + TickMs - 1) \div TickMs

\* An angle as the position system tells it, from -180 to 180 degrees.
Norm(n) == ((n + Half) % Full) - Half

fclamp(n, low, high) ==
  IF n < high THEN IF n > low THEN n ELSE low ELSE high

\* fmod(), with the sign of its argument.
fmod(n) == IF n < 0 THEN -((-n) % Full) ELSE n % Full

ang_diff(a, b) ==
  LET d == fmod(a) - fmod(b)
      e == IF d < -Half THEN d + Full ELSE d
  IN  IF e > Half THEN e - Full ELSE e

TypeOfMoving ==
  /\ last_motor_pows \in (-1 .. 1) \X (-1 .. 1)
  /\ heading \in 0 .. Full - 1
  /\ vps_theta \in -Half .. Half - 1
  /\ encoders \in (0 .. Wrap - 1) \X (0 .. Wrap - 1)
  /\ correct_timer \in 0 .. Ticks(300) + 1
  /\ close_timer \in 0 .. Ticks(250) + 2
  /\ synced \in 0 .. Ticks(2000) + 1
  /\ away \in 0 .. MaxAway /\ bearing \in -Half .. Half - 1

-----------------------------------------------------------------------------
(* The robot in a tick *)

Now == Head(todo)
Is(what) == todo # <<>> /\ Now[1] = what

\* A pause of a loop.
Within(loops) == Is("pause") /\ Len(todo) > 1 /\ todo[2][1] \in loops

\* How far the wheels may roll.
Rolls ==
  {r \in (0 .. Roll) \X (0 .. Roll) :
     /\ \A w \in 1 .. 2 : last_motor_pows[w] = 0 => r[w] = 0
     /\ last_motor_pows # <<0, 0>> => r # <<0, 0>>}

\* Where the target is when the robot has gone ahead: nearer if it was in
\* front; close to it the angle may change.
Away ==
  LET back == IF last_motor_pows[1] < 0 THEN Half ELSE 0
      off  == Norm(bearing - heading - back)
  IN  IF \/ ~Within({"seeking"}) \/ last_motor_pows[1] = 0
         \/ last_motor_pows[1] # last_motor_pows[2]
      THEN {<<away, bearing>>}
      ELSE LET a == IF Below(off, 90) THEN fclamp(away - 1, 0, MaxAway)
                    ELSE fclamp(away + 1, 0, MaxAway)
           IN  {<<a, Norm(bearing + b)>> :
                  b \in IF away * MmAway < 200 THEN -1 .. 1 ELSE {0}}

\* Mutant: a timer without a limit.
CountsOn(timer, limit) == IF timer > 0 THEN timer + 1 ELSE timer

\* A timer that is active counts, up to a limit.
Counts(timer, limit) == IF timer \in 1 .. limit - 1 THEN timer + 1 ELSE timer

\* Time passes in a pause only.  The encoders are counted in the moves that
\* read them, the place of the target while the robot goes to it.
PauseTick ==
  /\ Is("pause")
  /\ \E r \in Rolls, p \in Away :
       LET s == <<r[1] * last_motor_pows[1], r[2] * last_motor_pows[2]>>
           turn == s[2] - s[1]
       IN  /\ heading' = (heading + turn) % Full
           /\ gyro' = gyro + turn
           /\ IF Within({"driving", "circling", "steering"})
              THEN /\ encoders' = [w \in 1 .. 2 |-> (encoders[w] + r[w]) % Wrap]
                   /\ gone' = IF Within({"steering"}) THEN gone
                              ELSE [w \in 1 .. 2 |-> gone[w] + r[w]]
              ELSE UNCHANGED <<encoders, gone>>
           /\ away' = p[1] /\ bearing' = p[2]
  /\ vps_theta' = Norm(heading)
  /\ correct_timer' = Counts(correct_timer, Ticks(300) + 1)
  /\ close_timer' = Counts(close_timer, Ticks(250) + 2)
  /\ synced' = fclamp(synced + 1, 0, Ticks(2000) + 1)
  /\ todo' = IF Now[2] > 1 THEN <<<<"pause", Now[2] - 1>>>> \o Tail(todo)
             ELSE Tail(todo)
  /\ UNCHANGED <<last_motor_pows, final, encoders_start, delta_encs, distance>>

-----------------------------------------------------------------------------
(* Instructions *)

set_wheel_pows(l, r) == <<"wheels", l, r>>
wheels_brake == set_wheel_pows(0, 0)
pause(ms) == <<"pause", Ticks(ms)>>
gyro_set == <<"sync">>

SetWheels ==
  /\ Is("wheels")
  /\ last_motor_pows' = <<Now[2], Now[3]>>
  /\ todo' = Tail(todo)
  /\ UNCHANGED <<gyro, close_timer, synced, move, body>>

\* gyro_set_degrees(get_vps_theta())
Sync ==
  /\ Is("sync")
  /\ gyro' = vps_theta
  /\ todo' = Tail(todo)
  /\ UNCHANGED <<last_motor_pows, close_timer, synced, move, body>>

move_for_time(v, ms) == <<set_wheel_pows(v, v), pause(ms), wheels_brake>>

\* A pass of a loop: it gives the wheels power, and waits.
Pass(l, r) ==
  /\ last_motor_pows' = <<l, r>>
  /\ todo' = <<pause(2)>> \o todo

Stops == last_motor_pows' = <<0, 0>>

\* The loop is over, and the wheels stop; the locals of the function are gone.
Over ==
  /\ Stops
  /\ todo' = Tail(todo)
  /\ final' = 0 /\ correct_timer' = 0 /\ distance' = 0
  /\ encoders_start' = <<0, 0>> /\ delta_encs' = <<0, 0>>

-----------------------------------------------------------------------------
(* Turning by the gyro *)

rotate_by_gyro(dtheta) == <<"rotate", dtheta>>

RotateByGyro ==
  /\ Is("rotate")
  /\ final' = gyro + Now[2]
  /\ correct_timer' = 0
  /\ todo' = <<<<"turning">>>> \o Tail(todo)
  /\ UNCHANGED <<last_motor_pows, gyro, close_timer, synced, encoders_start,
                 delta_encs, distance, body>>

\* Mutant: the timer starts again in every pass.
Restarted(correct) == IF correct THEN 1 ELSE 0

\* The timer runs while the angle is correct.
Correct(correct) ==
  IF ~correct THEN 0 ELSE IF correct_timer = 0 THEN 1 ELSE correct_timer

\* Wheels that turn the robot towards a positive or a negative difference.
Turn(d) == IF d > 0 THEN <<-1, 1>> ELSE <<1, -1>>

Turning ==
  LET d == ang_diff(final, gyro)
  IN
  /\ Is("turning")
  /\ IF correct_timer < Ticks(300) + 1
     THEN /\ Pass(Turn(d)[1], Turn(d)[2])
          /\ correct_timer' = Correct(Below(d, 9))
          /\ UNCHANGED <<final, encoders_start, delta_encs, distance>>
     ELSE Over
  /\ UNCHANGED <<gyro, close_timer, synced, body>>

\* The iteration i of rotate_by_gyro_to(), when the gyro has been set.
rotate_by_gyro_to(theta, i) == <<gyro_set, <<"to", theta, i>>>>

RotateTo ==
  /\ Is("to")
  /\ todo' = <<rotate_by_gyro(ang_diff(Now[2], gyro)),
               <<"done?", Now[2], Now[3]>>>> \o Tail(todo)
  /\ UNCHANGED <<last_motor_pows, gyro, close_timer, synced, move, body>>

RotatedTo ==
  /\ Is("done?")
  /\ todo' = IF Below(ang_diff(vps_theta, Now[2]), 10) \/ Now[3] = 2
             THEN Tail(todo)
             ELSE rotate_by_gyro_to(Now[2], Now[3] + 1) \o Tail(todo)
  /\ UNCHANGED <<last_motor_pows, gyro, close_timer, synced, move, body>>

\* Power of the wheels on a course that is off by d: ahead and with a bias of
\* d / 90, where ahead is in hundredths.
Biased(ahead, d) ==
  <<Sign(ahead * 90 * Full - 36000 * d), Sign(ahead * 90 * Full + 36000 * d)>>

\* go_straight_by_gyro_for_ms(), its time in ticks, ahead or back.
go_straight(ms, side) == <<<<"straighten", Ticks(ms), side>>>>

Straighten ==
  /\ Is("straighten")
  /\ final' = gyro
  /\ todo' = <<<<"straight", Now[2], Now[3]>>>> \o Tail(todo)
  /\ UNCHANGED <<last_motor_pows, gyro, close_timer, synced, correct_timer,
                 encoders_start, delta_encs, distance, body>>

GoStraight ==
  LET p == Biased(50 * Now[3], final - gyro)
  IN
  /\ Is("straight")
  /\ IF Now[2] = 0 THEN Over
     ELSE /\ last_motor_pows' = p
          /\ todo' = <<pause(2), <<"straight", Now[2] - 1, Now[3]>>>>
                     \o Tail(todo)
          /\ UNCHANGED move
  /\ UNCHANGED <<gyro, close_timer, synced, body>>

-----------------------------------------------------------------------------
(* Moving by the encoders *)

move_distance_by_encoders(n) == <<"distance", n, "driving">>
move_distance_by_encoders_gyro(n) == <<"distance", n, "steering">>
rotate_by_encoders(n) == <<"distance", n, "circling">>

\* What the three moves start with; two of them forget the direction.
StartMove ==
  /\ Is("distance")
  /\ encoders_start' = encoders /\ delta_encs' = <<0, 0>> /\ gone' = <<0, 0>>
  /\ distance' = IF Now[3] = "steering" THEN Now[2] ELSE Abs(Now[2])
  /\ final' = gyro
  /\ last_motor_pows' = IF Now[3] = "circling" THEN Turn(Now[2]) ELSE <<0, 0>>
  /\ todo' = <<<<Now[3], IF Now[2] > 0 THEN 1 ELSE -1>>>> \o Tail(todo)
  /\ UNCHANGED <<gyro, close_timer, synced, correct_timer, heading, vps_theta,
                 encoders, away, bearing>>

\* Mutant: the difference is not taken modulo 2^16.
Unwrapped(w) == encoders[w] - encoders_start[w]

\* The difference of two 16-bit numbers.
DeltaEnc(w) == (encoders[w] - encoders_start[w]) % Wrap

\* A wheel may be 50 mm ahead of the other.
Allowed(w, d) == d[w] * MmRoll < d[3 - w] * MmRoll + 50

\* move_distance_by_encoders(): the loop looks at the last differences.
Driving ==
  LET d == [w \in 1 .. 2 |-> DeltaEnc(w)]
      p == [w \in 1 .. 2 |->
              IF d[w] < distance /\ Allowed(w, d) THEN Now[2] ELSE 0]
  IN
  /\ Is("driving")
  /\ IF delta_encs[1] < distance \/ delta_encs[2] < distance
     THEN /\ Pass(p[1], p[2]) /\ delta_encs' = d
          /\ UNCHANGED <<final, correct_timer, encoders_start, distance>>
     ELSE Over
  /\ UNCHANGED <<gyro, close_timer, synced, body>>

\* move_distance_by_encoders_gyro(): the distance the loop looks at stays 0,
\* because the one it computes is another variable.
Steering ==
  LET d   == [w \in 1 .. 2 |-> DeltaEnc(w)]
      avg == d[1] + d[2] \div 2
      ahead == fclamp(((distance - avg) * MmRoll * 15) \div 400 + 30, 0, 100)
      p   == Biased(ahead, ang_diff(final, gyro))
  IN
  /\ Is("steering")
  /\ IF 0 < distance
     THEN /\ Pass(p[1], p[2]) /\ delta_encs' = d
          /\ UNCHANGED <<final, correct_timer, encoders_start, distance>>
     ELSE Over
  /\ UNCHANGED <<gyro, close_timer, synced, body>>

\* rotate_by_encoders()
Circling ==
  /\ Is("circling")
  /\ IF DeltaEnc(1) + DeltaEnc(2) < distance
     THEN /\ delta_encs' = [w \in 1 .. 2 |-> DeltaEnc(w)]
          /\ todo' = <<pause(2)>> \o todo
          /\ UNCHANGED <<last_motor_pows, final, correct_timer, encoders_start,
                         distance>>
     ELSE Over
  /\ UNCHANGED <<gyro, close_timer, synced, body>>

MovingNext ==
  \/ PauseTick \/ SetWheels \/ Sync
  \/ RotateByGyro \/ Turning \/ RotateTo \/ RotatedTo
  \/ Straighten \/ GoStraight
  \/ StartMove \/ Driving \/ Steering \/ Circling

-----------------------------------------------------------------------------
(* Properties *)

\* What a turn takes for the difference is the smallest there is, from -180 to
\* 180 degrees (the comment on ang_diff(), util.c).
DiffIsSmallest ==
  Is("turning") => ang_diff(final, gyro) \in -Half .. Half

\* move_distance_by_encoders() goes as far as it is told, by less than what a
\* wheel rolls in a tick too far, and keeps the wheels together.
DrivesAsFar ==
  (\E i \in 1 .. 2 : Len(todo) >= i /\ todo[i][1] = "driving") =>
    /\ \A w \in 1 .. 2 :
         gone[w] < IF distance = 0 THEN 1 ELSE distance + Roll
    /\ Abs(gone[1] - gone[2]) * MmRoll < 50 + Roll * MmRoll
    /\ (\A w \in 1 .. 2 : delta_encs[w] >= distance) =>
         \A w \in 1 .. 2 : gone[w] >= distance

\* A move by encoders and gyro ends: it is to overshoot by about 1.2 mm.
SteeredMovesEnd == Is("steering") ~> ~(Is("steering") \/ Is("pause"))
=============================================================================
