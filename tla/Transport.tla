------------------------------ MODULE Transport ------------------------------
(***************************************************************************)
(* What the robot does: user/robot/src/transport.c, territory.c and        *)
(* strategy.c, and the program of user/robot/umain.c, on top of Moving.    *)
(*                                                                         *)
(* A place is the angle and distance of the target from the robot.  A      *)
(* target is <<kind, i>>: a light, gear, mine or the place before one, in  *)
(* the territory i.                                                        *)
(***************************************************************************)
EXTENDS Moving, FiniteSets

CONSTANTS
  Programs,     \* what the program may be
  Places,       \* <<away, bearing>> a target may have when it becomes one
  Headings,     \* angles the robot starts with
  Starts,       \* angles of the place of the robot it starts with, on the board
  Rounds,       \* territories umain() goes to after the first (7)
  GearRounds,   \* times umain() goes for gears (3)
  SpinMs,       \* umain() spins so long (6000)
  Turns,        \* angles of get_time() % 360
  MaxTurns      \* bound: number of turns when the program is done

ASSUME TransportAssumption ==
  /\ Places \subseteq (0 .. MaxAway) \X (-Half .. Half - 1)
  /\ Headings \subseteq 0 .. Full - 1 /\ Starts \subseteq -Half .. Half - 1
  /\ Turns \subseteq 0 .. Full - 1
  /\ Rounds \in Nat /\ GearRounds \in Nat \ {0}
  /\ SpinMs \in Nat /\ MaxTurns \in Nat

VARIABLES
  target,       \* the last target
  seen,         \* go_to_point(): current_pos
  visited,      \* history: the territories whose light was reached
  team_color,
  gears_motor,  \* sign of the power of the motor at the gears
  lever,        \* where the servo has the lever
  current_theta \* of the moves by dead reckoning
robotVars == <<target, seen, visited, team_color, gears_motor, lever,
               current_theta>>
vars == <<movingVars, robotVars>>

Degrees(n) == (n * Full) \div 360

\* territory_angle_mid
angle_mid(i) == Degrees(60 * i)

InTerritory(a, i) == Below(ang_diff(a, angle_mid(i)), 30)

\* -1 is what is returned on a boundary.
territory_of_point(a) ==
  IF \E i \in 0 .. 5 : InTerritory(a, i)
  THEN CHOOSE i \in 0 .. 5 : /\ InTerritory(a, i)
                             /\ \A j \in 0 .. i - 1 : ~InTerritory(a, j)
  ELSE -1

\* The angle of a target seen from the middle of the board: territory_init().
TargetAngle(t) ==
  CASE t[1] = "light" -> Degrees(60 * t[2])
    [] t[1] \in {"gears", "pre_gears"} -> Degrees(60 * t[2] + 9)
    [] OTHER -> Degrees(60 * t[2] - 20)

\* Angles from the middle of the board the robot may be at: 200 mm from a
\* target are up to 17 degrees, farther away it may be anywhere.
Around(t) ==
  IF t[1] = "start" THEN {t[2]}
  ELSE IF away * MmAway < 200
  THEN {Norm(TargetAngle(t) + e) : e \in -Degrees(17) .. Degrees(17)}
  ELSE -Half .. Half - 1

current_territory == {territory_of_point(a) : a \in Around(target)}

\* Every variable keeps within its type.
TypeOK ==
  /\ TypeOfMoving
  /\ target \in {"start", "light", "gears", "pre_gears", "mines"}
                \X (-Half .. Half - 1)
  /\ visited \subseteq 0 .. 5
  /\ gears_motor \in -1 .. 1 /\ lever \in {"up", "down"}
  /\ team_color \in {"red", "blue"}

Init ==
  /\ todo \in Programs
  /\ last_motor_pows = <<0, 0>>
  /\ heading \in Headings /\ gyro = Norm(heading) /\ vps_theta = gyro
  /\ encoders = <<0, Wrap - 2>>
  /\ final = 0 /\ correct_timer = 0 /\ distance = 0
  /\ encoders_start = <<0, 0>> /\ delta_encs = <<0, 0>> /\ gone = <<0, 0>>
  /\ away = 0 /\ bearing = 0 /\ seen = <<0, 0>>
  /\ close_timer = 0 /\ synced = 0
  /\ \E a \in Starts :
       /\ target = <<"start", a>>
       /\ team_color = IF Below(a, 90) THEN "blue" ELSE "red"
  /\ visited = {} /\ gears_motor = 0 /\ lever = "down" /\ current_theta = 0

-----------------------------------------------------------------------------
(* go_to_point() *)

go_to_point(kind, i, rotate) == <<"point", <<kind, i>>, rotate>>
go_to_territory(i, rotate) == go_to_point("light", (i + 6) % 6, rotate)

GoToPoint ==
  /\ Is("point")
  /\ target' = Now[2]
  /\ \E p \in Places :
       /\ away' = p[1] /\ bearing' = p[2] /\ seen' = p
       /\ todo' = <<gyro_set>>
            \o (IF ~Now[3] THEN <<>>
                ELSE IF Below(ang_diff(p[2], vps_theta), 90)
                     THEN rotate_by_gyro_to(p[2], 0)
                     ELSE rotate_by_gyro_to(p[2] + Half, 0))
            \o <<gyro_set, <<"seek">>>> \o Tail(todo)
  /\ UNCHANGED <<last_motor_pows, gyro, close_timer, synced, move, heading,
                 vps_theta, encoders, gone, visited, team_color, gears_motor,
                 lever, current_theta>>

Seek ==
  /\ Is("seek")
  /\ synced' = 0 /\ close_timer' = 0
  /\ todo' = <<<<"seeking">>>> \o Tail(todo)
  /\ UNCHANGED <<last_motor_pows, gyro, move, body, robotVars>>

\* Mutant: the gyro is set while the robot moves.
SyncMoving == <<gyro_set, <<"synced">>>>

\* Every two seconds the robot stops and sets the gyro.
SyncGyro == <<wheels_brake, pause(120), gyro_set, <<"synced">>>>

CloseEnough == close_timer > 0 /\ close_timer - 1 > Ticks(250)

\* The loop ends 70 mm from the target, or 250 ms after it first was 200 mm
\* from it.
Seeking ==
  /\ Is("seeking")
  /\ IF seen[1] * MmAway > 70 /\ ~CloseEnough
     THEN /\ seen' = <<away, bearing>>
          /\ todo' = (IF synced > Ticks(2000) THEN SyncGyro ELSE <<>>)
                     \o <<<<"aim">>>> \o todo
          /\ UNCHANGED <<last_motor_pows, visited, move>>
     ELSE /\ Over /\ UNCHANGED seen
          /\ visited' = IF target[1] = "light" THEN visited \cup {target[2]}
                        ELSE visited
  /\ UNCHANGED <<gyro, close_timer, synced, body, target, team_color,
                 gears_motor, lever, current_theta>>

Synced ==
  /\ Is("synced")
  /\ synced' = 0
  /\ todo' = Tail(todo)
  /\ UNCHANGED <<last_motor_pows, gyro, close_timer, move, body, robotVars>>

\* Which side goes ahead: the lever's, or the spinner's.
LeverSide(d) == Below(d, 90)

\* Whole degrees of a difference, and a distance over 300 mm in hundredths.
Deg(d) == (360 * Abs(d)) \div Full
Ahead(dist) == fclamp((dist * MmAway) \div 3, 28, 68)

\* aim_towards_target_vps_gyro(): signs of pow_com - pow_bias and of their sum,
\* or the turn on the spot near the target.
AimPows(dist, d, side) ==
  LET com  == Ahead(dist) * fclamp(50 - Deg(d), 0, 50)
      bias == (IF d > 0 THEN 1 ELSE -1) * (68 * 50 - com)
  IN  IF ~Below(d, 21) /\ dist * MmAway < 70
      THEN IF side = 1 THEN Turn(d) ELSE Turn(IF d > 0 THEN -1 ELSE 1)
      ELSE <<Sign(2 * side * com - bias), Sign(2 * side * com + bias)>>

\* The rest of a pass of go_to_point(), with the position it has read, and
\* aim_towards_target_vps_gyro(), which reads it again.
Aim ==
  LET side == IF LeverSide(ang_diff(seen[2], gyro)) THEN 1 ELSE -1
      d == ang_diff(IF side = 1 THEN bearing ELSE bearing + Half, gyro)
  IN
  /\ Is("aim")
  /\ close_timer' = IF close_timer = 0 /\ seen[1] * MmAway < 200 THEN 1
                    ELSE close_timer
  /\ last_motor_pows' = AimPows(away, d, side)
  /\ todo' = <<pause(6)>> \o Tail(todo)
  /\ UNCHANGED <<gyro, synced, move, body, robotVars>>

-----------------------------------------------------------------------------
(* Gears and mines *)

\* face_towards_gears() and face_towards_mine(); the robot does not move on.
Face ==
  /\ Is("face")
  /\ \E i \in current_territory, p \in Places :
       /\ target' = <<Now[2], i>>
       /\ todo' = rotate_by_gyro_to(
                    IF Now[2] = "gears" THEN p[2] + Half ELSE p[2], 0)
                  \o Tail(todo)
  /\ UNCHANGED <<last_motor_pows, gyro, close_timer, synced, move, body, seen,
                 visited, team_color, gears_motor, lever, current_theta>>

capture_gears ==
  <<<<"gears">>, gyro_set, <<"face", "gears">>, gyro_set>>
  \o go_straight(900, -1)
  \o <<set_wheel_pows(-1, -1), pause(600), wheels_brake, pause(500),
       wheels_brake, gyro_set, set_wheel_pows(1, 1), pause(400), wheels_brake>>

\* Each color of a gear is a direction of the motor.
SpinGears ==
  /\ Is("gears")
  /\ gears_motor' = IF team_color = "red" THEN -1 ELSE 1
  /\ todo' = Tail(todo)
  /\ UNCHANGED <<last_motor_pows, gyro, close_timer, synced, move, body,
                 target, seen, visited, team_color, lever, current_theta>>

servo(where) == <<"servo", where>>

SetLever ==
  /\ Is("servo")
  /\ lever' = Now[2]
  /\ todo' = Tail(todo)
  /\ UNCHANGED <<last_motor_pows, gyro, close_timer, synced, move, body,
                 target, seen, visited, team_color, gears_motor,
                 current_theta>>

\* Leave the mine and come back, a number of times.
Strike ==
  /\ Is("strike")
  /\ todo' =
       (IF Now[2] = 0 THEN <<>>
        ELSE <<servo("down"), pause(300), set_wheel_pows(-1, -1), pause(300),
               wheels_brake, servo("up"), pause(400), set_wheel_pows(1, 1),
               pause(420), wheels_brake, <<"strike", Now[2] - 1>>>>)
       \o Tail(todo)
  /\ UNCHANGED <<last_motor_pows, gyro, close_timer, synced, move, body,
                 robotVars>>

mine_resources ==
  <<<<"face", "mines">>, set_wheel_pows(1, 1), servo("up"), pause(1200),
    wheels_brake, pause(100), gyro_set, <<"strike", 5>>,
    set_wheel_pows(-1, -1), pause(500), wheels_brake>>

-----------------------------------------------------------------------------
(* Dead reckoning, and umain() *)

\* move_to_territory_dr(): turn by the angle to the next place, and move.
move_to_territory_dr(dtheta, n) ==
  <<rotate_by_gyro(dtheta), move_distance_by_encoders(n),
    <<"believe", dtheta>>>>

Believe ==
  /\ Is("believe")
  /\ current_theta' = current_theta + Now[2]
  /\ todo' = Tail(todo)
  /\ UNCHANGED <<last_motor_pows, gyro, close_timer, synced, move, body,
                 target, seen, visited, team_color, gears_motor, lever>>

\* move_to_next_territory_dr(): the distance its loop looks at never changes.
move_to_next_territory_dr(dtheta, n) ==
  <<rotate_by_gyro(dtheta), <<"again", n>>>>

Again ==
  /\ Is("again")
  /\ todo' = <<move_distance_by_encoders(Now[2])>>
             \o (IF Now[2] * MmRoll > 200 THEN <<Now>> ELSE <<>>) \o Tail(todo)
  /\ UNCHANGED <<last_motor_pows, gyro, close_timer, synced, move, body,
                 robotVars>>

\* umain(): the round from i_init, then gears, a spin, and turns.
umain ==
  <<<<"rounds">>, <<"pre_gears", GearRounds>>,
    set_wheel_pows(1, -1), pause(SpinMs), wheels_brake, <<"forever", 0>>>>

\* i % 6; C's remainder of -1 is -1.
ActiveTerritory(i) == IF i < 0 THEN i ELSE i % 6

StartRounds ==
  /\ Is("rounds")
  /\ \E i \in current_territory :
       todo' = <<<<"round", i, i + Rounds>>>> \o Tail(todo)
  /\ UNCHANGED <<last_motor_pows, gyro, close_timer, synced, move, body,
                 robotVars>>

Round ==
  /\ Is("round")
  /\ todo' =
       (IF Now[2] > Now[3] THEN <<>>
        ELSE <<go_to_point("light", ActiveTerritory(Now[2]), FALSE),
               <<"round", Now[2] + 1, Now[3]>>>>)
       \o Tail(todo)
  /\ UNCHANGED <<last_motor_pows, gyro, close_timer, synced, move, body,
                 robotVars>>

GoToGears ==
  /\ Is("pre_gears")
  /\ \E i \in current_territory :
       todo' =
         (IF Now[2] = 0 THEN <<>>
          ELSE <<go_to_point("pre_gears", i, FALSE)>> \o capture_gears
               \o <<<<"pre_gears", Now[2] - 1>>>>)
         \o Tail(todo)
  /\ UNCHANGED <<last_motor_pows, gyro, close_timer, synced, move, body,
                 robotVars>>

\* rotate_by_gyro((get_time() % 360) - 180) in unsigned numbers: what is below
\* 180 becomes one near 2^32, and as a float 2^32 or 2^32 - 256, which the gyro
\* does not change.
Forever ==
  /\ Is("forever") /\ Now[2] < MaxTurns
  /\ todo' \in {<<<<"turning">>, pause(500), <<"forever", Now[2] + 1>>>>}
  /\ final' \in {gyro + t - Half : t \in {u \in Turns : u >= Half}}
                \cup (IF Turns \cap (0 .. Half - 1) = {} THEN {}
                      ELSE {0, Degrees(256)})
  /\ correct_timer' = 0
  /\ UNCHANGED <<last_motor_pows, gyro, close_timer, synced, encoders_start,
                 delta_encs, distance, body, robotVars>>

TransportNext ==
  \/ GoToPoint \/ Seek \/ Seeking \/ Synced \/ Aim
  \/ Face \/ SpinGears \/ SetLever \/ Strike \/ Believe \/ Again
  \/ StartRounds \/ Round \/ GoToGears \/ Forever

Next == TransportNext \/ (MovingNext /\ UNCHANGED robotVars)

Spec == Init /\ [][Next]_vars

\* The program and the robot go on.
FairSpec == Spec /\ WF_vars(Next)

-----------------------------------------------------------------------------
(* Properties *)

\* The gyro is set from the position system only while the wheels have no
\* power, and in go_to_point()'s loop it is then what the robot's angle is: the
\* position system is late while the robot turns.
GyroSetStanding ==
  /\ Is("sync") => last_motor_pows = <<0, 0>>
  /\ Is("synced") => Norm(gyro) = Norm(heading)

\* umain() turns forever, from angles it has not brought back into a circle.
TurnsForever ==
  todo # <<>> /\ todo[Len(todo)][1] = "forever" /\ todo[Len(todo)][2] > 0

\* Before that, every difference the program acts on is the smallest there is,
\* though ang_diff() corrects it once only: the gyro is set often enough.
DiffsAreSmallest ==
  ~TurnsForever =>
    /\ DiffIsSmallest
    /\ Is("aim") =>
         /\ ang_diff(seen[2], gyro) \in -Half .. Half
         /\ ang_diff(bearing + Half, gyro) \in -Half .. Half

\* A turn goes the short way: in a tick the robot does not turn away from an
\* angle that is out of the tolerance.
TurnsTheShortWay ==
  [][ (PauseTick /\ Within({"turning"}) /\ ~TurnsForever
       /\ ~Below(Norm(final - gyro), 9))
      => Abs(Norm(final - gyro')) < Abs(Norm(final - gyro)) ]_vars

\* What is left at the end of the program is a robot that stands still.
StopsWhenDone == todo = <<>> => last_motor_pows = <<0, 0>>

\* The targets of a robot that starts inside a territory are there: a round or
\* a point left early never makes an index that is not one of the arrays'.
TargetsExist == target[1] # "start" => target[2] \in 0 .. 5

\* umain() has been at the lights of all territories before it goes for gears.
VisitsAll == Is("pre_gears") /\ Rounds >= 5 => visited = 0 .. 5

\* The robot knows which way it looks: its gyro is set from positions that are
\* not late, often enough for ang_diff() to find the smallest difference, and
\* it turns the short way to the angle it looks for.
KeepsItsBearings ==
  [](GyroSetStanding /\ DiffsAreSmallest) /\ TurnsTheShortWay

\* The robot goes where its program says: it has a target, drives as far as it
\* was told, comes to every territory, and stands still at the end.
DrivesToTargets ==
  TargetsExist /\ DrivesAsFar /\ VisitsAll /\ StopsWhenDone

\* Every turn, move and way to a target ends, but the moves by encoders and
\* gyro; so does the program, or it comes to turning forever.  The way to a
\* target ends even if the robot never gets within 70 mm of it.
Ends == <>(todo = <<>> \/ (Is("forever") /\ Now[2] = MaxTurns))
=============================================================================
