----------------------------- MODULE Simulated -----------------------------
(***************************************************************************)
(* The drivers of the SIMULATE build, in which the program is a process    *)
(* with POSIX threads and the robot is a server behind one socket:         *)
(* drivers/socket.c, what motor.c, encoder.c, gyro.c and lib/irdist.c do   *)
(* there, and the server, tools/simulate/server/server.pde.                *)
(*                                                                         *)
(* A command or an answer is a line, <<letter, value>>; a line is read     *)
(* whole.  The value of an answer is the number of steps the simulated     *)
(* robot has made when it is given.                                        *)
(***************************************************************************)
EXTENDS DriverLocks, Sequences

CONSTANTS
  Velocities,     \* motor velocities asked for
  MaxCommands,    \* bound: number of motor commands
  MaxSteps        \* bound: number of steps of the simulated robot

SimulatedAssumption == Velocities \subseteq Int /\ MaxSteps \in Nat

VARIABLES
  socket_buffer,  \* shared by commands and answers
  line,           \* the command each thread is to give
  answer,         \* what it has scanned of the answer
  toServer, toClient,   \* the two directions of the socket
  robotSteps,     \* steps of the simulated robot
  asked, obeyed,  \* history: motor velocities asked for, and set by the server
  since           \* history: robotSteps when a question was put

simulatedVars == <<halter, holder, pc, socket_buffer, line, answer, toServer,
                   toClient, robotSteps, asked, obeyed, since>>

\* isStuck(), gyro_get_degrees(), irdist_read() and encoder_read_raw()
Questions == {"s", "a", "d", "n"}
Blank == <<"", 0>>

\* Mutant: the server acknowledges a velocity.
AnswersAll == {"s", "a", "d", "e", "m"}

\* The letters the server answers; "n" is not one of them, and "x" and "y"
\* fail on the argument they lack.
Answers == {"s", "a", "d", "e"}

SimulatedTypeOK ==
  /\ socket_buffer[1] \in Questions \cup {"", "m"}
  /\ toServer \in Seq((Questions \X {0}) \cup ({"m"} \X Velocities))
  /\ Len(toServer) <= Len(asked) + 1
  /\ Len(toClient) <= 1

\* init_socket()
SimulatedInit ==
  /\ halter = Nobody
  /\ holder = [l \in {"socket"} |-> Nobody]
  /\ pc = [t \in Thread |-> "idle"]
  /\ socket_buffer = Blank
  /\ line = [t \in Thread |-> Blank]
  /\ answer = [t \in Thread |-> Blank]
  /\ toServer = <<>> /\ toClient = <<>>
  /\ robotSteps = 0
  /\ asked = <<>> /\ obeyed = <<>>
  /\ since = [t \in Thread |-> 0]

-----------------------------------------------------------------------------
(* The threads of the program *)

\* motor_set_vel(); motor_brake() is a velocity of 0.
MotorSetVel(t, v) ==
  /\ Len(asked) < MaxCommands
  /\ Goes(t, "idle", "format") /\ Takes(t, "socket")
  /\ line' = [line EXCEPT ![t] = <<"m", v>>]
  /\ asked' = Append(asked, v)
  /\ UNCHANGED <<halter, socket_buffer, answer, toServer, toClient,
                 robotSteps, obeyed, since>>

Format(t) ==
  /\ Goes(t, "format", "write")
  /\ socket_buffer' = line[t]
  /\ UNCHANGED <<halter, holder, line, answer, toServer, toClient,
                 robotSteps, asked, obeyed, since>>

Write(t) ==
  /\ Goes(t, "write", "unlock")
  /\ toServer' = Append(toServer, socket_buffer)
  /\ UNCHANGED <<halter, holder, socket_buffer, line, answer, toClient,
                 robotSteps, asked, obeyed, since>>

\* A question is formatted in a buffer of the caller's own.
Asks(t, q) ==
  /\ Goes(t, "idle", "ask") /\ Takes(t, "socket")
  /\ line' = [line EXCEPT ![t] = <<q, 0>>]
  /\ UNCHANGED <<halter, socket_buffer, answer, toServer, toClient,
                 robotSteps, asked, obeyed, since>>

isStuck(t) == Asks(t, "s")
gyro_get_degrees(t) == Asks(t, "a")
irdist_read(t) == Asks(t, "d")
encoder_read_raw(t) == Asks(t, "n")

WriteQuestion(t) ==
  /\ Goes(t, "ask", "read")
  /\ toServer' = Append(toServer, line[t])
  /\ since' = [since EXCEPT ![t] = robotSteps]
  /\ UNCHANGED <<halter, holder, socket_buffer, line, answer, toClient,
                 robotSteps, asked, obeyed>>

\* read() waits for an answer.
ReadAnswer(t) ==
  /\ toClient # <<>>
  /\ Goes(t, "read", "scan")
  /\ socket_buffer' = Head(toClient)
  /\ toClient' = Tail(toClient)
  /\ UNCHANGED <<halter, holder, line, answer, toServer, robotSteps, asked,
                 obeyed, since>>

ScanAnswer(t) ==
  /\ Goes(t, "scan", "unlock")
  /\ answer' = [answer EXCEPT ![t] = socket_buffer]
  /\ UNCHANGED <<halter, holder, socket_buffer, line, toServer, toClient,
                 robotSteps, asked, obeyed, since>>

Unlock(t) ==
  /\ Goes(t, "unlock", "idle") /\ Gives(t, "socket")
  /\ line' = [line EXCEPT ![t] = Blank]
  /\ answer' = [answer EXCEPT ![t] = Blank]
  /\ since' = [since EXCEPT ![t] = 0]
  /\ UNCHANGED <<halter, socket_buffer, toServer, toClient, robotSteps,
                 asked, obeyed>>

-----------------------------------------------------------------------------
(* The server *)

\* run() of KinematicsEngine
Simulate ==
  /\ robotSteps < MaxSteps
  /\ robotSteps' = robotSteps + 1
  /\ UNCHANGED <<halter, holder, pc, socket_buffer, line, answer, toServer,
                 toClient, asked, obeyed, since>>

\* run() of RobotSocket reads a line.
Serve ==
  LET letter == Head(toServer)[1] IN
  /\ toServer # <<>>
  /\ toServer' = Tail(toServer)
  /\ obeyed' = IF letter = "m" THEN Append(obeyed, Head(toServer)[2])
               ELSE obeyed
  /\ toClient' = IF letter \in Answers
                 THEN Append(toClient, <<letter, robotSteps>>)
                 ELSE toClient
  /\ UNCHANGED <<halter, holder, pc, socket_buffer, line, answer, robotSteps,
                 asked, since>>

Proceeds(t) ==
  \/ Format(t) \/ Write(t) \/ WriteQuestion(t) \/ ReadAnswer(t)
  \/ ScanAnswer(t) \/ Unlock(t)

SimulatedNext ==
  \/ Simulate \/ Serve
  \/ \E t \in Thread :
       \/ \E v \in Velocities : MotorSetVel(t, v)
       \/ isStuck(t) \/ gyro_get_degrees(t) \/ irdist_read(t)
       \/ encoder_read_raw(t)
       \/ Proceeds(t)

-----------------------------------------------------------------------------
(* Properties *)

\* Whoever puts a question gets the answer to it, and not one from before:
\* the socket has one stream of answers, and one buffer for them and commands.
OwnAnswer ==
  \A t \in Thread : pc[t] = "unlock" /\ line[t][1] # "m" =>
    answer[t][1] = line[t][1] /\ answer[t][2] >= since[t]

\* The server sets the velocities the threads asked for, in the order they got
\* the socket: each is set in its turn, or is a command on its way there, or
\* the one that is still to be written; none is lost, garbled by an answer or
\* overtaken.
VelocitiesArrive ==
  LET Set == Len(obeyed)
      Command(i) == <<"m", asked[i]>>
  IN
  /\ Set <= Len(asked)
  /\ \A i \in 1 .. Set : obeyed[i] = asked[i]
  /\ \A i \in Set + 1 .. Len(asked) :
       IF i - Set <= Len(toServer) THEN toServer[i - Set] = Command(i)
       ELSE /\ i = Len(asked)
            /\ \E t \in Thread : /\ pc[t] \in {"format", "write"}
                                 /\ line[t] = Command(i)
  /\ \A i \in DOMAIN toServer :
       toServer[i][1] = "m" => Set + i <= Len(asked)
=============================================================================
