------------------------------ MODULE BringUp ------------------------------
(***************************************************************************)
(* From reset to the round: board_init() of kern/board.c, main() and       *)
(* robot_monitor() of kern/main.c, usetup() of the robot, and the packets  *)
(* of the referee that start and stop the round (rf_process_packet() of    *)
(* drivers/rf.c).  Printing takes the lock of the UART, which another      *)
(* thread may have.  What the parts of board_init() do to their devices is *)
(* in the modules of those devices.                                        *)
(***************************************************************************)
EXTENDS DriverLocks

CONSTANTS
  Main, RfThread,   \* robot_monitor() and rf_receive()
  Daemon,           \* some other thread, which prints
  OurId,            \* the number usetup() gives the robot
  OtherId,          \* that of another one
  NoId,             \* robot_id before usetup(), 0xFF
  MaxPackets,       \* bound: packets heard with a robot's number
  MaxGo             \* bound: changes of the GO switch

BringUpAssumption ==
  /\ {Main, RfThread, Daemon} \subseteq Thread
  /\ Main # RfThread /\ Main # Daemon /\ RfThread # Daemon
  /\ NoId \notin {OurId, OtherId} /\ OurId # OtherId

VARIABLES
  boot,             \* how far board_init() is
  configGood, fpgaGood,   \* what is in the flash
  goDown,           \* the GO switch is down
  batteryGood,      \* history: the check of the battery saw enough
  overridden,       \* history: it saw GO down
  robot_id,
  rf_start,
  vps_daemon_has_recvd,
  told,             \* history: a START with our number came, robot_id being set
  pressed,          \* history: robot_monitor() saw GO down
  stopped,          \* history: a STOP with our number came, robot_id being set
  packets, goChanges   \* counters of the bounds

flashVars == <<configGood, fpgaGood>>
batteryVars == <<batteryGood, overridden>>
roundVars == <<robot_id, rf_start, vps_daemon_has_recvd, told, pressed,
               stopped, packets>>
goVars == <<goDown, goChanges>>
bringUpVars == <<boot, flashVars, batteryVars, roundVars, goVars>>
bringUpAll == <<halter, holder, pc, bringUpVars>>

BringUpTypeOK ==
  /\ boot \in {"reset", "config", "shown", "fpga", "main", "kernel", "failed"}
  /\ robot_id \in {NoId, OurId}
  /\ rf_start => robot_id = OurId
  /\ pressed => pc[Main] \in {"released", "saying umain", "umain"}

BringUpInit ==
  /\ boot = "reset"
  /\ configGood \in BOOLEAN /\ fpgaGood \in BOOLEAN
  /\ goDown \in BOOLEAN /\ goChanges = 0
  /\ batteryGood = FALSE /\ overridden = FALSE
  /\ robot_id = NoId /\ rf_start = FALSE /\ vps_daemon_has_recvd = FALSE
  /\ told = FALSE /\ pressed = FALSE /\ stopped = FALSE /\ packets = 0

GoChanges ==
  /\ goChanges < MaxGo
  /\ goChanges' = goChanges + 1
  /\ goDown' = ~goDown
  /\ UNCHANGED <<halter, holder, pc, boot, flashVars, batteryVars, roundVars>>

-----------------------------------------------------------------------------
(* board_init(), with no thread yet *)

Boots(from, to) ==
  /\ boot = from /\ boot' = to
  /\ UNCHANGED <<halter, holder, pc, flashVars, roundVars, goVars>>

InitDrivers == Boots("reset", "config") /\ UNCHANGED batteryVars

\* board_fail() blinks for ever.
board_fail(from) == Boots(from, "failed")

CheckConfig ==
  /\ UNCHANGED batteryVars
  /\ \/ configGood /\ Boots("config", "shown")
     \/ ~configGood /\ board_fail("config")

\* Mutant: every board passes.
PassesAny(enough) == TRUE

\* The voltage is read again for the check; it need not be what was printed.
Passes(enough) == enough \/ goDown

CheckBattery ==
  \E enough \in BOOLEAN :
    /\ batteryGood' = enough /\ overridden' = goDown
    /\ \/ Passes(enough) /\ Boots("shown", "fpga")
       \/ ~Passes(enough) /\ board_fail("shown")

FpgaStarts == fpgaGood

InitFpga ==
  /\ UNCHANGED batteryVars
  /\ \/ FpgaStarts /\ Boots("fpga", "main")
     \/ ~FpgaStarts /\ board_fail("fpga")

\* main(): the threads are made and the scheduler never returns.
StartKernel ==
  /\ boot = "main" /\ boot' = "kernel"
  /\ pc' = [pc EXCEPT ![Main] = "new"]
  /\ UNCHANGED <<halter, holder, flashVars, batteryVars, roundVars, goVars>>

-----------------------------------------------------------------------------
(* The threads *)

bootVars == <<boot, flashVars, batteryVars, goVars>>

Advances(t, from, to) == boot = "kernel" /\ Goes(t, from, to)

\* A thread prints, with the lock of the UART.
Prints(t, from, printing) ==
  /\ Advances(t, from, printing)
  /\ Takes(t, "uart")
  /\ UNCHANGED <<halter, bringUpVars>>

Printed(t, printing, to) ==
  /\ Advances(t, printing, to)
  /\ Gives(t, "uart")

DaemonPrints == Prints(Daemon, "idle", "printing")

DaemonPrinted ==
  Printed(Daemon, "printing", "idle") /\ UNCHANGED <<halter, bringUpVars>>

SaysUsetup == Prints(Main, "new", "saying usetup")

SaidUsetup ==
  /\ Printed(Main, "saying usetup", "usetup")
  /\ UNCHANGED <<halter, bringUpVars>>

\* usetup() names the robot first.
NamesRobot ==
  /\ Advances(Main, "usetup", "vps")
  /\ robot_id' = OurId
  /\ UNCHANGED <<halter, holder, bootVars, rf_start, vps_daemon_has_recvd,
                 told, pressed, stopped, packets>>

\* vps_data_daemon_init() waits for a position; the rest of usetup() does not.
EndsUsetup ==
  /\ Advances(Main, "vps", "waiting")
  /\ vps_daemon_has_recvd
  /\ UNCHANGED <<halter, holder, bringUpVars>>

\* while (!rf_start && !go_press()): GO is looked at, not waited for.
Released ==
  /\ Advances(Main, "waiting", "released")
  /\ rf_start \/ goDown
  /\ pressed' = goDown
  /\ UNCHANGED <<halter, holder, bootVars, robot_id, rf_start,
                 vps_daemon_has_recvd, told, stopped, packets>>

SaysUmain == Prints(Main, "released", "saying umain")

SaidUmain ==
  /\ Printed(Main, "saying umain", "umain")
  /\ UNCHANGED <<halter, bringUpVars>>

\* Packets that name a robot are for a robot that has a number.
Named(id) == robot_id # NoId /\ id = robot_id

\* Mutant: a start is forgotten when usetup() has not ended.
StartsWaiter(id) ==
  IF Named(id) THEN pc[Main] = "waiting" ELSE rf_start

\* round_start() is remembered until robot_monitor() looks.
Starts(id) == rf_start \/ Named(id)

Packet ==
  /\ boot = "kernel" /\ Runs(RfThread) /\ pc[RfThread] = "idle"
  /\ packets < MaxPackets
  /\ packets' = packets + 1

StartPacket(id) ==
  /\ Packet
  /\ rf_start' = Starts(id)
  /\ told' = (told \/ Named(id))
  /\ UNCHANGED <<halter, holder, pc, bootVars, robot_id,
                 vps_daemon_has_recvd, pressed, stopped>>

Stops(id) == Named(id)

StopPacket(id) ==
  /\ Packet
  /\ stopped' = (stopped \/ Named(id))
  /\ pc' = IF Stops(id) THEN [pc EXCEPT ![RfThread] = "ending"] ELSE pc
  /\ UNCHANGED <<halter, holder, bootVars, robot_id, rf_start,
                 vps_daemon_has_recvd, told, pressed>>

\* The positions come all the time.
PositionPacket ==
  /\ boot = "kernel" /\ Runs(RfThread) /\ pc[RfThread] = "idle"
  /\ robot_id # NoId /\ ~vps_daemon_has_recvd
  /\ vps_daemon_has_recvd' = TRUE
  /\ UNCHANGED <<halter, holder, pc, bootVars, robot_id, rf_start, told,
                 pressed, stopped, packets>>

\* round_end() prints, in the thread that receives, before it halts.
SaysEnd == Prints(RfThread, "ending", "saying end")

HaltsBoard == halter' = RfThread

SaidEnd ==
  /\ Printed(RfThread, "saying end", "ended")
  /\ HaltsBoard
  /\ UNCHANGED bringUpVars

-----------------------------------------------------------------------------

MainStep ==
  \/ SaysUsetup \/ SaidUsetup \/ NamesRobot \/ EndsUsetup
  \/ Released \/ SaysUmain \/ SaidUmain

BringUpNext ==
  \/ InitDrivers \/ CheckConfig \/ CheckBattery \/ InitFpga \/ StartKernel
  \/ GoChanges
  \/ DaemonPrints \/ DaemonPrinted
  \/ MainStep
  \/ \E id \in {OurId, OtherId} : StartPacket(id) \/ StopPacket(id)
  \/ PositionPacket
  \/ SaysEnd \/ SaidEnd

\* Every thread runs again, a thread that waits for a lock that is let go again
\* and again gets it, and the positions keep coming.
BringUpFairness ==
  /\ WF_bringUpAll(MainStep)
  /\ SF_bringUpAll(SaysUsetup) /\ SF_bringUpAll(SaysUmain)
  /\ SF_bringUpAll(SaysEnd) /\ WF_bringUpAll(SaidEnd)
  /\ WF_bringUpAll(DaemonPrinted) /\ WF_bringUpAll(PositionPacket)

-----------------------------------------------------------------------------
(* Properties *)

\* board_init() lets no board run threads whose configuration or FPGA is bad,
\* nor one whose battery is low unless GO was down when that was found.
OnlySoundBoardsRun ==
  boot = "kernel" => configGood /\ fpgaGood /\ (batteryGood \/ overridden)

\* robot_monitor(): a start the referee sent while usetup() still ran is not
\* lost.  Once told the robot goes on to umain() or the round is over.
RoundNotMissed == told ~> (pc[Main] = "umain" \/ halter # Nobody)

\* round_end(): a stop that reaches the robot halts the board, even when
\* another thread is printing.
RoundEnds == pc[RfThread] = "ending" ~> halter = RfThread

\* robot_monitor() and rf_process_packet(): umain() is called only after a start
\* with our number or with GO down, and only a stop with our number halts the
\* board; what the referee says to other robots, or said before usetup() gave
\* the robot its number, does neither.
OnlyWhenTold ==
  /\ pc[Main] \in {"released", "saying umain", "umain"} => told \/ pressed
  /\ halter # Nobody => stopped
=============================================================================
