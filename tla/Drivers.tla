------------------------------ MODULE Drivers -------------------------------
(***************************************************************************)
(* The modules of the drivers side by side.  They share no variable, so a  *)
(* behaviour is of one of the parts, chosen at first: TLC's states are the *)
(* sum of those of the parts and not the product, one run checks the       *)
(* safety of all of them, and what is proved of Spec is proved of every    *)
(* part.                                                                   *)
(*                                                                         *)
(* The constants are those of the parts, named and explained there.        *)
(***************************************************************************)
EXTENDS Integers, Sequences, FiniteSets

CONSTANTS
  Nobody,
  \* Encoders
  EncThread, Encoder, EncBase, Uses, MaxResets,
  \* DigitalPorts
  DigThread, Port, Level,
  \* Actuators
  ActThread, Units, ActBase, Positions, Velocities,
  \* PositionData
  PosThread, PosRf, PosDaemon, Us, Them, PosNone, Board, NoBoard, Origin,
  PosPackets,
  \* Ring
  RingByte, Capacity, Word, MaxCount,
  \* Bus
  BusThread, BusAsks, BusRadio,
  \* Gyro
  GyrThread, GyroThread, User, Top, Expire, Modulus32, StartTimes, Readings,
  Degrees, CalibrationMs, MaxTicks, MaxSamples, MaxUpdates, MaxSets,
  \* Console
  ConThread, ConTexts, ConPanicText, ConNewline, ConReturn, Keys, RxDepth,
  Clicker, MaxPrints, MaxScans, MaxClicks, MaxPresses,
  \* RadioText
  StrThread, StringThread, Strings, StringSize, MaxStrings,
  \* RadioLink
  RadThread, RadRf, PayloadSize, FifoSize, RadPackets, MaxChars,
  \* BootLoader
  Page, PageWords, Block, Memories, LoadCommands, MaxLost,
  \* Display
  Columns, Char, LcdTexts, LcdPanicText, LcdPrints, LcdResets,
  \* Simulated
  SimThread, SimVelocities, SimCommands, MaxSteps,
  \* I2c
  TwiByte, Fill, BufferSize, MaxTransfers,
  \* BringUp
  UpThread, Main, UpRf, UpDaemon, OurId, OtherId, NoId, UpPackets, MaxGo

VARIABLES
  part,    \* the component this behaviour is of
  \* Encoders
  encHalter, encHolder, encPc, encCount, tempHi, zero, encCall, encRaw,
  encLoaded, encTodo, atRead, zeroed,
  \* DigitalPorts
  digHalter, digHolder, digPc, output_pinmode, digitalPinMode, digitalPwm,
  digCall, digLoaded, digAsked,
  \* Actuators
  actHalter, actHolder, actPc, job, ctl, vel, tempLo, srv, actIndex,
  motorAsked, servoAsked,
  \* PositionData
  posHalter, posHolder, posPc, posSent, robot_id, rf_which_board, rx,
  locked_game, game, vps, vps_daemon_has_recvd, got,
  \* Ring
  buf, read, write, ringCount, out,
  \* Bus
  busHalter, busHolder, busPc, port, copy, divider, target, ready, phase,
  admux, input,
  \* Gyro
  gyrHalter, gyrHolder, gyrPc, global_time, tcnt, pending, ticks, begun,
  gyrLost, start_time, sum, samples, _theta, _theta_fix, time_us, new_time_us,
  reading, dtheta, area, gyrSince, updates, sets,
  \* Console
  conHalter, conHolder, conPc, putting, conSent, expected, keysTyped, fifo,
  lastRead, heard, number, numbers, down, wanted, presses, clicks, conPrints,
  scans,
  \* RadioText
  strHalter, strHolder, strPc, rf_str_buf, rf_buf_index, arrived, copied,
  strIndex, strText, disturbed, strings,
  \* RadioLink
  radHalter, radHolder, radPc, radio, rx_fifo, rx_dr, tx_ds, onAir,
  radArrived, tx, rf_ch_count, printed, radSent,
  \* BootLoader
  loadLine, received, address, buff, extflash, flash, eeprom, app, loadAnswer,
  loadSent, clean, at, believed, used, commands, loadLost,
  \* Display
  latch, ac, ddram, lcdTodo, lcdText, lcdContents, lcdPos, lcdPosActual,
  lcdClearFlag, running, bypassed, cut, lcdPrints, resets,
  \* Simulated
  simHalter, simHolder, simPc, socket_buffer, simLine, simAnswer, toServer,
  toClient, robotSteps, simAsked, obeyed, simSince,
  \* I2c
  m, command, twea, twie, status, twdr, peer, twiCall, role, transfers,
  \* BringUp
  upHalter, upHolder, upPc, boot, configGood, fpgaGood, goDown, batteryGood,
  overridden, upRobotId, rf_start, upPosition, told, pressed, stopped,
  packets, goChanges

Enc == INSTANCE Encoders WITH
  Thread <- EncThread, Base <- EncBase, halter <- encHalter,
  holder <- encHolder, pc <- encPc, count <- encCount, call <- encCall,
  raw <- encRaw, loaded <- encLoaded, todo <- encTodo

Dig == INSTANCE DigitalPorts WITH
  Thread <- DigThread, halter <- digHalter, holder <- digHolder, pc <- digPc,
  call <- digCall, loaded <- digLoaded, asked <- digAsked

Act == INSTANCE Actuators WITH
  Thread <- ActThread, Base <- ActBase, halter <- actHalter,
  holder <- actHolder, pc <- actPc, index <- actIndex

Pos == INSTANCE PositionData WITH
  Thread <- PosThread, Rf <- PosRf, Daemon <- PosDaemon,
  None <- PosNone, MaxPackets <- PosPackets, halter <- posHalter,
  holder <- posHolder, pc <- posPc, sent <- posSent

Ring == INSTANCE Ring WITH
  Byte <- RingByte, count <- ringCount

Bus == INSTANCE Bus WITH
  Thread <- BusThread, Asks <- BusAsks, Radio <- BusRadio, halter <- busHalter,
  holder <- busHolder, pc <- busPc

Gyr == INSTANCE Gyro WITH
  Thread <- GyrThread, halter <- gyrHalter, holder <- gyrHolder, pc <- gyrPc,
  lost <- gyrLost, since <- gyrSince

Con == INSTANCE Console WITH
  Thread <- ConThread, Texts <- ConTexts, PanicText <- ConPanicText,
  Newline <- ConNewline, Return <- ConReturn, halter <- conHalter,
  holder <- conHolder, pc <- conPc, sent <- conSent, prints <- conPrints

Str == INSTANCE RadioText WITH
  Thread <- StrThread, PayloadSize <- StringSize, halter <- strHalter,
  holder <- strHolder, pc <- strPc, index <- strIndex, text <- strText

Rad == INSTANCE RadioLink WITH
  Thread <- RadThread, Rf <- RadRf, MaxPackets <- RadPackets,
  halter <- radHalter, holder <- radHolder, pc <- radPc,
  arrived <- radArrived, sent <- radSent

Load == INSTANCE BootLoader WITH
  MaxCommands <- LoadCommands, line <- loadLine, answer <- loadAnswer,
  sent <- loadSent, lost <- loadLost

Lcd == INSTANCE Display WITH
  Texts <- LcdTexts, PanicText <- LcdPanicText, MaxPrints <- LcdPrints,
  MaxResets <- LcdResets, todo <- lcdTodo, text <- lcdText,
  prints <- lcdPrints

Sim == INSTANCE Simulated WITH
  Thread <- SimThread, Velocities <- SimVelocities,
  MaxCommands <- SimCommands, halter <- simHalter, holder <- simHolder,
  pc <- simPc, line <- simLine, answer <- simAnswer, asked <- simAsked,
  since <- simSince

Twi == INSTANCE I2c WITH
  Byte <- TwiByte, call <- twiCall

Up == INSTANCE BringUp WITH
  Thread <- UpThread, RfThread <- UpRf, Daemon <- UpDaemon,
  MaxPackets <- UpPackets, halter <- upHalter, holder <- upHolder, pc <- upPc,
  robot_id <- upRobotId, vps_daemon_has_recvd <- upPosition

encVars == <<
  encHalter, encHolder, encPc, encCount, tempHi, zero, encCall, encRaw,
  encLoaded, encTodo, atRead, zeroed>>
digVars == <<
  digHalter, digHolder, digPc, output_pinmode, digitalPinMode, digitalPwm,
  digCall, digLoaded, digAsked>>
actVars == <<
  actHalter, actHolder, actPc, job, ctl, vel, tempLo, srv, actIndex,
  motorAsked, servoAsked>>
posVars == <<
  posHalter, posHolder, posPc, posSent, robot_id, rf_which_board, rx,
  locked_game, game, vps, vps_daemon_has_recvd, got>>
ringVars == <<
  buf, read, write, ringCount, out>>
busVars == <<
  busHalter, busHolder, busPc, port, copy, divider, target, ready, phase,
  admux, input>>
gyrVars == <<
  gyrHalter, gyrHolder, gyrPc, global_time, tcnt, pending, ticks, begun,
  gyrLost, start_time, sum, samples, _theta, _theta_fix, time_us, new_time_us,
  reading, dtheta, area, gyrSince, updates, sets>>
conVars == <<
  conHalter, conHolder, conPc, putting, conSent, expected, keysTyped, fifo,
  lastRead, heard, number, numbers, down, wanted, presses, clicks, conPrints,
  scans>>
strVars == <<
  strHalter, strHolder, strPc, rf_str_buf, rf_buf_index, arrived, copied,
  strIndex, strText, disturbed, strings>>
radVars == <<
  radHalter, radHolder, radPc, radio, rx_fifo, rx_dr, tx_ds, onAir,
  radArrived, tx, rf_ch_count, printed, radSent>>
loadVars == <<
  loadLine, received, address, buff, extflash, flash, eeprom, app, loadAnswer,
  loadSent, clean, at, believed, used, commands, loadLost>>
lcdVars == <<
  latch, ac, ddram, lcdTodo, lcdText, lcdContents, lcdPos, lcdPosActual,
  lcdClearFlag, running, bypassed, cut, lcdPrints, resets>>
simVars == <<
  simHalter, simHolder, simPc, socket_buffer, simLine, simAnswer, toServer,
  toClient, robotSteps, simAsked, obeyed, simSince>>
twiVars == <<
  m, command, twea, twie, status, twdr, peer, twiCall, role, transfers>>
upVars == <<
  upHalter, upHolder, upPc, boot, configGood, fpgaGood, goDown, batteryGood,
  overridden, upRobotId, rf_start, upPosition, told, pressed, stopped,
  packets, goChanges>>

Parts == {
  "encoders", "digital", "actuators", "position", "ring", "bus", "gyro",
  "console", "strings", "radio", "loader", "display", "simulated", "i2c",
  "bringup"}

\* One part is chosen; the values other parts may start with are not.
Init ==
  /\ part \in Parts
  /\ Enc!Init
  /\ Dig!Init
  /\ Act!Init
  /\ Pos!Init
  /\ Ring!Init
  /\ part # "ring" => \A i, j \in Ring!Index : buf[i] = buf[j]
  /\ Bus!BusInit
  /\ busHalter = Nobody /\ busHolder = [l \in {"spi", "adc"} |-> Nobody]
  /\ busPc = [t \in BusThread |-> "idle"]
  /\ part # "bus" => divider = 2
  /\ Gyr!GyroInit
  /\ gyrHalter = Nobody /\ gyrHolder = [l \in {"gyro"} |-> Nobody]
  /\ gyrPc = [t \in GyrThread |-> "idle"]
  /\ Con!ConsoleInit
  /\ conHalter = Nobody /\ conHolder = [l \in {"uart"} |-> Nobody]
  /\ conPc = [t \in ConThread |-> "idle"]
  /\ Str!RadioTextInit
  /\ strHalter = Nobody /\ strHolder = [l \in {"rf"} |-> Nobody]
  /\ strPc = [t \in StrThread |-> "idle"]
  /\ Rad!Init
  /\ Load!BootInit
  /\ part # "loader" => flash = [a \in Load!FlashByte |-> 1]
  /\ Lcd!DisplayInit
  /\ Sim!SimulatedInit
  /\ Twi!I2cInit
  /\ part # "i2c" => role = "master"
  /\ Up!BringUpInit
  /\ upHalter = Nobody /\ upHolder = [l \in {"uart"} |-> Nobody]
  /\ upPc = [t \in UpThread |-> "idle"]
  /\ part # "bringup" => configGood /\ fpgaGood /\ goDown

Next ==
  /\ UNCHANGED part
  /\ \/ part = "encoders" /\ Enc!Next
     \/ part = "digital" /\ Dig!Next
     \/ part = "actuators" /\ Act!Next
     \/ part = "position" /\ Pos!Next
     \/ part = "ring" /\ Ring!Next
     \/ part = "bus" /\ Bus!BusNext
     \/ part = "gyro" /\ Gyr!GyroNext
     \/ part = "console" /\ Con!ConsoleNext
     \/ part = "strings" /\ Str!RadioTextNext
     \/ part = "radio" /\ Rad!Next
     \/ part = "loader" /\ Load!BootNext
     \/ part = "display" /\ Lcd!DisplayNext
     \/ part = "simulated" /\ Sim!SimulatedNext
     \/ part = "i2c" /\ Twi!I2cNext
     \/ part = "bringup" /\ Up!BringUpNext
  /\ IF part = "encoders" THEN TRUE ELSE UNCHANGED encVars
  /\ IF part = "digital" THEN TRUE ELSE UNCHANGED digVars
  /\ IF part = "actuators" THEN TRUE ELSE UNCHANGED actVars
  /\ IF part = "position" THEN TRUE ELSE UNCHANGED posVars
  /\ IF part = "ring" THEN TRUE ELSE UNCHANGED ringVars
  /\ IF part = "bus" THEN TRUE ELSE UNCHANGED busVars
  /\ IF part = "gyro" THEN TRUE ELSE UNCHANGED gyrVars
  /\ IF part = "console" THEN TRUE ELSE UNCHANGED conVars
  /\ IF part = "strings" THEN TRUE ELSE UNCHANGED strVars
  /\ IF part = "radio" THEN TRUE ELSE UNCHANGED radVars
  /\ IF part = "loader" THEN TRUE ELSE UNCHANGED loadVars
  /\ IF part = "display" THEN TRUE ELSE UNCHANGED lcdVars
  /\ IF part = "simulated" THEN TRUE ELSE UNCHANGED simVars
  /\ IF part = "i2c" THEN TRUE ELSE UNCHANGED twiVars
  /\ IF part = "bringup" THEN TRUE ELSE UNCHANGED upVars

vars == <<
  part, encVars, digVars, actVars, posVars, ringVars, busVars, gyrVars,
  conVars, strVars, radVars, loadVars, lcdVars, simVars, twiVars, upVars>>

Spec == Init /\ [][Next]_vars

ASSUME DriversAssumption ==
  /\ Enc!NobodyAssumption /\ Enc!EncodersAssumption
  /\ Dig!NobodyAssumption /\ Dig!DigitalPortsAssumption
  /\ Act!NobodyAssumption /\ Act!ActuatorsAssumption
  /\ Pos!NobodyAssumption /\ Pos!PositionDataAssumption
  /\ Ring!RingAssumption
  /\ Bus!NobodyAssumption /\ Bus!BusAssumption
  /\ Gyr!NobodyAssumption /\ Gyr!GyroAssumption
  /\ Con!NobodyAssumption /\ Con!ConsoleAssumption
  /\ Str!NobodyAssumption /\ Str!RadioTextAssumption
  /\ Rad!NobodyAssumption /\ Rad!RadioLinkAssumption
  /\ Load!BootLoaderAssumption
  /\ Lcd!DisplayAssumption
  /\ Sim!NobodyAssumption /\ Sim!SimulatedAssumption
  /\ Twi!I2cAssumption
  /\ Up!NobodyAssumption /\ Up!BringUpAssumption

-----------------------------------------------------------------------------
(* Properties, each stated with its reasons in the module of its part *)

\* The variables of every driver keep their types: no index, counter or
\* register leaves its range.
TypeOK ==
  /\ part = "encoders" => Enc!TypeOK
  /\ part = "digital" => Dig!TypeOK
  /\ part = "actuators" => Act!TypeOK
  /\ part = "position" => Pos!TypeOK
  /\ part = "ring" => Ring!TypeOK
  /\ part = "bus" => Bus!BusTypeOK
  /\ part = "gyro" => Gyr!GyroTypeOK
  /\ part = "console" => Con!ConsoleTypeOK
  /\ part = "strings" => Str!RadioTextTypeOK
  /\ part = "radio" => Rad!TypeOK
  /\ part = "loader" => Load!BootTypeOK
  /\ part = "simulated" => Sim!SimulatedTypeOK
  /\ part = "i2c" => Twi!I2cTypeOK
  /\ part = "bringup" => Up!BringUpTypeOK

\* encoder_read() returns what the counter was when its low byte was read,
\* less a zero point that was set whole; a thread that alone uses an encoder
\* reads the distance since its last reset, across an overflow of the
\* counter.
DistancesAreTrue ==
  part = "encoders" =>
    /\ Enc!ReadingsAreWhole
    /\ Enc!ReadsDistanceSinceReset

\* Outside calls every motor turns as one last call asked, direction and
\* speed, and every servo has the whole position one last call asked.
ActuatorsAsAsked ==
  part = "actuators" =>
    /\ Act!MotorsAsAsked
    /\ Act!ServosAsAsked

\* Only the chip a thread talks to hears it, at its own clock; RF_CE is low
\* while the end of a transmission is waited for, and high again after; the
\* converter samples the input its caller asked for.
BusIsOurs ==
  part = "bus" =>
    /\ Bus!OneChipHears
    /\ Bus!ReceiverFollows
    /\ Bus!AdcSamplesInput

\* The heading is the integral of the readings, remainder included, over a
\* time that is the ticks there have been, less those an overflow waited.
GyroIsTrue ==
  part = "gyro" =>
    /\ Gyr!HeadingIsIntegral
    /\ Gyr!TimeTold

\* What one call prints or scans is not mixed with that of another, a panic
\* prints its whole text whoever has the lock, and one press of a switch is
\* one click.
ConsoleIsWhole ==
  part = "console" =>
    /\ Con!TextsAreWhole
    /\ Con!NumbersAreWhole
    /\ Con!PanicIsTold
    /\ Con!OneClickAPress

\* A reader gets the characters of the string that arrived, in order.
ReadsTheString == part = "strings" => Str!ReadsTheString

\* Whatever the display was in the middle of at a reset, it takes what
\* follows in step, and shows the text of a panic.
DisplayInStep ==
  part = "display" =>
    /\ Lcd!DisplayTypeOK
    /\ Lcd!InStepAgain
    /\ Lcd!PanicShows

\* A thread of the simulated robot gets the answer to its own question, and
\* the simulator sets the velocities asked for, in order.
AnswersAreOwn ==
  part = "simulated" =>
    /\ Sim!OwnAnswer
    /\ Sim!VelocitiesArrive

\* The characters of one call reach the packets together and in order.
NotInterleaved == part = "radio" => Rad!NotInterleaved

\* A message sent as master is received whole, a master reads what the
\* device sent, a slave receives and sends what it should, and a slave that
\* nobody talks to answers its address.
TransfersAreFaithful ==
  part = "i2c" =>
    /\ Twi!MessagesArrive
    /\ Twi!ReadsWhatWasSent
    /\ Twi!SlaveIsFaithful
    /\ Twi!HearsItsAddress

\* Threads run only on a board that passed its checks or whose GO switch is
\* down, and a round starts and ends only when the referee or the GO switch
\* says so.
StartsSoundAndTold ==
  part = "bringup" =>
    /\ Up!OnlySoundBoardsRun
    /\ Up!OnlyWhenTold

\* The position stored as ours is ours and the other is not; an accessor of
\* the daemon returns one position, after the first.
PositionsAreWhole ==
  part = "position" =>
    /\ Pos!OursIsOurs
    /\ Pos!AccessorsAreWhole

\* Readers see whole packets, in the order they were sent: PositionFeed.
ImplementsFeed == Pos!ImplementsFeed

\* A ring buffer is a queue of bytes: ByteQueue.
ImplementsQueue == Ring!ImplementsQueue

\* The display shows the text that was printed: TextScreen.
IsATextScreen == Lcd!IsATextScreen

\* Outside calls every port is as the last call for it asked, a port is
\* sampled while it is an input, and one that becomes an output never drives
\* the level of before.
PortsAsAsked ==
  /\ [](part = "digital" => Dig!PortsAsAsked /\ Dig!SampledIsInput)
  /\ Dig!NoStaleLevel

\* A block the host believes written is in memory, host and loader agree
\* where a command ends, and memory changes by whole blocks only.
BlocksArrive ==
  /\ [](part = "loader" => Load!BlocksArrive /\ Load!InStep)
  /\ Load!OnlyWholeBlocks
=============================================================================
