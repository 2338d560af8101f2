----------------------------- MODULE MCDevices ------------------------------
(***************************************************************************)
(* Small instances, for TLC, of the modules about which something must     *)
(* happen in the end, and of the tool chain of the FPGA. Each behaviour is *)
(* of one of the parts, chosen at first, and fair as its module says.      *)
(*                                                                         *)
(* The bounds are explained in README.md.                                  *)
(***************************************************************************)
EXTENDS Integers, Sequences, FiniteSets

CONSTANTS Nobody

VARIABLES
  part,    \* the component this behaviour is of
  \* Actuators
  actHalter, actHolder, actPc, job, ctl, vel, tempLo, srv, index, motorAsked,
  servoAsked,
  \* RadioLink
  radHalter, radHolder, radPc, radio, rx_fifo, rx_dr, tx_ds, onAir, arrived,
  tx, rf_ch_count, printed, sent,
  \* I2c
  m, command, twea, twie, status, twdr, peer, call, role, transfers,
  \* BringUp
  upHalter, upHolder, upPc, boot, configGood, fpgaGood, goDown, batteryGood,
  overridden, robot_id, rf_start, vps_daemon_has_recvd, told, pressed, stopped,
  packets, goChanges,
  \* Bitstream
  raw, stage, uploaded, cells, pageBuffer, pointer, read_offset, config,
  outSize, fed

Act == INSTANCE Actuators WITH
  Thread <- {"t1", "t2"}, Units <- 2, Base <- 4, Positions <- {6},
  Velocities <- {}, halter <- actHalter, holder <- actHolder, pc <- actPc

Rad == INSTANCE RadioLink WITH
  Thread <- {"rf", "p1", "p2"}, Rf <- "rf", PayloadSize <- 2, FifoSize <- 3,
  MaxPackets <- 2, MaxChars <- 3, halter <- radHalter, holder <- radHolder,
  pc <- radPc

Twi == INSTANCE I2c WITH
  Byte <- {"b1", "b2"}, Fill <- "b0", BufferSize <- 2, MaxTransfers <- 2

Up == INSTANCE BringUp WITH
  Thread <- {"main", "rf", "daemon"}, Main <- "main", RfThread <- "rf",
  Daemon <- "daemon", OurId <- "our id", OtherId <- "other id",
  NoId <- "no id", MaxPackets <- 3, MaxGo <- 3, halter <- upHalter,
  holder <- upHolder, pc <- upPc

Bit == INSTANCE Bitstream WITH
  Raw <- UNION {[1 .. n -> {1, 13}] : n \in 1 .. 7},
  Installed <- <<1, 1, 13, 2>>, MaxRun <- 3, BlockLimit <- 6, PageSize <- 4,
  Pages <- 6, Extra <- 1

actVars == <<
  actHalter, actHolder, actPc, job, ctl, vel, tempLo, srv, index, motorAsked,
  servoAsked>>
radVars == <<
  radHalter, radHolder, radPc, radio, rx_fifo, rx_dr, tx_ds, onAir, arrived,
  tx, rf_ch_count, printed, sent>>
twiVars == <<
  m, command, twea, twie, status, twdr, peer, call, role, transfers>>
upVars == <<
  upHalter, upHolder, upPc, boot, configGood, fpgaGood, goDown, batteryGood,
  overridden, robot_id, rf_start, vps_daemon_has_recvd, told, pressed, stopped,
  packets, goChanges>>
bitVars == <<
  raw, stage, uploaded, cells, pageBuffer, pointer, read_offset, config,
  outSize, fed>>

Parts == {"actuators", "radio", "i2c", "bringup", "bitstream"}

\* One part is chosen; the values other parts may start with are not.
Init ==
  /\ part \in Parts
  /\ Act!Init
  /\ Rad!Init
  /\ Twi!I2cInit
  /\ part # "i2c" => role = "master"
  /\ Up!BringUpInit
  /\ upHalter = Nobody /\ upHolder = [l \in {"uart"} |-> Nobody]
  /\ upPc = [t \in {"main", "rf", "daemon"} |-> "idle"]
  /\ part # "bringup" => configGood /\ fpgaGood /\ goDown
  /\ Bit!BitInit
  /\ part # "bitstream" => raw = <<1>> /\ cells = Bit!Blank

Next ==
  /\ UNCHANGED part
  /\ \/ part = "actuators" /\ Act!Next
     \/ part = "radio" /\ Rad!Next
     \/ part = "i2c" /\ Twi!I2cNext
     \/ part = "bringup" /\ Up!BringUpNext
     \/ part = "bitstream" /\ Bit!BitNext
  /\ IF part = "actuators" THEN TRUE ELSE UNCHANGED actVars
  /\ IF part = "radio" THEN TRUE ELSE UNCHANGED radVars
  /\ IF part = "i2c" THEN TRUE ELSE UNCHANGED twiVars
  /\ IF part = "bringup" THEN TRUE ELSE UNCHANGED upVars
  /\ IF part = "bitstream" THEN TRUE ELSE UNCHANGED bitVars

vars == <<part, actVars, radVars, twiVars, upVars, bitVars>>

\* The fairness each module states, for a behaviour of that part.
Fairness ==
  /\ \A t \in {"t1", "t2"} : WF_actVars(part = "actuators" /\ Act!HaltStep(t))
  /\ WF_radVars(part = "radio" /\ Rad!Transmitted)
  /\ WF_radVars(part = "radio" /\ Rad!RfStep)
  /\ \A t \in {"p1", "p2"} : WF_radVars(part = "radio" /\ Rad!SendPacket(t))
  /\ \A t \in {"p1", "p2"} : WF_radVars(part = "radio" /\ Rad!SendEnds(t))
  /\ WF_twiVars(part = "i2c" /\ Twi!Isr)
  /\ WF_twiVars(part = "i2c" /\ Twi!Continue)
  /\ WF_twiVars(part = "i2c" /\ Twi!Twi)
  /\ WF_upVars(part = "bringup" /\ Up!MainStep)
  /\ SF_upVars(part = "bringup" /\ Up!SaysUsetup)
  /\ SF_upVars(part = "bringup" /\ Up!SaysUmain)
  /\ SF_upVars(part = "bringup" /\ Up!SaysEnd)
  /\ WF_upVars(part = "bringup" /\ Up!SaidEnd)
  /\ WF_upVars(part = "bringup" /\ Up!DaemonPrinted)
  /\ WF_upVars(part = "bringup" /\ Up!PositionPacket)

Spec == Init /\ [][Next]_vars /\ Fairness

ASSUME DevicesAssumption ==
  /\ Act!NobodyAssumption /\ Act!ActuatorsAssumption
  /\ Rad!NobodyAssumption /\ Rad!RadioLinkAssumption
  /\ Twi!I2cAssumption
  /\ Up!NobodyAssumption /\ Up!BringUpAssumption
  /\ Bit!BitstreamAssumption

-----------------------------------------------------------------------------
(* Properties, each stated with its reasons in the module of its part *)

\* What bittool encodes its own decoder and fpga_init() decode; the FPGA is
\* fed the bitstream that was uploaded; a board refuses its configuration
\* only if none was ever stored.
BitstreamArrives ==
  part = "bitstream" =>
    /\ Bit!BitTypeOK
    /\ Bit!DecodingUndoesEncoding
    /\ Bit!FpgaGetsBitstream
    /\ Bit!ConfigAccepted

\* A halt ends with every motor braked and every servo off, and no other
\* thread runs again.
HaltStops ==
  /\ Act!HaltStops
  /\ Act!HaltIsFinal

\* The radio receives again after every packet it sends, and a receive
\* thread that is told of packets takes all of them.
RadioComesBack ==
  /\ Rad!ListensAgain
  /\ Rad!DrainsOnceTold

\* Every call of the TWI driver returns.
CallsEnd == Twi!CallsEnd

\* A start that the robot was ready to hear begins its round, and a stop
\* ends the round: the board halts.
RoundStartsAndEnds ==
  /\ Up!RoundNotMissed
  /\ Up!RoundEnds
=============================================================================
