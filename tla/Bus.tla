-------------------------------- MODULE Bus --------------------------------
(***************************************************************************)
(* The SPI bus and what shares its pins: hal/spi.c, hal/adc.c and the      *)
(* drivers of the chips.  Who has the lock "spi" sets the clock, pulls the *)
(* select line of one chip low, exchanges bytes with it and lets it go.    *)
(*                                                                         *)
(* The select lines of the flash and of the second converter are bits of   *)
(* port F, and so is RF_CE, which the radio driver writes without the      *)
(* lock.  Port F lies where the processor has no instruction for a single  *)
(* bit: a pin is written by a load and a store of the whole port.          *)
(***************************************************************************)
EXTENDS DriverLocks

CONSTANTS
  Asks,      \* Asks[t]: the chips thread t uses
  Radio      \* the thread that prints to the radio, with interrupts off

Chip == {"motor", "adc1", "adc2", "rf", "flash"}

BusAssumption ==
  /\ Radio \in Thread
  /\ Asks \in [Thread -> SUBSET (Chip \cup {"adc"})]
  /\ Asks[Radio] = {"rf"}

VARIABLES
  port,      \* the output pins that are high: the select lines and RF_CE
  copy,      \* port F as a thread has loaded it, or NoCopy
  divider,   \* SPCR and SPSR: what the clock of the bus is divided by
  target,    \* the chip each thread talks to
  ready,     \* whether the flash has been found ready in this command
  phase,     \* where the radio thread is in rf_send_packet()
  admux,     \* the input the processor's own converter is set to
  input      \* the input each thread asked of it

busRegisters == <<port, copy, divider, admux>>
busCalls == <<target, ready, phase, input>>
busVars == <<busRegisters, busCalls>>

PortF == {"adc2", "flash", "ce"}
NoCopy == {"none"}
Inputs == 0 .. 1

BusTypeOK ==
  /\ port \subseteq Chip \cup {"ce"}
  /\ copy \in [Thread -> (SUBSET PortF) \cup {NoCopy}]
  /\ divider \in {2, 16}
  /\ target \in [Thread -> Chip]
  /\ phase \in {"none", "tx", "wait", "rx"}
  /\ input \in [Thread -> Inputs]

\* io_init() has deselected all chips, rf_init() has put the radio in receive
\* mode.
BusInit ==
  /\ port = Chip \cup {"ce"}
  /\ copy = [t \in Thread |-> NoCopy]
  /\ divider \in {2, 16}
  /\ target = [t \in Thread |-> "rf"]
  /\ ready = [t \in Thread |-> FALSE]
  /\ phase = "none"
  /\ admux = 0
  /\ input = [t \in Thread |-> 0]

\* GPIO_WRITE()
Written(pins, pin, high) == IF high THEN pins \cup {pin} ELSE pins \ {pin}

\* A pin of port F is written in two steps, any other in one.
WritesPin(t, from, pin, high, to) ==
  IF pin \in PortF /\ copy[t] = NoCopy
  THEN /\ Goes(t, from, from)
       /\ copy' = [copy EXCEPT ![t] = port \cap PortF]
       /\ UNCHANGED port
  ELSE /\ Goes(t, from, to)
       /\ copy' = [copy EXCEPT ![t] = NoCopy]
       /\ port' = IF pin \in PortF
                  THEN (port \ PortF) \cup Written(copy[t], pin, high)
                  ELSE Written(port, pin, high)

-----------------------------------------------------------------------------
(* A command to a chip *)

\* The chip of a sensor port, analog_read(): 8 .. 15 and 16 .. 23.
Converter(sensor) == IF sensor < 16 THEN "adc1" ELSE "adc2"

BeginsCommand(t, chip) ==
  /\ target' = [target EXCEPT ![t] = chip]
  /\ UNCHANGED <<halter, holder, busRegisters, phase, input>>

\* motor current and battery voltage
ReadMotorChip(t) ==
  /\ "motor" \in Asks[t]
  /\ Goes(t, "idle", "acquire")
  /\ BeginsCommand(t, "motor")
  /\ UNCHANGED ready

ReadSensor(t, sensor) ==
  /\ Converter(sensor) \in Asks[t]
  /\ Goes(t, "idle", "acquire")
  /\ BeginsCommand(t, Converter(sensor))
  /\ UNCHANGED ready

\* The receive thread reads and writes registers of the radio chip.
RadioCommand(t) ==
  /\ t # Radio /\ "rf" \in Asks[t]
  /\ Goes(t, "idle", "acquire")
  /\ BeginsCommand(t, "rf")
  /\ UNCHANGED ready

\* The flash is asked first whether it is ready, in a selection of its own,
\* unless it is its status or its buffer the command is for.
FlashCommand(t) ==
  /\ "flash" \in Asks[t]
  /\ Goes(t, "idle", "acquire")
  /\ BeginsCommand(t, "flash")
  /\ \E asks \in BOOLEAN : ready' = [ready EXCEPT ![t] = ~asks]

\* acquire() yields while another thread has the bus, also from a section that
\* has turned interrupts off: the others run until it is this thread's turn.
AcquireBus(t) ==
  \/ /\ Goes(t, "acquire", "master")
     /\ Takes(t, "spi")
     /\ UNCHANGED <<halter, busVars>>
  \/ /\ halter = t /\ holder["spi"] # Nobody
     /\ Goes(t, "acquire", "yielded")
     /\ halter' = Nobody
     /\ UNCHANGED <<holder, busVars>>

ResumeRadio(t) ==
  /\ Goes(t, "yielded", "acquire")
  /\ halter' = t
  /\ UNCHANGED <<holder, busVars>>

Divider(chip) == IF chip = "flash" THEN 2 ELSE 16

SetMaster(t) ==
  /\ Goes(t, "master", "select")
  /\ divider' = Divider(target[t])
  /\ UNCHANGED <<halter, holder, port, copy, admux, busCalls>>

SelectChip(t) ==
  /\ WritesPin(t, "select", target[t], FALSE, "transfer")
  /\ UNCHANGED <<halter, holder, divider, admux, busCalls>>

\* A byte goes each way.  A continuous read of the flash returns between its
\* bytes and leaves the chip selected.
TransferByte(t) ==
  /\ \E more \in BOOLEAN :
       Goes(t, "transfer", IF more THEN "transfer" ELSE "deselect")
  /\ UNCHANGED <<halter, holder, busVars>>

\* When the flash is ready it is selected again, for the command.
DeselectChip(t) ==
  LET again == target[t] = "flash" /\ ~ready[t] IN
  /\ WritesPin(t, "deselect", target[t], TRUE,
               IF again THEN "select" ELSE "release")
  /\ ready' = [ready EXCEPT ![t] = pc'[t] # "deselect"]
  /\ UNCHANGED <<halter, holder, divider, admux, target, phase, input>>

ReleaseBus(t) ==
  /\ Goes(t, "release", IF t = Radio THEN "sending" ELSE "idle")
  /\ Gives(t, "spi")
  /\ target' = [target EXCEPT ![t] = "rf"]
  /\ ready' = [ready EXCEPT ![t] = FALSE]
  /\ UNCHANGED <<halter, busRegisters, phase, input>>

-----------------------------------------------------------------------------
(* rf_send_packet(), called by rf_send() with interrupts off *)

\* Mutant: rf_send() leaves interrupts on.
InterruptsOn(t) == Nobody

InterruptsOff(t) == t

BeginSend ==
  /\ phase = "none"
  /\ Goes(Radio, "idle", "standby")
  /\ halter' = InterruptsOff(Radio)
  /\ phase' = "tx"
  /\ UNCHANGED <<holder, busRegisters, target, ready, input>>

\* rf_tx(): RF_CE low, then registers.
LeaveReceiveMode ==
  /\ WritesPin(Radio, "standby", "ce", FALSE, "acquire")
  /\ UNCHANGED <<halter, holder, divider, admux, busCalls>>

NextRegister ==
  /\ phase \in {"tx", "rx"} /\ copy[Radio] = NoCopy
  /\ Goes(Radio, "sending", "acquire")
  /\ UNCHANGED <<halter, holder, busVars>>

\* After the payload RF_CE goes high for a moment.
StartTransmission ==
  /\ phase = "tx"
  /\ WritesPin(Radio, "sending", "ce", TRUE, "started")
  /\ UNCHANGED <<halter, holder, divider, admux, busCalls>>

EndPulse ==
  /\ phase = "tx"
  /\ WritesPin(Radio, "started", "ce", FALSE, "acquire")
  /\ phase' = IF pc'[Radio] = "acquire" THEN "wait" ELSE phase
  /\ UNCHANGED <<halter, holder, divider, admux, target, ready, input>>

\* The status says that the packet is not sent: others run.
WaitForTransmission ==
  /\ phase = "wait"
  /\ Goes(Radio, "sending", "yielded")
  /\ halter' = Nobody
  /\ UNCHANGED <<holder, busVars>>

Transmission ==
  /\ phase = "wait"
  /\ Goes(Radio, "sending", "standby")
  /\ phase' = "rx"
  /\ UNCHANGED <<halter, holder, busRegisters, target, ready, input>>

\* rf_rx() has written its registers: RF_CE high.
ReceiveAgain ==
  /\ phase = "rx"
  /\ WritesPin(Radio, "sending", "ce", TRUE, "sent")
  /\ UNCHANGED <<halter, holder, divider, admux, busCalls>>

EndSend ==
  /\ Goes(Radio, "sent", "idle")
  /\ halter' = Nobody
  /\ phase' = "none"
  /\ UNCHANGED <<holder, busRegisters, target, ready, input>>

-----------------------------------------------------------------------------
(* adc_get_sample(), the processor's own converter *)

\* frob_read() is such a call for the input of the frob knob.
AskAdc(t, i) ==
  /\ "adc" \in Asks[t]
  /\ Goes(t, "idle", "adcAcquire")
  /\ input' = [input EXCEPT ![t] = i]
  /\ UNCHANGED <<halter, holder, busRegisters, target, ready, phase>>

AcquireAdc(t) ==
  /\ Goes(t, "adcAcquire", "adcStart")
  /\ Takes(t, "adc")
  /\ UNCHANGED <<halter, busVars>>

StartAdc(t) ==
  /\ Goes(t, "adcStart", "adcRead")
  /\ admux' = input[t]
  /\ UNCHANGED <<halter, holder, port, copy, divider, busCalls>>

ReadAdc(t) ==
  /\ Goes(t, "adcRead", "idle")
  /\ Gives(t, "adc")
  /\ input' = [input EXCEPT ![t] = 0]
  /\ UNCHANGED <<halter, busRegisters, target, ready, phase>>

-----------------------------------------------------------------------------

BusNext ==
  \/ \E t \in Thread :
       \/ ReadMotorChip(t) \/ RadioCommand(t) \/ FlashCommand(t)
       \/ \E sensor \in {15, 16} : ReadSensor(t, sensor)
       \/ AcquireBus(t) \/ ResumeRadio(t) \/ SetMaster(t) \/ SelectChip(t)
       \/ TransferByte(t) \/ DeselectChip(t) \/ ReleaseBus(t)
       \/ \E i \in Inputs : AskAdc(t, i)
       \/ AcquireAdc(t) \/ StartAdc(t) \/ ReadAdc(t)
  \/ BeginSend \/ LeaveReceiveMode \/ NextRegister \/ StartTransmission
  \/ EndPulse \/ WaitForTransmission \/ Transmission \/ ReceiveAgain \/ EndSend

-----------------------------------------------------------------------------
(* Properties *)

Selected == Chip \ port

\* spi.h: "Lock the SPI bus for access from a single thread".  A byte is
\* exchanged with the chip it is meant for and no other, at that chip's clock,
\* although two of the select lines share a port with RF_CE.
OneChipHears ==
  \A t \in Thread : pc[t] = "transfer" =>
    Selected = {target[t]} /\ divider = Divider(target[t])

\* RF_CE is low while the end of a transmission is waited for, and high again
\* afterwards, although threads that write their select line store all of
\* port F: rf_send() writes it with interrupts off, right after a command of
\* its own, when no other thread can be between its load and its store.  (The
\* first write of rf_tx() comes before its first command, and can be undone.)
ReceiverFollows ==
  /\ phase = "wait" => "ce" \notin port
  /\ phase = "none" => "ce" \in port

\* A thread reads the sample of the input it asked for.
AdcSamplesInput ==
  \A t \in Thread : pc[t] = "adcRead" => admux = input[t]
=============================================================================
