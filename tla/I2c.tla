-------------------------------- MODULE I2c --------------------------------
(***************************************************************************)
(* hal/i2c.c: transfers on the I2C bus, driven by the interrupt of the     *)
(* two-wire interface (TWI) or, the functions with NI in their names, by   *)
(* waiting for its flag.  The robot is either the only master of the bus,  *)
(* used by one thread that does not mix the two kinds in one moment, or a  *)
(* slave that another master addresses.  The TWI and the devices are       *)
(* external: after each command the TWI does one thing on the bus and      *)
(* reports it in its status register.                                      *)
(***************************************************************************)
EXTENDS Integers, Sequences

CONSTANTS
  Byte,          \* bytes on the bus
  Fill,          \* the byte read where no device answers, 255
  BufferSize,    \* I2C_SEND_ and I2C_RECEIVE_DATA_BUFFER_SIZE
  MaxTransfers   \* bound: number of transfers

I2cAssumption == BufferSize \in Nat \ {0} /\ MaxTransfers \in Nat

VARIABLES
  m,         \* the static variables of i2c.c
  command,   \* what the TWI has been told to do, "none" when it has done it
  twea,      \* TWEA, acknowledge what is received
  twie,      \* TWIE, the interrupt is enabled
  status,    \* what the TWI has done, "none" when TWINT is clear
  twdr,      \* the data register
  peer,      \* the device, or the master, at the other end
  call,      \* the call of the thread, and where it is
  role,      \* "master" or "slave"
  transfers

twiVars == <<command, twea, twie, status, twdr>>
i2cVars == <<m, twiVars, peer, call, role, transfers>>

Data == UNION {[1 .. n -> Byte] : n \in 0 .. BufferSize}
NoPeer == [addressed |-> "no", rw |-> "W", present |-> TRUE, got |-> <<>>,
           gave |-> <<>>, refused |-> FALSE, driving |-> FALSE]
NoCall == [op |-> "none", at |-> "idle", out |-> <<>>, i |-> 0, n |-> 0,
           in |-> <<>>]

I2cTypeOK ==
  /\ m.state \in {"IDLE", "MASTER_TX", "MASTER_RX", "SLAVE_TX", "SLAVE_RX"}
  /\ m.sendIndex \in 0 .. BufferSize + 1
  /\ m.recvIndex \in 0 .. BufferSize
  /\ m.recvData \in [1 .. BufferSize -> Byte \cup {Fill}]

\* i2cInit(): listening, interrupts on.
I2cInit ==
  /\ m = [state |-> "IDLE", rw |-> "W", sendData |-> <<>>, sendIndex |-> 0,
          sendLength |-> 0, recvIndex |-> 0, recvLength |-> 0,
          recvData |-> [i \in 1 .. BufferSize |-> Fill]]
  /\ command = "none" /\ twea = TRUE /\ twie = TRUE
  /\ status = "none" /\ twdr = Fill
  /\ peer = NoPeer /\ call = NoCall /\ transfers = 0
  /\ role \in {"master", "slave"}

-----------------------------------------------------------------------------
(* Commands: each clears TWINT, and with it the status *)

Commands(c, ea) ==
  command' = c /\ twea' = ea /\ status' = "none" /\ UNCHANGED twie

i2cSendStart == Commands("start", FALSE) /\ UNCHANGED twdr
i2cSendStop == Commands("stop", TRUE) /\ UNCHANGED twdr
i2cSendByte(b) == Commands("byte", FALSE) /\ twdr' = b
i2cReceiveByte(ack) == Commands("receive", ack) /\ UNCHANGED twdr
Listen(ack) == Commands("listen", ack) /\ UNCHANGED twdr

-----------------------------------------------------------------------------
(* The interrupt, SIG_2WIRE_SERIAL *)

Interrupt(codes) ==
  twie /\ status \in codes /\ UNCHANGED <<peer, call, role, transfers>>

IsrStart ==
  /\ Interrupt({"START"})
  /\ i2cSendByte(m.rw)
  /\ UNCHANGED m

MoreToSend(i) == i < m.sendLength

IsrSent ==
  /\ Interrupt({"MT_SLA_ACK", "MT_DATA_ACK"})
  /\ IF MoreToSend(m.sendIndex)
     THEN /\ i2cSendByte(m.sendData[m.sendIndex + 1])
          /\ m' = [m EXCEPT !.sendIndex = @ + 1]
     ELSE i2cSendStop /\ m' = [m EXCEPT !.state = "IDLE"]

Stored == [m EXCEPT !.recvData[m.recvIndex + 1] = twdr, !.recvIndex = @ + 1]

\* Mutant: a device that refuses a byte is forgotten.
RefusedAddress == {"MR_DATA_NACK", "MR_SLA_NACK", "MT_SLA_NACK"}

Refused == {"MR_DATA_NACK", "MR_SLA_NACK", "MT_SLA_NACK", "MT_DATA_NACK"}

IsrNack ==
  /\ Interrupt(Refused)
  /\ i2cSendStop
  /\ m' = [(IF status = "MR_DATA_NACK" THEN Stored ELSE m)
             EXCEPT !.state = "IDLE"]

\* More than the byte now coming is wanted.
MoreToCome(i) == i < m.recvLength - 1

IsrReceived ==
  /\ Interrupt({"MR_DATA_ACK", "MR_SLA_ACK"})
  /\ LET now == IF status = "MR_DATA_ACK" THEN Stored ELSE m IN
     m' = now /\ i2cReceiveByte(MoreToCome(now.recvIndex))

\* Mutant: the buffer goes on where the last transfer ended.
IndexKept == m.recvIndex

FirstIndex == 0

IsrAddressedToReceive ==
  /\ Interrupt({"SR_SLA_ACK"})
  /\ m' = [m EXCEPT !.state = "SLAVE_RX", !.recvIndex = FirstIndex]
  /\ Listen(TRUE)

HasRoom(i) == i < BufferSize

IsrSlaveReceived ==
  \/ /\ Interrupt({"SR_DATA_ACK"})
     /\ m' = Stored
     /\ Listen(HasRoom(m.recvIndex + 1))
  \/ /\ Interrupt({"SR_DATA_NACK"})
     /\ Listen(FALSE) /\ UNCHANGED m

\* Mutant: the address is not listened for again.
SlaveClosed == FALSE

\* "switch to open slave"
SlaveOpen == TRUE

\* The handler i2cSlaveReceive is called.
IsrSlaveStopped ==
  /\ twie /\ status = "SR_STOP"
  /\ Listen(SlaveOpen)
  /\ call' = [call EXCEPT !.in = SubSeq(m.recvData, 1, m.recvIndex)]
  /\ m' = [m EXCEPT !.state = "IDLE"]
  /\ UNCHANGED <<peer, role, transfers>>

Transmits(now) ==
  /\ m' = [now EXCEPT !.sendIndex = @ + 1]
  /\ twdr' = now.sendData[now.sendIndex + 1]
  /\ command' = "give" /\ twea' = (now.sendIndex + 1 < now.sendLength)
  /\ status' = "none" /\ UNCHANGED twie

\* The handler i2cSlaveTransmit fills the buffer with one byte at least.
IsrAddressedToTransmit ==
  /\ twie /\ status = "ST_SLA_ACK"
  /\ \E d \in Data \ {<<>>} :
       /\ Transmits([m EXCEPT !.state = "SLAVE_TX", !.sendIndex = 0,
                              !.sendData = d, !.sendLength = Len(d)])
       /\ call' = [call EXCEPT !.out = d]
  /\ UNCHANGED <<peer, role, transfers>>

IsrTransmitted ==
  \/ Interrupt({"ST_DATA_ACK"}) /\ Transmits(m)
  \/ /\ Interrupt({"ST_DATA_NACK", "ST_LAST_DATA"})
     /\ Listen(SlaveOpen)
     /\ m' = [m EXCEPT !.state = "IDLE"]

Isr == \/ IsrStart \/ IsrSent \/ IsrNack \/ IsrReceived
       \/ IsrAddressedToReceive \/ IsrSlaveReceived \/ IsrSlaveStopped
       \/ IsrAddressedToTransmit \/ IsrTransmitted

-----------------------------------------------------------------------------
(* The calls of the thread *)

Begins(op, out, n) ==
  /\ role = "master" /\ call.at = "idle" /\ m.state = "IDLE"
  /\ transfers < MaxTransfers /\ transfers' = transfers + 1
  /\ call' = [op |-> op, at |-> "wait", out |-> out, i |-> 0, n |-> n,
              in |-> <<>>]
  /\ \E here \in BOOLEAN : peer' = [NoPeer EXCEPT !.present = here,
                                                  !.addressed = peer.addressed]
  /\ UNCHANGED role

i2cMasterSend ==
  \E d \in Data :
    /\ Begins("send", d, 0)
    /\ m' = [m EXCEPT !.state = "MASTER_TX", !.rw = "W", !.sendData = d,
                      !.sendIndex = 0, !.sendLength = Len(d)]
    /\ i2cSendStart

i2cMasterReceive ==
  \E n \in 0 .. BufferSize :
    /\ Begins("receive", <<>>, n)
    /\ m' = [m EXCEPT !.state = "MASTER_RX", !.rw = "R", !.recvIndex = 0,
                      !.recvLength = n]
    /\ i2cSendStart

\* while(I2cState): at the end of i2cMasterReceive, or the next call.
Finished ==
  /\ call.at = "wait" /\ call.op \in {"send", "receive"} /\ m.state = "IDLE"
  /\ call' = [call EXCEPT !.at = "idle", !.in = SubSeq(m.recvData, 1, call.n)]
  /\ UNCHANGED <<m, twiVars, peer, role, transfers>>

StartNI(op, out, n) ==
  /\ Begins(op, out, n)
  /\ command' = "start" /\ twea' = FALSE /\ status' = "none" /\ twie' = FALSE
  /\ UNCHANGED <<m, twdr>>

i2cMasterSendNI == \E d \in Data : StartNI("sendNI", d, 0)
i2cMasterReceiveNI == \E n \in 1 .. BufferSize : StartNI("receiveNI", <<>>, n)
i2cMasterTransferNI ==
  \E d \in Data, n \in 0 .. BufferSize : StartNI("transferNI", d, n)

\* i2cWaitForComplete() has returned.
Waited(at) ==
  ~twie /\ call.at = at /\ status # "none" /\ UNCHANGED <<m, peer, role,
                                                          transfers>>

Then(at) == call' = [call EXCEPT !.at = at]

\* What follows the data sent: a start for the read, or the end.
ReadOrStop == IF call.n > 0 THEN i2cSendStart /\ Then("read")
                            ELSE i2cSendStop /\ Then("sto")

\* After the start condition.  A transfer with nothing to send sends no address.
NiAddress ==
  /\ Waited("wait")
  /\ IF call.op = "receiveNI" THEN i2cSendByte("R") /\ Then("accept")
     ELSE IF call.op = "sendNI" \/ call.out # <<>>
     THEN i2cSendByte("W") /\ Then("send")
     ELSE ReadOrStop

NiSend ==
  /\ Waited("send")
  /\ IF call.i < Len(call.out)
     THEN i2cSendByte(call.out[call.i + 1]) /\ call' = [call EXCEPT !.i = @ + 1]
     ELSE ReadOrStop

NiRead == Waited("read") /\ i2cSendByte("R") /\ Then("accept")

\* Every byte is asked for with an acknowledge, the last one too.
NiAccept == Waited("accept") /\ i2cReceiveByte(TRUE) /\ Then("store")

NiStore ==
  /\ Waited("store")
  /\ IF Len(call.in) + 1 < call.n THEN i2cReceiveByte(TRUE) ELSE i2cSendStop
  /\ call' = [call EXCEPT !.in = Append(@, twdr),
                !.at = IF Len(call.in) + 1 < call.n THEN "store"
                       ELSE IF call.op = "transferNI" THEN "sto" ELSE "end"]

\* while(!TWSTO): the bit that has just been set must not be clear yet.
NiEnd ==
  /\ call.at \in {"sto", "end"}
  /\ call.at = "sto" => command = "stop"
  /\ twie' = TRUE
  /\ Then("idle")
  /\ UNCHANGED <<m, command, twea, status, twdr, peer, role, transfers>>

Continue == \/ Finished \/ NiAddress \/ NiSend \/ NiRead \/ NiAccept
            \/ NiStore \/ NiEnd

-----------------------------------------------------------------------------
(* The TWI and the devices *)

Reports(s) == status' = s /\ command' = "none" /\ UNCHANGED <<twea, twie>>

TwiStart ==
  /\ command = "start"
  /\ Reports("START")
  /\ peer' = [peer EXCEPT !.addressed = "fresh", !.driving = FALSE]
  /\ UNCHANGED twdr

TwiAddress ==
  /\ command = "byte" /\ peer.addressed = "fresh"
  /\ Reports(CASE twdr = "W" /\ peer.present -> "MT_SLA_ACK"
               [] twdr = "W" /\ ~peer.present -> "MT_SLA_NACK"
               [] twdr = "R" /\ peer.present -> "MR_SLA_ACK"
               [] twdr = "R" /\ ~peer.present -> "MR_SLA_NACK")
  /\ peer' = [peer EXCEPT !.addressed = IF peer.present THEN twdr ELSE "none",
                          !.driving = (peer.present /\ twdr = "R")]
  /\ UNCHANGED twdr

TwiSend ==
  /\ command = "byte" /\ peer.addressed \in {"W", "none"}
  /\ \E ack \in {FALSE, peer.addressed = "W"} :
       /\ Reports(IF ack THEN "MT_DATA_ACK" ELSE "MT_DATA_NACK")
       /\ peer' = [peer EXCEPT !.addressed = IF ack THEN "W" ELSE "none",
                               !.refused = @ \/ ~ack,
                               !.got = IF ack THEN Append(@, twdr) ELSE @]
  /\ UNCHANGED twdr

TwiReceive ==
  /\ command = "receive"
  /\ Reports(IF twea THEN "MR_DATA_ACK" ELSE "MR_DATA_NACK")
  /\ IF peer.addressed = "R"
     THEN \E b \in Byte :
            /\ twdr' = b
            /\ peer' = [peer EXCEPT !.gave = Append(@, b), !.driving = twea]
     ELSE twdr' = Fill /\ UNCHANGED peer

TwiStop ==
  /\ command = "stop"
  /\ command' = "none"
  /\ peer' = [peer EXCEPT !.addressed = "no"]
  /\ UNCHANGED <<twea, twie, status, twdr>>

Twi == /\ TwiStart \/ TwiAddress \/ TwiSend \/ TwiReceive \/ TwiStop
       /\ UNCHANGED <<m, call, role, transfers>>

\* Another master addresses the robot, which hears it if TWEA is set.
PeerAddresses ==
  /\ role = "slave" /\ command \in {"none", "listen"} /\ twea /\ status = "none"
  /\ peer.addressed = "no"
  /\ transfers < MaxTransfers /\ transfers' = transfers + 1
  /\ \E rw \in {"W", "R"} :
       /\ Reports(IF rw = "W" THEN "SR_SLA_ACK" ELSE "ST_SLA_ACK")
       /\ peer' = [NoPeer EXCEPT !.addressed = rw, !.rw = rw]
  /\ UNCHANGED <<m, twdr, call, role>>

\* It sends a byte.  The TWI leaves the transfer when it does not acknowledge.
PeerSends ==
  /\ role = "slave" /\ command = "listen" /\ peer.addressed = "W"
  /\ Reports(IF twea THEN "SR_DATA_ACK" ELSE "SR_DATA_NACK")
  /\ \E b \in Byte :
       /\ twdr' = b
       /\ peer' = [peer EXCEPT !.addressed = IF twea THEN "W" ELSE "no",
                               !.refused = ~twea,
                               !.gave = IF twea THEN Append(@, b) ELSE @]
  /\ UNCHANGED <<m, call, role, transfers>>

PeerStops ==
  /\ role = "slave" /\ command = "listen" /\ peer.addressed = "W"
  /\ Reports("SR_STOP")
  /\ peer' = [peer EXCEPT !.addressed = "no"]
  /\ UNCHANGED <<m, twdr, call, role, transfers>>

PeerReads ==
  /\ role = "slave" /\ command = "give"
  /\ \E ack \in BOOLEAN :
       /\ Reports(IF ~ack THEN "ST_DATA_NACK"
                  ELSE IF twea THEN "ST_DATA_ACK" ELSE "ST_LAST_DATA")
       /\ peer' = [peer EXCEPT !.got = Append(@, twdr),
                               !.addressed = IF ack /\ twea THEN @ ELSE "no"]
  /\ UNCHANGED <<m, twdr, call, role, transfers>>

I2cNext == \/ Isr \/ Continue \/ Twi
           \/ i2cMasterSend \/ i2cMasterReceive \/ i2cMasterSendNI
           \/ i2cMasterReceiveNI \/ i2cMasterTransferNI
           \/ PeerAddresses \/ PeerSends \/ PeerStops \/ PeerReads

\* The TWI does what it is told, and the processor goes on.
I2cFair == WF_i2cVars(Isr) /\ WF_i2cVars(Continue) /\ WF_i2cVars(Twi)

I2cSpec == I2cInit /\ [][I2cNext]_i2cVars /\ I2cFair

-----------------------------------------------------------------------------
(* Properties *)

Sender == {"send", "sendNI", "transferNI"}
Done == call.at \in {"idle", "sto"} \/ (m.state = "IDLE" /\ twie)

\* A message goes through buffers and one interrupt per byte: when it is over,
\* the device has all of it in order, or has refused a byte or the address.
MessagesArrive ==
  role = "master" /\ call.op \in Sender /\ Done =>
    peer.got = call.out \/ peer.refused \/ ~peer.present

\* A reader gets the bytes the device sent, in order, and takes no more of them
\* than it asked for (a read of nothing takes one).
ReadsWhatWasSent ==
  role = "master" /\ call.at = "idle" /\ call.n > 0 /\ peer.present =>
    call.in = peer.gave

\* As a slave: the handler is given the bytes that were acknowledged, and a
\* master gets those the handler gave, over one buffer or shorter.
SlaveIsFaithful ==
  role = "slave" =>
    /\ m.state = "IDLE" /\ peer.rw = "W" /\ peer.addressed = "no"
       => call.in = peer.gave
    /\ peer.rw = "R" /\ m.state # "SLAVE_RX" =>
         peer.got = SubSeq(call.out, 1, Len(peer.got))

\* Between transfers a slave hears its address, unless a message was longer than
\* its buffer: after that it is deaf (i2c.c:458 clears TWEA).
HearsItsAddress ==
  role = "slave" /\ status = "none" /\ peer.addressed = "no"
    => twea \/ peer.refused

\* Whatever the device refuses, the calls end and while(I2cState) does not wait
\* for ever; but the stop condition must not be over before the processor looks
\* at TWSTO (i2c.c:252, 347), or it waits for the bit for good.
CallsEnd ==
  call.at # "idle" ~> \/ call.at = "idle"
                      \/ call.at = "sto" /\ command = "none"
=============================================================================
