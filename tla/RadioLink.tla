----------------------------- MODULE RadioLink -----------------------------
(***************************************************************************)
(* The radio: the receive thread, rf_send() and rf_send_packet() of        *)
(* drivers/rf.c, and what they see of the nRF24L01 chip.                   *)
(*                                                                         *)
(* An SPI command is one step: it is made under the lock of the bus.       *)
(* rf_send() runs with interrupts off, but a thread that has the bus, or   *)
(* the wait for the end of the transmission, makes it yield: once before   *)
(* its first command and then in the wait.                                 *)
(***************************************************************************)
EXTENDS DriverLocks, Sequences

CONSTANTS
  Rf,           \* the receive thread; the others print to the radio
  PayloadSize,  \* PAYLOAD_SIZE, characters in a packet (30)
  FifoSize,     \* packets the chip keeps (3)
  MaxPackets,   \* bound: packets that reach the chip
  MaxChars      \* bound: characters a thread prints

RadioLinkAssumption ==
  /\ Rf \in Thread
  /\ PayloadSize \in Nat \ {0}
  /\ FifoSize \in Nat \ {0}
  /\ MaxPackets \in Nat
  /\ MaxChars \in Nat

VARIABLES
  radio,        \* the mode the chip is in: "rx" or "tx"
  rx_fifo,      \* the packets it has received, oldest first
  rx_dr,        \* its flag "data received"
  tx_ds,        \* its flag "data sent"
  onAir,        \* whether it is transmitting
  arrived,      \* how many packets it has received
  tx,           \* tx.payload: which thread each character is from
  rf_ch_count,  \* number of characters in it
  printed,      \* how many characters each thread has printed
  sent          \* history: the characters written to packets that were sent

vars == <<halter, holder, pc, radio, rx_fifo, rx_dr, tx_ds, onAir, arrived,
          tx, rf_ch_count, printed, sent>>
rxVars == <<rx_fifo, arrived>>
chip == <<radio, rx_dr, tx_ds, onAir>>
text == <<tx, rf_ch_count, printed, sent>>

Sender == Thread \ {Rf}

TypeOK ==
  /\ radio \in {"rx", "tx"}
  /\ rx_fifo \in Seq(1 .. MaxPackets)
  /\ Len(rx_fifo) <= FifoSize
  /\ tx \in [1 .. PayloadSize -> Sender \cup {Nobody}]
  /\ rf_ch_count \in 0 .. PayloadSize
  /\ printed \in [Sender -> 0 .. MaxChars]

\* rf_init() has put the chip in receive mode and created the thread.
Init ==
  /\ halter = Nobody
  /\ holder = [l \in {"rf"} |-> Nobody]
  /\ pc = [t \in Thread |-> IF t = Rf THEN "status" ELSE "idle"]
  /\ radio = "rx"
  /\ rx_fifo = <<>>
  /\ rx_dr = FALSE
  /\ tx_ds = FALSE
  /\ onAir = FALSE
  /\ arrived = 0
  /\ tx = [i \in 1 .. PayloadSize |-> Nobody]
  /\ rf_ch_count = 0
  /\ printed = [t \in Sender |-> 0]
  /\ sent = <<>>

-----------------------------------------------------------------------------
(* The chip *)

\* A packet arrives; while the chip transmits or has no room it is lost.
Arrive ==
  /\ arrived < MaxPackets
  /\ radio = "rx"
  /\ Len(rx_fifo) < FifoSize
  /\ arrived' = arrived + 1
  /\ rx_fifo' = Append(rx_fifo, arrived + 1)
  /\ rx_dr' = TRUE
  /\ UNCHANGED <<halter, holder, pc, radio, tx_ds, onAir, text>>

\* The transmission ends; no acknowledgement is waited for.
Transmitted ==
  /\ onAir
  /\ onAir' = FALSE
  /\ tx_ds' = TRUE
  /\ UNCHANGED <<halter, holder, pc, radio, rx_dr, rxVars, text>>

-----------------------------------------------------------------------------
(* rf_receive() and rf_get_packet() *)

\* No flag, no work: the thread yields and looks again.
RfStatus ==
  /\ Goes(Rf, "status", IF rx_dr THEN "clear" ELSE "status")
  /\ UNCHANGED <<halter, holder, chip, rxVars, text>>

RfClear ==
  /\ Goes(Rf, "clear", "drain")
  /\ rx_dr' = FALSE
  /\ UNCHANGED <<halter, holder, radio, tx_ds, onAir, rxVars, text>>

RfDrain ==
  /\ Goes(Rf, "drain", IF rx_fifo = <<>> THEN "status" ELSE "payload")
  /\ UNCHANGED <<halter, holder, chip, rxVars, text>>

\* Mutant: one packet is read for each interrupt.
OnePacket == "status"

\* After a packet the thread looks for the next one.
AfterPacket == "drain"

RfPayload ==
  /\ Goes(Rf, "payload", AfterPacket)
  /\ rx_fifo' = Tail(rx_fifo)
  /\ UNCHANGED <<halter, holder, chip, arrived, text>>

\* The chip reports an impossible length: all it has received is dropped.
RfFlush ==
  /\ Goes(Rf, "payload", "drain")
  /\ rx_fifo' = <<>>
  /\ UNCHANGED <<halter, holder, chip, arrived, text>>

-----------------------------------------------------------------------------
(* rf_printf(), rf_send() and rf_send_packet() *)

\* Any of the four print functions takes the lock and sends characters.
Printf(t) ==
  /\ Goes(t, "idle", "send")
  /\ printed[t] = 0
  /\ Takes(t, "rf")
  /\ UNCHANGED <<halter, chip, rxVars, text>>

\* Mutant: a full payload is not sent.
OnlyNewline(newline) == newline

\* What makes rf_send() send its packet.
Complete(newline) == newline \/ rf_ch_count + 1 = PayloadSize

SendChar(t, newline) ==
  /\ printed[t] < MaxChars
  /\ Goes(t, "send", IF Complete(newline) THEN "packet" ELSE "send")
  /\ tx' = [tx EXCEPT ![rf_ch_count + 1] = t]
  /\ rf_ch_count' = rf_ch_count + 1
  /\ printed' = [printed EXCEPT ![t] = @ + 1]
  /\ UNCHANGED <<halter, holder, chip, rxVars, sent>>

\* The characters in the payload; a packet has no more than PAYLOAD_SIZE.
Written ==
  [i \in {j \in 1 .. PayloadSize : j <= rf_ch_count} |-> tx[i]]

\* The chip becomes a transmitter, all its flags are cleared, it is given the
\* payload and started.
SendPacket(t) ==
  /\ Goes(t, "packet", "wait")
  /\ radio' = "tx"
  /\ rx_dr' = FALSE
  /\ tx_ds' = FALSE
  /\ onAir' = TRUE
  /\ sent' = sent \o Written
  /\ UNCHANGED <<halter, holder, rxVars, tx, rf_ch_count, printed>>

\* The mode rf_send_packet() leaves the chip in.
ModeAfterwards == "rx"

\* The packet is sent: the flag is cleared and the chip receives again.
SendEnds(t) ==
  /\ tx_ds
  /\ Goes(t, "wait", "send")
  /\ tx_ds' = FALSE
  /\ radio' = ModeAfterwards
  /\ rf_ch_count' = 0
  /\ UNCHANGED <<halter, holder, rx_dr, onAir, rxVars, tx, printed, sent>>

PrintEnds(t) ==
  /\ Goes(t, "send", "idle")
  /\ printed[t] > 0
  /\ Gives(t, "rf")
  /\ UNCHANGED <<halter, chip, rxVars, text>>

-----------------------------------------------------------------------------

RfStep == RfStatus \/ RfClear \/ RfDrain \/ RfPayload \/ RfFlush

Next ==
  \/ Arrive
  \/ Transmitted
  \/ RfStep
  \/ \E t \in Sender : \/ Printf(t)
                       \/ \E newline \in BOOLEAN : SendChar(t, newline)
                       \/ SendPacket(t)
                       \/ SendEnds(t)
                       \/ PrintEnds(t)

Spec == Init /\ [][Next]_vars

\* Every thread runs again (EveryThreadRuns), and the chip, which waits for
\* no acknowledgement, ends every transmission.
Fairness ==
  /\ WF_vars(Transmitted)
  /\ WF_vars(RfStep)
  /\ \A t \in Sender : WF_vars(SendPacket(t)) /\ WF_vars(SendEnds(t))

FairSpec == Spec /\ Fairness

-----------------------------------------------------------------------------
(* Properties *)

\* What rf_send() keeps for the next packet: while it waits, the characters it
\* counts are those of a packet already sent.
Kept == IF \E t \in Sender : pc[t] = "wait" THEN <<>> ELSE Written

\* rf.c: "printing to rf from several threads will not cause characters to be
\* interleaved between threads".  The characters of a call stay together in
\* the packets and in the buffer, looking only at what was written to a packet.
NotInterleaved ==
  LET all == sent \o Kept IN
  \A i, k \in DOMAIN all :
    i < k /\ all[i] = all[k] => \A j \in i .. k : all[j] = all[i]

\* rf.h: "retrieve information received over RF".  A packet waits in the chip
\* only while the receive thread knows or will be told of it.
NoneForgotten ==
  rx_fifo # <<>> => rx_dr \/ pc[Rf] # "status"

\* Once the receive thread has seen the flag it reads until nothing is left, of
\* what comes in meanwhile too and across the packets other threads send.
DrainsOnceTold == pc[Rf] = "clear" ~> rx_fifo = <<>>

\* After a packet is sent the robot hears packets again: also when threads
\* keep printing, the chip returns to receiving.
ListensAgain == radio = "tx" ~> radio = "rx"
=============================================================================
