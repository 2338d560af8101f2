------------------------------ MODULE I2cProofs -----------------------------
(***************************************************************************)
(* Proofs about hal/i2c.c (I2c) in Drivers: transfers as master and as     *)
(* slave, by interrupt and by waiting, for buffers of any size, any        *)
(* messages and any device at the other end.                               *)
(***************************************************************************)
EXTENDS Drivers, SequenceTheorems, TLAPS

RoutineTypes ==
  /\ m \in [state : {"IDLE", "MASTER_TX", "MASTER_RX", "SLAVE_TX", "SLAVE_RX"},
            rw : {"W", "R"}, sendData : Seq(TwiByte), sendIndex : Nat,
            sendLength : Nat, recvIndex : 0 .. BufferSize,
            recvLength : 0 .. BufferSize,
            recvData : [1 .. BufferSize -> TwiByte \cup {Fill}]]
  /\ m.sendIndex <= BufferSize /\ m.sendLength <= BufferSize
  /\ m.sendLength = Len(m.sendData)

PeerTypes ==
  peer \in [addressed : {"no", "fresh", "none", "W", "R"}, rw : {"W", "R"},
            present : BOOLEAN, got : Seq(TwiByte), gave : Seq(TwiByte),
            refused : BOOLEAN, driving : BOOLEAN]

CallTypes ==
  /\ twiCall \in [op : {"none", "send", "receive", "sendNI", "receiveNI",
                        "transferNI"},
                  at : {"idle", "wait", "send", "read", "accept", "store",
                        "sto", "end"},
                  out : Seq(TwiByte), i : Nat, n : 0 .. BufferSize,
                  in : Seq(TwiByte \cup {Fill})]
  /\ Len(twiCall.out) <= BufferSize

FlagTypes ==
  twea \in BOOLEAN /\ twie \in BOOLEAN /\ role \in {"master", "slave"}

TwiTypes == RoutineTypes /\ PeerTypes /\ CallTypes /\ FlagTypes

\* The device has the first k bytes of the message, or refused one.
Arrived(k) ==
  peer.got = SubSeq(twiCall.out, 1, k) \/ peer.refused \/ ~peer.present

\* The TWI is told to do something, or has done it.
Told(c) == command = c /\ status = "none"
Reported(codes) == command = "none" /\ status \in codes

BeforeAddress ==
  Told("start") \/ (Reported({"START"}) /\ peer.addressed = "fresh")

Addressing(rw) == Told("byte") /\ peer.addressed = "fresh" /\ twdr = rw

\* A transfer as master is over.
MasterRests ==
  /\ status = "none" /\ command \in {"none", "stop"}
  /\ twiCall.at \in {"idle", "wait"}
  /\ Arrived(Len(twiCall.out))
  /\ twiCall.n > 0 /\ peer.present =>
       IF twiCall.at = "idle" THEN twiCall.in = peer.gave
       ELSE peer.gave = SubSeq(m.recvData, 1, twiCall.n)

\* The interrupt sends a message.
MasterSends ==
  /\ twie /\ twiCall.at = "wait" /\ twiCall.n = 0
  /\ m.rw = "W" /\ m.sendData = twiCall.out /\ peer.gave = <<>>
  /\ \/ /\ BeforeAddress \/ Addressing("W")
        /\ m.sendIndex = 0 /\ peer.got = <<>>
     \/ /\ Reported({"MT_SLA_ACK", "MT_DATA_ACK"})
        /\ peer.addressed = "W"
        /\ peer.got = SubSeq(twiCall.out, 1, m.sendIndex)
        /\ m.sendIndex <= Len(twiCall.out)
     \/ Reported({"MT_SLA_NACK"}) /\ ~peer.present
     \/ Reported({"MT_DATA_NACK"}) /\ peer.refused
     \/ /\ Told("byte") /\ peer.addressed = "W"
        /\ m.sendIndex \in 1 .. Len(twiCall.out)
        /\ twdr = twiCall.out[m.sendIndex]
        /\ peer.got = SubSeq(twiCall.out, 1, m.sendIndex - 1)

\* It receives, a byte at least.
MasterReceives ==
  /\ twie /\ twiCall.at = "wait"
  /\ m.rw = "R" /\ m.recvLength = twiCall.n
  /\ twiCall.out = <<>> /\ peer.got = <<>>
  /\ \/ /\ BeforeAddress \/ Addressing("R")
        /\ m.recvIndex = 0 /\ peer.gave = <<>>
     \/ /\ Reported({"MR_SLA_ACK"}) /\ peer.addressed = "R"
        /\ m.recvIndex = 0 /\ peer.gave = <<>>
     \/ Reported({"MR_SLA_NACK"}) /\ ~peer.present
     \/ /\ Told("receive") /\ peer.addressed = "R"
        /\ (twea <=> m.recvIndex < twiCall.n - 1)
        /\ m.recvIndex < BufferSize
        /\ m.recvIndex = 0 \/ m.recvIndex < twiCall.n
        /\ peer.gave = SubSeq(m.recvData, 1, m.recvIndex)
     \/ /\ Reported({"MR_DATA_ACK", "MR_DATA_NACK"}) /\ peer.addressed = "R"
        /\ (status = "MR_DATA_ACK" <=> m.recvIndex < twiCall.n - 1)
        /\ m.recvIndex < BufferSize
        /\ m.recvIndex = 0 \/ m.recvIndex < twiCall.n
        /\ twdr \in TwiByte
        /\ peer.gave = Append(SubSeq(m.recvData, 1, m.recvIndex), twdr)

\* The device that has been addressed is there to take what is sent.
Listens == peer.addressed = "none" => peer.refused \/ ~peer.present

NiStarts ==
  /\ twiCall.at = "wait" /\ BeforeAddress
  /\ twiCall.op \in {"sendNI", "receiveNI", "transferNI"}
  /\ twiCall.op = "receiveNI" => twiCall.n > 0 /\ twiCall.out = <<>>
  /\ twiCall.i = 0 /\ twiCall.in = <<>> /\ peer.got = <<>> /\ peer.gave = <<>>

NiSends ==
  /\ twiCall.at = "send" /\ twiCall.i <= Len(twiCall.out)
  /\ twiCall.in = <<>> /\ peer.gave = <<>>
  /\ \/ Addressing("W") /\ twiCall.i = 0 /\ peer.got = <<>>
     \/ /\ Reported({"MT_SLA_ACK", "MT_SLA_NACK", "MT_DATA_ACK",
                     "MT_DATA_NACK"})
        /\ peer.addressed \in {"W", "none"} /\ Listens
        /\ Arrived(twiCall.i)
     \/ /\ Told("byte")
        /\ peer.addressed \in {"W", "none"} /\ Listens
        /\ twiCall.i > 0 /\ twdr = twiCall.out[twiCall.i]
        /\ Arrived(twiCall.i - 1)

NiReads ==
  /\ twiCall.at \in {"read", "accept"} /\ twiCall.n > 0
  /\ twiCall.in = <<>> /\ peer.gave = <<>>
  /\ Arrived(Len(twiCall.out))
  /\ IF twiCall.at = "read" THEN BeforeAddress
     ELSE \/ Addressing("R")
          \/ /\ Reported({"MR_SLA_ACK", "MR_SLA_NACK"})
             /\ peer.present => peer.addressed = "R"

NiStores ==
  /\ twiCall.at = "store" /\ Len(twiCall.in) < twiCall.n
  /\ Arrived(Len(twiCall.out))
  /\ peer.present => peer.addressed = "R"
  /\ twea
  /\ \/ Told("receive") /\ (peer.present => peer.gave = twiCall.in)
     \/ /\ Reported({"MR_DATA_ACK"}) /\ twdr \in TwiByte \cup {Fill}
        /\ peer.present => peer.gave = Append(twiCall.in, twdr)

NiEnds ==
  /\ twiCall.at \in {"sto", "end"}
  /\ status = "none" /\ command \in {"none", "stop"}
  /\ Arrived(Len(twiCall.out))
  /\ twiCall.n > 0 /\ peer.present => twiCall.in = peer.gave

MasterInv ==
  IF m.state = "MASTER_TX" THEN MasterSends
  ELSE IF m.state = "MASTER_RX" THEN MasterReceives
  ELSE /\ m.state = "IDLE"
       /\ IF twie THEN MasterRests
          ELSE NiStarts \/ NiSends \/ NiReads \/ NiStores \/ NiEnds

\* Nobody talks to the robot.
SlaveRests ==
  /\ m.state = "IDLE" /\ status = "none" /\ command \in {"none", "listen"}
  /\ peer.addressed = "no"
  /\ twea
  /\ peer.rw = "W" => twiCall.in = peer.gave
  /\ peer.rw = "R" => peer.got = SubSeq(twiCall.out, 1, Len(peer.got))

\* The robot has been addressed.
SlaveAddressed ==
  /\ m.state = "IDLE" /\ peer.addressed = peer.rw
  /\ peer.gave = <<>> /\ peer.got = <<>>
  /\ Reported({IF peer.rw = "W" THEN "SR_SLA_ACK" ELSE "ST_SLA_ACK"})

SlaveReceives ==
  /\ m.state = "SLAVE_RX" /\ peer.rw = "W"
  /\ \/ /\ Told("listen") /\ peer.addressed = "W"
        /\ (twea <=> m.recvIndex < BufferSize)
        /\ peer.gave = SubSeq(m.recvData, 1, m.recvIndex)
     \/ /\ Reported({"SR_DATA_ACK"}) /\ peer.addressed = "W"
        /\ m.recvIndex < BufferSize /\ twdr \in TwiByte
        /\ peer.gave = Append(SubSeq(m.recvData, 1, m.recvIndex), twdr)
     \/ /\ Reported({"SR_STOP"}) /\ peer.addressed = "no"
        /\ peer.gave = SubSeq(m.recvData, 1, m.recvIndex)
     \/ /\ Reported({"SR_DATA_NACK"}) \/ (Told("listen") /\ ~twea)
        /\ peer.addressed = "no" /\ peer.refused

SlaveTransmits ==
  /\ m.state = "SLAVE_TX" /\ peer.rw = "R"
  /\ m.sendData = twiCall.out /\ m.sendIndex \in 1 .. Len(twiCall.out)
  /\ \/ /\ Told("give") /\ peer.addressed = "R"
        /\ (twea <=> m.sendIndex < Len(twiCall.out))
        /\ twdr = twiCall.out[m.sendIndex]
        /\ peer.got = SubSeq(twiCall.out, 1, m.sendIndex - 1)
     \/ /\ Reported({"ST_DATA_ACK"}) /\ peer.addressed = "R"
        /\ m.sendIndex < Len(twiCall.out)
        /\ peer.got = SubSeq(twiCall.out, 1, m.sendIndex)
     \/ /\ Reported({"ST_DATA_NACK", "ST_LAST_DATA"})
        /\ peer.addressed = "no"
        /\ peer.got = SubSeq(twiCall.out, 1, m.sendIndex)

SlaveInv ==
  /\ twie /\ twiCall.at = "idle"
  /\ SlaveRests \/ SlaveAddressed \/ SlaveReceives \/ SlaveTransmits

TwiInv ==
  /\ TwiTypes
  /\ IF role = "master" THEN MasterInv ELSE SlaveInv

-----------------------------------------------------------------------------

LEMMA TwiConstants == BufferSize \in Nat /\ BufferSize > 0
  BY DriversAssumption DEF DriversAssumption, Twi!I2cAssumption

\* The data of a message, and what is in them.
LEMMA DataAreSequences ==
  ASSUME NEW d \in Twi!Data
  PROVE  /\ d \in Seq(TwiByte) /\ Len(d) \in 0 .. BufferSize
         /\ \A k \in 1 .. Len(d) : d[k] \in TwiByte
<1>1. PICK n \in 0 .. BufferSize : d \in [1 .. n -> TwiByte]
  BY DEF Twi!Data
<1>2. n \in Nat /\ d \in Seq(TwiByte) /\ Len(d) = n
  BY <1>1, TwiConstants
<1> QED
  BY <1>1, <1>2

\* The beginning of a sequence, of a buffer too.
LEMMA Beginning ==
  ASSUME NEW S, NEW s \in Seq(S), NEW k \in 0 .. Len(s)
  PROVE  /\ SubSeq(s, 1, k) \in Seq(S)
         /\ Len(SubSeq(s, 1, k)) = k
         /\ \A j \in 1 .. k : SubSeq(s, 1, k)[j] = s[j]
  OBVIOUS

LEMMA WholeBeginning ==
  ASSUME NEW S, NEW s \in Seq(S)
  PROVE  SubSeq(s, 1, Len(s)) = s
<1> DEFINE b == SubSeq(s, 1, Len(s))
<1>1. b \in Seq(S) /\ Len(b) = Len(s) /\ \A j \in 1 .. Len(s) : b[j] = s[j]
  BY Beginning
<1> QED
  BY <1>1, SeqEqual

LEMMA BeginningGrows ==
  ASSUME NEW S, NEW s \in Seq(S), NEW k \in 1 .. Len(s)
  PROVE  Append(SubSeq(s, 1, k - 1), s[k]) = SubSeq(s, 1, k)
<1> DEFINE b == SubSeq(s, 1, k - 1)
           c == SubSeq(s, 1, k)
<1>1. b \in Seq(S) /\ Len(b) = k - 1 /\ \A j \in 1 .. k - 1 : b[j] = s[j]
  <2>1. k - 1 \in 0 .. Len(s)
    OBVIOUS
  <2> QED
    BY <2>1, Beginning
<1>2. c \in Seq(S) /\ Len(c) = k /\ \A j \in 1 .. k : c[j] = s[j]
  BY Beginning
<1>3. s[k] \in S
  OBVIOUS
<1> HIDE DEF b, c
<1>4. Append(b, s[k]) \in Seq(S) /\ Len(Append(b, s[k])) = k
  BY <1>1, <1>3
<1>5. \A j \in 1 .. k : Append(b, s[k])[j] = c[j]
  BY <1>1, <1>2, <1>3
<1>6. Append(b, s[k]) = c
  BY <1>2, <1>4, <1>5, SeqEqual
<1> QED
  BY <1>6 DEF b, c

\* A byte stored in a buffer comes after those before it.
LEMMA BufferGrows ==
  ASSUME NEW S, NEW n \in Nat, NEW f \in [1 .. n -> S],
         NEW k \in 0 .. n - 1, NEW v \in S
  PROVE  SubSeq([f EXCEPT ![k + 1] = v], 1, k + 1)
           = Append(SubSeq(f, 1, k), v)
<1> DEFINE g == [f EXCEPT ![k + 1] = v]
           b == SubSeq(f, 1, k)
           c == SubSeq(g, 1, k + 1)
<1>1. f \in Seq(S) /\ Len(f) = n /\ g \in Seq(S) /\ Len(g) = n
  OBVIOUS
<1>2. g[k + 1] = v /\ \A j \in 1 .. k : g[j] = f[j]
  OBVIOUS
<1>3. b \in Seq(S) /\ Len(b) = k /\ \A j \in 1 .. k : b[j] = f[j]
  BY <1>1, Beginning
<1>4. c \in Seq(S) /\ Len(c) = k + 1 /\ \A j \in 1 .. k + 1 : c[j] = g[j]
  <2>1. k + 1 \in 0 .. Len(g)
    BY <1>1
  <2> QED
    BY <1>1, <2>1, Beginning
<1> HIDE DEF b, c, g
<1>5. Append(b, v) \in Seq(S) /\ Len(Append(b, v)) = k + 1
  BY <1>3
<1>6. \A j \in 1 .. k + 1 : Append(b, v)[j] = c[j]
  BY <1>2, <1>3, <1>4
<1>7. c = Append(b, v)
  BY <1>4, <1>5, <1>6, SeqEqual
<1> QED
  BY <1>7 DEF b, c, g

\* A byte stored behind those received so far.
LEMMA StoredGrows ==
  ASSUME RoutineTypes, m.recvIndex \in 0 .. BufferSize - 1,
         twdr \in TwiByte \cup {Fill}
  PROVE  SubSeq([m.recvData EXCEPT ![m.recvIndex + 1] = twdr], 1,
                m.recvIndex + 1)
           = Append(SubSeq(m.recvData, 1, m.recvIndex), twdr)
<1> DEFINE f == m.recvData
           k == m.recvIndex
           S == TwiByte \cup {Fill}
<1>1. BufferSize \in Nat
  BY TwiConstants
<1>2. f \in [1 .. BufferSize -> S]
  BY DEF RoutineTypes
<1>3. k \in 0 .. BufferSize - 1 /\ twdr \in S
  OBVIOUS
<1>4. SubSeq([f EXCEPT ![k + 1] = twdr], 1, k + 1)
        = Append(SubSeq(f, 1, k), twdr)
  <2> HIDE DEF f, k, S
  <2> QED BY <1>1, <1>2, <1>3, BufferGrows
<1> QED BY <1>4

LEMMA EmptyBeginning ==
  ASSUME NEW s
  PROVE  SubSeq(s, 1, 0) = <<>>
  OBVIOUS

LEMMA TwiInit ==
  Init /\ part = "i2c" => TwiInv
<1> SUFFICES ASSUME Init, part = "i2c" PROVE TwiInv
  OBVIOUS
<1>1. Twi!I2cInit
  BY DEF Init
<1>2. TwiTypes
  BY <1>1, TwiConstants DEF Twi!I2cInit, Twi!NoPeer, Twi!NoCall, TwiTypes,
                         RoutineTypes, PeerTypes, CallTypes, FlagTypes
<1>3. ASSUME role = "master" PROVE MasterInv
  BY <1>1, EmptyBeginning DEF Twi!I2cInit, Twi!NoPeer, Twi!NoCall, MasterInv,
                              MasterRests, Arrived
<1>4. ASSUME role # "master" PROVE SlaveInv
  BY <1>1, EmptyBeginning DEF Twi!I2cInit, Twi!NoPeer, Twi!NoCall, SlaveInv,
                              SlaveRests
<1> QED
  BY <1>2, <1>3, <1>4 DEF TwiInv

-----------------------------------------------------------------------------
(* The interrupt *)

\* A step of the interrupt: it changes no more than the routine and the TWI.
LEMMA RoutineKeepsTypes ==
  ASSUME TwiInv, UNCHANGED <<peer, twiCall, role, twie>>, twea' \in BOOLEAN,
         RoutineTypes'
  PROVE  TwiTypes'
<1>1. PeerTypes'
  BY DEF TwiInv, TwiTypes, PeerTypes
<1>2. CallTypes'
  BY DEF TwiInv, TwiTypes, CallTypes
<1>3. FlagTypes'
  BY DEF TwiInv, TwiTypes, FlagTypes
<1> QED
  BY <1>1, <1>2, <1>3 DEF TwiTypes

LEMMA StartKeeps ==
  ASSUME TwiInv, Twi!IsrStart
  PROVE  TwiInv'
<1> USE DEF Twi!IsrStart, Twi!Interrupt, Twi!i2cSendByte, Twi!Commands
<1>1. TwiTypes'
  <2>1. RoutineTypes'
    BY DEF TwiInv, TwiTypes, RoutineTypes
  <2>2. PeerTypes'
    BY DEF TwiInv, TwiTypes, PeerTypes
  <2>3. CallTypes'
    BY DEF TwiInv, TwiTypes, CallTypes
  <2>4. FlagTypes'
    BY Zenon DEF TwiInv, TwiTypes, FlagTypes
  <2> QED
    BY <2>1, <2>2, <2>3, <2>4 DEF TwiTypes
<1>2. role = "master" /\ (m.state = "MASTER_TX" \/ m.state = "MASTER_RX")
  BY DEF TwiInv, MasterInv, MasterRests, SlaveInv, SlaveRests, SlaveAddressed,
         SlaveReceives, SlaveTransmits, Told, Reported
<1>3. CASE m.state = "MASTER_TX"
  <2>1. MasterSends
    BY <1>2, <1>3 DEF TwiInv, MasterInv
  <2>2. MasterSends'
    BY <2>1 DEF MasterSends, BeforeAddress, Addressing, Told, Reported
  <2> QED
    BY <1>1, <1>2, <1>3, <2>2 DEF TwiInv, MasterInv
<1>4. CASE m.state = "MASTER_RX"
  <2>1. MasterReceives
    BY <1>2, <1>4 DEF TwiInv, MasterInv
  <2>2. MasterReceives'
    BY <2>1 DEF MasterReceives, BeforeAddress, Addressing, Told, Reported
  <2> QED
    BY <1>1, <1>2, <1>4, <2>2 DEF TwiInv, MasterInv
<1> QED
  BY <1>2, <1>3, <1>4

\* Who is interrupted, and where.
LEMMA SendsIfSent ==
  ASSUME TwiInv, status \in {"MT_SLA_ACK", "MT_DATA_ACK", "MT_SLA_NACK",
                             "MT_DATA_NACK"}, twie
  PROVE  role = "master" /\ m.state = "MASTER_TX" /\ MasterSends
<1>1. role = "master"
  BY DEF TwiInv, SlaveInv, SlaveRests, SlaveAddressed, SlaveReceives,
         SlaveTransmits, Told, Reported
<1>2. m.state # "IDLE"
  BY <1>1 DEF TwiInv, MasterInv, MasterRests
<1>3. m.state # "MASTER_RX"
  BY <1>1 DEF TwiInv, MasterInv, MasterReceives, BeforeAddress, Addressing,
              Told, Reported
<1> QED
  BY <1>1, <1>2, <1>3 DEF TwiInv, MasterInv

LEMMA ReceivesIfReceived ==
  ASSUME TwiInv, status \in {"MR_SLA_ACK", "MR_DATA_ACK", "MR_SLA_NACK",
                             "MR_DATA_NACK"}, twie
  PROVE  role = "master" /\ m.state = "MASTER_RX" /\ MasterReceives
<1>1. role = "master"
  BY DEF TwiInv, SlaveInv, SlaveRests, SlaveAddressed, SlaveReceives,
         SlaveTransmits, Told, Reported
<1>2. m.state # "IDLE"
  BY <1>1 DEF TwiInv, MasterInv, MasterRests
<1>3. m.state # "MASTER_TX"
  BY <1>1 DEF TwiInv, MasterInv, MasterSends, BeforeAddress, Addressing,
              Told, Reported
<1> QED
  BY <1>1, <1>2, <1>3 DEF TwiInv, MasterInv

LEMMA SentKeeps ==
  ASSUME TwiInv, Twi!IsrSent
  PROVE  TwiInv'
<1> USE DEF Twi!IsrSent, Twi!Interrupt, Twi!Commands, Twi!MoreToSend,
            Twi!i2cSendByte, Twi!i2cSendStop
<1>1. role = "master" /\ m.state = "MASTER_TX" /\ MasterSends
  BY SendsIfSent
<1>2. /\ peer.addressed = "W" /\ m.sendIndex \in 0 .. Len(m.sendData)
      /\ peer.got = SubSeq(twiCall.out, 1, m.sendIndex)
      /\ m.sendData = twiCall.out /\ m.sendLength = Len(twiCall.out)
      /\ twiCall.n = 0 /\ twiCall.at = "wait" /\ m.rw = "W"
      /\ peer.gave = <<>>
  BY <1>1 DEF MasterSends, Told, Reported, BeforeAddress, Addressing, TwiInv,
              TwiTypes, RoutineTypes
<1>3. CASE m.sendIndex < m.sendLength
  <2>1. RoutineTypes' /\ m'.state = "MASTER_TX"
    <3>1. RoutineTypes /\ BufferSize \in Nat
      BY TwiConstants DEF TwiInv, TwiTypes
    <3>2. m' = [m EXCEPT !.sendIndex = @ + 1]
      BY <1>3
    <3>3. m.sendIndex + 1 \in Nat /\ m.sendIndex + 1 <= BufferSize
      BY <1>3, <3>1 DEF RoutineTypes
    <3> QED
      BY <1>1, <3>1, <3>2, <3>3, Zenon DEF RoutineTypes
  <2>2. TwiTypes'
    BY <1>3, <2>1, RoutineKeepsTypes, Zenon
  <2>3. MasterSends'
    BY <1>2, <1>3, <2>1, SMTT(40) DEF MasterSends, Told, Reported, TwiInv, TwiTypes,
                            RoutineTypes, CallTypes
  <2> QED
    BY <1>1, <2>1, <2>2, <2>3 DEF TwiInv, MasterInv
<1>4. CASE ~(m.sendIndex < m.sendLength)
  <2>1. RoutineTypes' /\ m'.state = "IDLE"
    BY <1>2, <1>4 DEF TwiInv, TwiTypes, RoutineTypes
  <2>2. TwiTypes'
    BY <1>4, <2>1, RoutineKeepsTypes
  <2>3. MasterRests'
    BY <1>2, <1>4, <2>1 DEF MasterRests, Arrived, TwiInv, TwiTypes,
                            RoutineTypes, CallTypes
  <2> QED
    BY <1>1, <2>1, <2>2, <2>3, Zenon DEF TwiInv, MasterInv
<1> QED
  BY <1>3, <1>4

LEMMA NackKeeps ==
  ASSUME TwiInv, Twi!IsrNack
  PROVE  TwiInv'
<1> USE DEF Twi!IsrNack, Twi!Interrupt, Twi!Commands, Twi!Refused, Twi!Stored,
            Twi!i2cSendStop
<1>1. CASE status \in {"MT_SLA_NACK", "MT_DATA_NACK"}
  <2>1. role = "master" /\ MasterSends
    BY <1>1, SendsIfSent
  <2>2. RoutineTypes' /\ m'.state = "IDLE"
    BY <1>1 DEF TwiInv, TwiTypes, RoutineTypes
  <2>3. TwiTypes'
    BY <2>2, RoutineKeepsTypes
  <2>4. MasterRests'
    BY <1>1, <2>1 DEF MasterRests, MasterSends, Arrived, Told, Reported,
                      BeforeAddress, Addressing
  <2> QED
    BY <2>1, <2>2, <2>3, <2>4 DEF TwiInv, MasterInv, TwiTypes, FlagTypes
<1>2. CASE status = "MR_SLA_NACK"
  <2>1. role = "master" /\ MasterReceives
    BY <1>2, ReceivesIfReceived
  <2>2. RoutineTypes' /\ m'.state = "IDLE"
    BY <1>2 DEF TwiInv, TwiTypes, RoutineTypes
  <2>3. TwiTypes'
    BY <2>2, RoutineKeepsTypes
  <2>4. MasterRests'
    BY <1>2, <2>1 DEF MasterRests, MasterReceives, Arrived, Told, Reported,
                      BeforeAddress, Addressing
  <2> QED
    BY <2>1, <2>2, <2>3, <2>4 DEF TwiInv, MasterInv, TwiTypes, FlagTypes
<1>3. CASE status = "MR_DATA_NACK"
  <2>1. role = "master" /\ MasterReceives
    BY <1>3, ReceivesIfReceived
  <2>2. /\ m.recvIndex \in 0 .. BufferSize - 1 /\ twdr \in TwiByte
        /\ ~(m.recvIndex < twiCall.n - 1)
        /\ m.recvIndex = 0 \/ m.recvIndex < twiCall.n
        /\ peer.gave = Append(SubSeq(m.recvData, 1, m.recvIndex), twdr)
        /\ twiCall.out = <<>> /\ peer.got = <<>> /\ twiCall.at = "wait"
    BY <1>3, <2>1, TwiConstants
       DEF MasterReceives, Told, Reported, BeforeAddress, Addressing, TwiInv,
           TwiTypes, RoutineTypes
  <2>3. /\ RoutineTypes' /\ m'.state = "IDLE"
        /\ m'.recvData = [m.recvData EXCEPT ![m.recvIndex + 1] = twdr]
    <3>1. RoutineTypes /\ BufferSize \in Nat
      BY TwiConstants DEF TwiInv, TwiTypes
    <3>2. m' = [m EXCEPT !.recvData[m.recvIndex + 1] = twdr,
                         !.recvIndex = @ + 1, !.state = "IDLE"]
      BY <1>3, <3>1 DEF RoutineTypes
    <3>3. /\ [m.recvData EXCEPT ![m.recvIndex + 1] = twdr]
               \in [1 .. BufferSize -> TwiByte \cup {Fill}]
          /\ m.recvIndex + 1 \in 0 .. BufferSize
      BY <2>2, <3>1 DEF RoutineTypes
    <3> QED
      BY <3>1, <3>2, <3>3, Zenon DEF RoutineTypes
  <2>4. TwiTypes'
    BY <2>3, RoutineKeepsTypes
  <2>5. SubSeq(m'.recvData, 1, m.recvIndex + 1) = peer.gave
    <3>1. RoutineTypes
      BY DEF TwiInv, TwiTypes
    <3>2. SubSeq([m.recvData EXCEPT ![m.recvIndex + 1] = twdr], 1,
                 m.recvIndex + 1)
            = Append(SubSeq(m.recvData, 1, m.recvIndex), twdr)
      BY <2>2, <3>1, StoredGrows, Zenon
    <3> QED
      BY <2>2, <2>3, <3>2, Zenon
  <2>6. MasterRests'
    <3>1. twiCall.n > 0 => twiCall.n = m.recvIndex + 1
      BY <2>2 DEF TwiInv, TwiTypes, CallTypes
    <3> QED
      BY <1>3, <2>2, <2>3, <2>5, <3>1, EmptyBeginning, Zenon DEF MasterRests, Arrived
  <2> QED
    BY <2>1, <2>3, <2>4, <2>6 DEF TwiInv, MasterInv, TwiTypes, FlagTypes
<1> QED
  BY <1>1, <1>2, <1>3

LEMMA ReceivedKeeps ==
  ASSUME TwiInv, Twi!IsrReceived
  PROVE  TwiInv'
<1> USE DEF Twi!IsrReceived, Twi!Interrupt, Twi!Commands, Twi!Stored,
            Twi!i2cReceiveByte, Twi!MoreToCome
<1>1. role = "master" /\ m.state = "MASTER_RX" /\ MasterReceives
  BY ReceivesIfReceived
<1>2. m.recvData \in [1 .. BufferSize -> TwiByte \cup {Fill}]
  BY DEF TwiInv, TwiTypes, RoutineTypes
<1>3. CASE status = "MR_SLA_ACK"
  <2>1. /\ peer.addressed = "R" /\ m.recvIndex = 0 /\ peer.gave = <<>>
        /\ m' = m
    BY <1>1, <1>3 DEF MasterReceives, Told, Reported, BeforeAddress, Addressing
  <2>2. TwiTypes'
    BY <1>3, <2>1, RoutineKeepsTypes DEF TwiInv, TwiTypes, RoutineTypes
  <2>3. MasterReceives'
    BY <1>1, <1>3, <2>1, TwiConstants, EmptyBeginning, Zenon
       DEF MasterReceives, Told, Reported
  <2> QED
    BY <1>1, <2>1, <2>2, <2>3 DEF TwiInv, MasterInv
<1>4. CASE status = "MR_DATA_ACK"
  <2>1. /\ m.recvIndex \in 0 .. BufferSize - 1 /\ twdr \in TwiByte
        /\ m.recvIndex < twiCall.n - 1 /\ peer.addressed = "R"
        /\ peer.gave = Append(SubSeq(m.recvData, 1, m.recvIndex), twdr)
    BY <1>1, <1>4, TwiConstants
       DEF MasterReceives, Told, Reported, BeforeAddress, Addressing, TwiInv,
           TwiTypes, RoutineTypes
  <2>2. /\ RoutineTypes' /\ m'.state = "MASTER_RX"
        /\ m'.recvData = [m.recvData EXCEPT ![m.recvIndex + 1] = twdr]
        /\ m'.recvIndex = m.recvIndex + 1
        /\ m'.rw = m.rw /\ m'.recvLength = m.recvLength
    <3>1. RoutineTypes /\ BufferSize \in Nat
      BY TwiConstants DEF TwiInv, TwiTypes
    <3>2. m' = [m EXCEPT !.recvData[m.recvIndex + 1] = twdr,
                         !.recvIndex = @ + 1]
      BY <1>4
    <3>3. /\ [m.recvData EXCEPT ![m.recvIndex + 1] = twdr]
               \in [1 .. BufferSize -> TwiByte \cup {Fill}]
          /\ m.recvIndex + 1 \in 0 .. BufferSize
      BY <2>1, <3>1 DEF RoutineTypes
    <3> QED
      BY <1>1, <3>1, <3>2, <3>3, Zenon DEF RoutineTypes
  <2>3. TwiTypes'
    BY <1>4, <2>2, RoutineKeepsTypes
  <2>4. SubSeq(m'.recvData, 1, m.recvIndex + 1) = peer.gave
    <3>1. RoutineTypes
      BY DEF TwiInv, TwiTypes
    <3>2. SubSeq([m.recvData EXCEPT ![m.recvIndex + 1] = twdr], 1,
                 m.recvIndex + 1)
            = Append(SubSeq(m.recvData, 1, m.recvIndex), twdr)
      BY <2>1, <3>1, StoredGrows, Zenon
    <3> QED
      BY <2>1, <2>2, <3>2
  <2>5. MasterReceives'
    <3>1. twiCall.n \in 0 .. BufferSize /\ m.recvLength = twiCall.n
      BY <1>1 DEF TwiInv, TwiTypes, CallTypes, MasterReceives
    <3>2. Told("receive")'
      BY <1>4 DEF Told
    <3>3. m'.recvIndex < BufferSize /\ m'.recvIndex < twiCall'.n
      BY <1>4, <2>1, <2>2, <3>1, TwiConstants
    <3>4. twea' = (m'.recvIndex < m'.recvLength - 1)
      BY <1>4, <2>2
    <3>5. (twea' <=> m'.recvIndex < twiCall'.n - 1)
      BY <1>4, <2>2, <3>1, <3>4, Zenon
    <3> QED
      BY <1>1, <2>1, <2>2, <2>4, <3>2, <3>3, <3>5, Zenon DEF MasterReceives
  <2> QED
    BY <1>1, <2>2, <2>3, <2>5 DEF TwiInv, MasterInv
<1> QED
  BY <1>3, <1>4

LEMMA SlaveIfAddressed ==
  ASSUME TwiInv, status \in {"SR_SLA_ACK", "SR_DATA_ACK", "SR_DATA_NACK",
                             "SR_STOP", "ST_SLA_ACK", "ST_DATA_ACK",
                             "ST_DATA_NACK", "ST_LAST_DATA"}
  PROVE  /\ role = "slave" /\ SlaveInv
         /\ status \in {"SR_SLA_ACK", "ST_SLA_ACK"} => SlaveAddressed
         /\ status \in {"SR_DATA_ACK", "SR_DATA_NACK", "SR_STOP"}
              => SlaveReceives
         /\ status \in {"ST_DATA_ACK", "ST_DATA_NACK", "ST_LAST_DATA"}
              => SlaveTransmits
<1>1. role # "master"
  BY DEF TwiInv, MasterInv, MasterRests, MasterSends, MasterReceives,
         NiStarts, NiSends, NiReads, NiStores, NiEnds, BeforeAddress,
         Addressing, Told, Reported
<1>2. role = "slave" /\ SlaveInv
  BY <1>1 DEF TwiInv, TwiTypes, FlagTypes
<1> QED
  BY <1>2, Zenon DEF SlaveInv, SlaveRests, SlaveAddressed, SlaveReceives,
              SlaveTransmits, Told, Reported

LEMMA AddressedToReceiveKeeps ==
  ASSUME TwiInv, Twi!IsrAddressedToReceive
  PROVE  TwiInv'
<1> USE DEF Twi!IsrAddressedToReceive, Twi!Interrupt, Twi!Commands,
            Twi!Listen, Twi!FirstIndex
<1>1. role = "slave" /\ SlaveInv /\ SlaveAddressed
  BY SlaveIfAddressed
<1>2. RoutineTypes' /\ m'.state = "SLAVE_RX" /\ m'.recvIndex = 0
  <2>1. RoutineTypes /\ 0 \in 0 .. BufferSize
    BY TwiConstants DEF TwiInv, TwiTypes
  <2>2. m' = [m EXCEPT !.state = "SLAVE_RX", !.recvIndex = 0]
    OBVIOUS
  <2> QED
    BY <2>1, <2>2, Zenon DEF RoutineTypes
<1>3. TwiTypes'
  BY <1>2, RoutineKeepsTypes
<1>4. SlaveReceives'
  BY <1>1, <1>2, TwiConstants, EmptyBeginning
     DEF SlaveAddressed, SlaveReceives, Told, Reported
<1> QED
  BY <1>1, <1>3, <1>4 DEF TwiInv, SlaveInv

LEMMA SlaveReceivedKeeps ==
  ASSUME TwiInv, Twi!IsrSlaveReceived
  PROVE  TwiInv'
<1> USE DEF Twi!IsrSlaveReceived, Twi!Interrupt, Twi!Commands, Twi!Listen,
            Twi!Stored, Twi!HasRoom
<1>1. role = "slave" /\ SlaveInv /\ SlaveReceives
  BY SlaveIfAddressed
<1>2. CASE status = "SR_DATA_ACK"
  <2>1. /\ m.recvIndex \in 0 .. BufferSize - 1 /\ twdr \in TwiByte
        /\ peer.addressed = "W" /\ peer.rw = "W" /\ m.state = "SLAVE_RX"
        /\ peer.gave = Append(SubSeq(m.recvData, 1, m.recvIndex), twdr)
    BY <1>1, <1>2, TwiConstants
       DEF SlaveReceives, Told, Reported, TwiInv, TwiTypes, RoutineTypes
  <2>2. RoutineTypes /\ BufferSize \in Nat
    BY TwiConstants DEF TwiInv, TwiTypes
  <2>3. /\ m' = [m EXCEPT !.recvData[m.recvIndex + 1] = twdr,
                          !.recvIndex = @ + 1]
        /\ (twea' <=> m.recvIndex + 1 < BufferSize)
        /\ command' = "listen" /\ status' = "none"
    BY <1>2, Zenon
  <2>4. /\ [m.recvData EXCEPT ![m.recvIndex + 1] = twdr]
             \in [1 .. BufferSize -> TwiByte \cup {Fill}]
        /\ m.recvIndex + 1 \in 0 .. BufferSize
    BY <2>1, <2>2 DEF RoutineTypes
  <2>5. /\ RoutineTypes' /\ m'.state = "SLAVE_RX"
        /\ m'.recvData = [m.recvData EXCEPT ![m.recvIndex + 1] = twdr]
        /\ m'.recvIndex = m.recvIndex + 1
    BY <2>1, <2>2, <2>3, <2>4, Zenon DEF RoutineTypes
  <2>6. TwiTypes'
    BY <1>2, <2>5, RoutineKeepsTypes
  <2>7. SubSeq(m'.recvData, 1, m.recvIndex + 1) = peer.gave
    <3>1. SubSeq([m.recvData EXCEPT ![m.recvIndex + 1] = twdr], 1,
                 m.recvIndex + 1)
            = Append(SubSeq(m.recvData, 1, m.recvIndex), twdr)
      BY <2>1, <2>2, StoredGrows, Zenon
    <3> QED
      BY <2>1, <2>5, <3>1, Zenon
  <2>8. SlaveReceives'
    BY <1>2, <2>1, <2>3, <2>5, <2>7, Zenon DEF SlaveReceives, Told
  <2> QED
    BY <1>1, <1>2, <2>6, <2>8 DEF TwiInv, SlaveInv
<1>3. CASE status = "SR_DATA_NACK"
  <2>1. TwiTypes'
    BY <1>3, RoutineKeepsTypes, Zenon DEF TwiInv, TwiTypes, RoutineTypes
  <2>2. SlaveReceives'
    BY <1>1, <1>3 DEF SlaveReceives, Told, Reported
  <2> QED
    BY <1>1, <1>3, <2>1, <2>2 DEF TwiInv, SlaveInv
<1> QED
  BY <1>2, <1>3

LEMMA SlaveStoppedKeeps ==
  ASSUME TwiInv, Twi!IsrSlaveStopped
  PROVE  TwiInv'
<1> USE DEF Twi!IsrSlaveStopped, Twi!Commands, Twi!Listen, Twi!SlaveOpen
<1>1. role = "slave" /\ SlaveInv /\ SlaveReceives
  BY SlaveIfAddressed
<1>2. /\ peer.addressed = "no" /\ peer.rw = "W"
      /\ peer.gave = SubSeq(m.recvData, 1, m.recvIndex)
  BY <1>1 DEF SlaveReceives, Told, Reported
<1>3. RoutineTypes' /\ m'.state = "IDLE"
  BY DEF TwiInv, TwiTypes, RoutineTypes
<1>4. PeerTypes' /\ FlagTypes'
  BY DEF TwiInv, TwiTypes, PeerTypes, FlagTypes
<1>5. CallTypes' /\ twiCall'.at = twiCall.at /\ twiCall'.in = peer.gave
  <2>1. peer.gave \in Seq(TwiByte \cup {Fill})
    BY DEF TwiInv, TwiTypes, PeerTypes
  <2> QED
    BY <1>2, <2>1, Zenon DEF TwiInv, TwiTypes, CallTypes
<1>6. TwiTypes'
  BY <1>3, <1>4, <1>5 DEF TwiTypes
<1>7. SlaveRests'
  BY <1>2, <1>3, <1>5, Zenon DEF SlaveRests
<1> QED
  BY <1>1, <1>5, <1>6, <1>7 DEF TwiInv, SlaveInv

LEMMA AddressedToTransmitKeeps ==
  ASSUME TwiInv, Twi!IsrAddressedToTransmit
  PROVE  TwiInv'
<1>1. role = "slave" /\ SlaveInv /\ SlaveAddressed
  BY SlaveIfAddressed DEF Twi!IsrAddressedToTransmit
<1>2. PICK d \in Twi!Data \ {<<>>} :
        /\ Twi!Transmits([m EXCEPT !.state = "SLAVE_TX", !.sendIndex = 0,
                                   !.sendData = d, !.sendLength = Len(d)])
        /\ twiCall' = [twiCall EXCEPT !.out = d]
  BY Zenon DEF Twi!IsrAddressedToTransmit
<1>3. /\ d \in Seq(TwiByte) /\ Len(d) \in 1 .. BufferSize
      /\ d[1] \in TwiByte
  <2>1. d \in Seq(TwiByte) /\ Len(d) \in 0 .. BufferSize
    BY DataAreSequences
  <2> QED
    BY <2>1, TwiConstants
<1>4. /\ m' = [m EXCEPT !.state = "SLAVE_TX", !.sendIndex = 1,
                        !.sendData = d, !.sendLength = Len(d)]
      /\ twdr' = d[1] /\ (twea' <=> 1 < Len(d)) /\ twea' \in BOOLEAN
      /\ command' = "give" /\ status' = "none" /\ UNCHANGED twie
  <2> DEFINE now == [m EXCEPT !.state = "SLAVE_TX", !.sendIndex = 0,
                              !.sendData = d, !.sendLength = Len(d)]
  <2>1. /\ now.sendIndex = 0 /\ now.sendData = d /\ now.sendLength = Len(d)
        /\ [now EXCEPT !.sendIndex = 1]
             = [m EXCEPT !.state = "SLAVE_TX", !.sendIndex = 1,
                         !.sendData = d, !.sendLength = Len(d)]
    BY Zenon DEF TwiInv, TwiTypes, RoutineTypes
  <2>2. Twi!Transmits(now)
    BY <1>2
  <2> HIDE DEF now
  <2>3. /\ m' = [now EXCEPT !.sendIndex = now.sendIndex + 1]
        /\ twdr' = now.sendData[now.sendIndex + 1]
        /\ twea' = (now.sendIndex + 1 < now.sendLength)
        /\ command' = "give" /\ status' = "none" /\ UNCHANGED twie
    BY <2>2 DEF Twi!Transmits
  <2>4. now.sendIndex + 1 = 1
    BY <2>1
  <2>5. twea' = (1 < Len(d))
    BY <2>1, <2>3, <2>4
  <2>6. twea' \in BOOLEAN
    BY <2>5
  <2>7. twea' <=> 1 < Len(d)
    BY <2>5, <2>6, Zenon
  <2> QED
    BY <2>1, <2>3, <2>4, <2>6, <2>7
<1>5. RoutineTypes' /\ m'.state = "SLAVE_TX" /\ m'.sendIndex = 1
      /\ m'.sendData = d
  <2>1. RoutineTypes /\ BufferSize \in Nat
    BY TwiConstants DEF TwiInv, TwiTypes
  <2> QED
    <3>1. /\ m'.sendIndex = 1 /\ m'.sendData = d /\ m'.sendLength = Len(d)
          /\ m'.state = "SLAVE_TX"
      BY <1>4, <2>1 DEF RoutineTypes
    <3>2. Len(d) \in Nat /\ Len(d) <= BufferSize /\ 1 <= BufferSize
      BY <1>3, <2>1
    <3>3. m' \in [state : {"IDLE", "MASTER_TX", "MASTER_RX", "SLAVE_TX",
                          "SLAVE_RX"},
                 rw : {"W", "R"}, sendData : Seq(TwiByte), sendIndex : Nat,
                 sendLength : Nat, recvIndex : 0 .. BufferSize,
                 recvLength : 0 .. BufferSize,
                 recvData : [1 .. BufferSize -> TwiByte \cup {Fill}]]
      BY <1>3, <1>4, <2>1, <3>2, Zenon DEF RoutineTypes
    <3> QED
      BY <3>1, <3>2, <3>3 DEF RoutineTypes
<1>6. CallTypes' /\ twiCall'.at = twiCall.at /\ twiCall'.out = d
  BY <1>2, <1>3, TwiConstants, SMTT(40) DEF TwiInv, TwiTypes, CallTypes
<1>7. UNCHANGED <<peer, role>>
  BY DEF Twi!IsrAddressedToTransmit
<1>8. TwiTypes'
  <2>1. PeerTypes'
    BY <1>7 DEF TwiInv, TwiTypes, PeerTypes
  <2>2. FlagTypes'
    BY <1>4, <1>7 DEF TwiInv, TwiTypes, FlagTypes
  <2> QED
    BY <1>5, <1>6, <2>1, <2>2 DEF TwiTypes
<1>9. SlaveTransmits'
  <2>1. peer.rw = "R" /\ peer.addressed = "R" /\ peer.got = <<>>
    BY <1>1, <1>2 DEF SlaveAddressed, Reported, TwiInv, TwiTypes, PeerTypes,
                      Twi!IsrAddressedToTransmit
  <2> QED
    BY <1>3, <1>4, <1>5, <1>6, <1>7, <2>1, EmptyBeginning
       DEF SlaveTransmits, Told
<1> QED
  BY <1>1, <1>4, <1>6, <1>7, <1>8, <1>9 DEF TwiInv, SlaveInv

LEMMA TransmittedKeeps ==
  ASSUME TwiInv, Twi!IsrTransmitted
  PROVE  TwiInv'
<1> USE DEF Twi!IsrTransmitted, Twi!Interrupt, Twi!Transmits, Twi!Commands,
            Twi!Listen, Twi!SlaveOpen
<1>1. role = "slave" /\ SlaveInv /\ SlaveTransmits
  BY SlaveIfAddressed
<1>2. CASE status = "ST_DATA_ACK"
  <2>1. /\ peer.addressed = "R" /\ peer.rw = "R" /\ m.state = "SLAVE_TX"
        /\ m.sendIndex \in 1 .. Len(twiCall.out) - 1
        /\ m.sendData = twiCall.out /\ m.sendLength = Len(twiCall.out)
        /\ peer.got = SubSeq(twiCall.out, 1, m.sendIndex)
    BY <1>1, <1>2 DEF SlaveTransmits, Told, Reported, TwiInv, TwiTypes,
                      RoutineTypes, CallTypes
  <2>2. /\ m' = [m EXCEPT !.sendIndex = @ + 1]
        /\ twdr' = m.sendData[m.sendIndex + 1]
        /\ (twea' <=> m.sendIndex + 1 < m.sendLength) /\ twea' \in BOOLEAN
        /\ command' = "give" /\ status' = "none"
    <3>1. twea' = (m.sendIndex + 1 < m.sendLength)
      BY <1>2
    <3>2. twea' \in BOOLEAN
      BY <3>1
    <3> QED
      BY <1>2, <3>1, <3>2, Zenon
  <2>3. RoutineTypes' /\ m'.state = "SLAVE_TX"
        /\ m'.sendIndex = m.sendIndex + 1 /\ m'.sendData = m.sendData
    <3>1. RoutineTypes /\ BufferSize \in Nat
      BY TwiConstants DEF TwiInv, TwiTypes
    <3>2. m.sendIndex + 1 \in Nat /\ m.sendIndex + 1 <= BufferSize
      BY <2>1, <3>1 DEF RoutineTypes
    <3> QED
      BY <2>1, <2>2, <3>1, <3>2, Zenon DEF RoutineTypes
  <2>4. TwiTypes'
    BY <1>2, <2>2, <2>3, RoutineKeepsTypes
  <2>5. SlaveTransmits'
    BY <1>2, <2>1, <2>2, <2>3 DEF SlaveTransmits, Told
  <2> QED
    BY <1>1, <1>2, <2>4, <2>5 DEF TwiInv, SlaveInv
<1>3. CASE status \in {"ST_DATA_NACK", "ST_LAST_DATA"}
  <2>1. /\ peer.addressed = "no" /\ peer.rw = "R"
        /\ m.sendIndex \in 1 .. Len(twiCall.out)
        /\ peer.got = SubSeq(twiCall.out, 1, m.sendIndex)
    BY <1>1, <1>3 DEF SlaveTransmits, Told, Reported
  <2>2. RoutineTypes' /\ m'.state = "IDLE"
    BY <1>3 DEF TwiInv, TwiTypes, RoutineTypes
  <2>3. TwiTypes'
    BY <1>3, <2>2, RoutineKeepsTypes, Zenon
  <2>4. Len(peer.got) = m.sendIndex
    BY <2>1, Beginning DEF TwiInv, TwiTypes, CallTypes
  <2>5. SlaveRests'
    BY <1>3, <2>1, <2>2, <2>4 DEF SlaveRests
  <2> QED
    BY <1>1, <1>3, <2>3, <2>5, Zenon DEF TwiInv, SlaveInv
<1> QED
  BY <1>2, <1>3

LEMMA IsrKeeps ==
  ASSUME TwiInv, Twi!Isr
  PROVE  TwiInv'
  BY StartKeeps, SentKeeps, NackKeeps, ReceivedKeeps, AddressedToReceiveKeeps,
     SlaveReceivedKeeps, SlaveStoppedKeeps, AddressedToTransmitKeeps,
     TransmittedKeeps DEF Twi!Isr

-----------------------------------------------------------------------------
(* The calls of the thread *)

\* A call begins where the last one is over.
LEMMA BeginsKeepsTypes ==
  ASSUME TwiInv, NEW op \in {"send", "receive", "sendNI", "receiveNI",
                             "transferNI"},
         NEW d \in Seq(TwiByte), Len(d) <= BufferSize,
         NEW n \in 0 .. BufferSize, Twi!Begins(op, d, n)
  PROVE  /\ PeerTypes' /\ CallTypes'
         /\ role' = "master" /\ twie /\ m.state = "IDLE"
         /\ peer'.got = <<>> /\ peer'.gave = <<>>
         /\ twiCall'.op = op /\ twiCall'.at = "wait" /\ twiCall'.out = d
         /\ twiCall'.i = 0 /\ twiCall'.n = n /\ twiCall'.in = <<>>
<1>1. role = "master" /\ role' = "master" /\ m.state = "IDLE"
      /\ twiCall.at = "idle"
  BY DEF Twi!Begins
<1>2. twie
  BY <1>1 DEF TwiInv, MasterInv, NiStarts, NiSends, NiReads, NiStores, NiEnds
<1>3. PICK here \in BOOLEAN :
        peer' = [Twi!NoPeer EXCEPT !.present = here,
                                   !.addressed = peer.addressed]
  BY Zenon DEF Twi!Begins
<1>4. PeerTypes' /\ peer'.got = <<>> /\ peer'.gave = <<>>
  <2>1. peer' = [addressed |-> peer.addressed, rw |-> "W", present |-> here,
                 got |-> <<>>, gave |-> <<>>, refused |-> FALSE,
                 driving |-> FALSE]
    BY <1>3, Zenon DEF Twi!NoPeer
  <2>2. /\ peer.addressed \in {"no", "fresh", "none", "W", "R"}
        /\ <<>> \in Seq(TwiByte)
    BY DEF TwiInv, TwiTypes, PeerTypes
  <2> QED
    BY <2>1, <2>2 DEF PeerTypes
<1>5. twiCall' = [op |-> op, at |-> "wait", out |-> d, i |-> 0, n |-> n,
                  in |-> <<>>]
  BY DEF Twi!Begins
<1>6. CallTypes'
  BY <1>5 DEF CallTypes
<1> QED
  BY <1>1, <1>2, <1>4, <1>5, <1>6

LEMMA MasterSendKeeps ==
  ASSUME TwiInv, Twi!i2cMasterSend
  PROVE  TwiInv'
<1>1. PICK d \in Twi!Data :
        /\ Twi!Begins("send", d, 0)
        /\ m' = [m EXCEPT !.state = "MASTER_TX", !.rw = "W", !.sendData = d,
                          !.sendIndex = 0, !.sendLength = Len(d)]
        /\ Twi!i2cSendStart
  BY Zenon DEF Twi!i2cMasterSend
<1>2. d \in Seq(TwiByte) /\ Len(d) <= BufferSize /\ Len(d) \in Nat
      /\ 0 \in 0 .. BufferSize
  BY DataAreSequences, TwiConstants
<1>3. /\ PeerTypes' /\ CallTypes'
      /\ role' = "master" /\ twie /\ m.state = "IDLE"
      /\ peer'.got = <<>> /\ peer'.gave = <<>>
      /\ twiCall'.at = "wait" /\ twiCall'.out = d /\ twiCall'.n = 0
  BY <1>1, <1>2, BeginsKeepsTypes
<1>4. /\ RoutineTypes' /\ m'.state = "MASTER_TX" /\ m'.rw = "W"
      /\ m'.sendData = d /\ m'.sendIndex = 0
  <2>1. RoutineTypes /\ BufferSize \in Nat
    BY TwiConstants DEF TwiInv, TwiTypes
  <2>2. m' \in [state : {"IDLE", "MASTER_TX", "MASTER_RX", "SLAVE_TX",
                        "SLAVE_RX"},
               rw : {"W", "R"}, sendData : Seq(TwiByte), sendIndex : Nat,
               sendLength : Nat, recvIndex : 0 .. BufferSize,
               recvLength : 0 .. BufferSize,
               recvData : [1 .. BufferSize -> TwiByte \cup {Fill}]]
    BY <1>1, <1>2, <2>1, Zenon DEF RoutineTypes
  <2>3. /\ m'.state = "MASTER_TX" /\ m'.rw = "W" /\ m'.sendData = d
        /\ m'.sendIndex = 0 /\ m'.sendLength = Len(d)
    BY <1>1, <2>1 DEF RoutineTypes
  <2> QED
    BY <1>2, <2>1, <2>2, <2>3 DEF RoutineTypes
<1>5. /\ command' = "start" /\ twea' = FALSE /\ status' = "none"
      /\ twie' = twie
  BY <1>1 DEF Twi!i2cSendStart, Twi!Commands
<1>6. TwiTypes'
  BY <1>3, <1>4, <1>5, Zenon DEF TwiInv, TwiTypes, FlagTypes
<1>7. MasterSends'
  BY <1>3, <1>4, <1>5 DEF MasterSends, BeforeAddress, Told
<1> QED
  BY <1>3, <1>4, <1>6, <1>7 DEF TwiInv, MasterInv

LEMMA MasterReceiveKeeps ==
  ASSUME TwiInv, Twi!i2cMasterReceive
  PROVE  TwiInv'
<1>1. PICK n \in 0 .. BufferSize :
        /\ Twi!Begins("receive", <<>>, n)
        /\ m' = [m EXCEPT !.state = "MASTER_RX", !.rw = "R", !.recvIndex = 0,
                          !.recvLength = n]
        /\ Twi!i2cSendStart
  BY Zenon DEF Twi!i2cMasterReceive
<1>2. <<>> \in Seq(TwiByte) /\ Len(<<>>) <= BufferSize
      /\ 0 \in 0 .. BufferSize
  BY TwiConstants
<1>3. /\ PeerTypes' /\ CallTypes'
      /\ role' = "master" /\ twie /\ m.state = "IDLE"
      /\ peer'.got = <<>> /\ peer'.gave = <<>>
      /\ twiCall'.at = "wait" /\ twiCall'.out = <<>> /\ twiCall'.n = n
  BY <1>1, <1>2, BeginsKeepsTypes, Zenon
<1>4. /\ RoutineTypes' /\ m'.state = "MASTER_RX" /\ m'.rw = "R"
      /\ m'.recvIndex = 0 /\ m'.recvLength = n
  <2>1. RoutineTypes
    BY DEF TwiInv, TwiTypes
  <2> QED
    BY <1>1, <1>2, <2>1, Zenon DEF RoutineTypes
<1>5. /\ command' = "start" /\ twea' = FALSE /\ status' = "none"
      /\ twie' = twie
  BY <1>1 DEF Twi!i2cSendStart, Twi!Commands
<1>6. TwiTypes'
  BY <1>3, <1>4, <1>5, Zenon DEF TwiInv, TwiTypes, FlagTypes
<1>7. MasterReceives'
  BY <1>3, <1>4, <1>5 DEF MasterReceives, BeforeAddress, Told
<1> QED
  BY <1>3, <1>4, <1>6, <1>7 DEF TwiInv, MasterInv

LEMMA StartNiKeeps ==
  ASSUME TwiInv, NEW op \in {"sendNI", "receiveNI", "transferNI"},
         NEW d \in Seq(TwiByte), Len(d) <= BufferSize,
         NEW n \in 0 .. BufferSize, Twi!StartNI(op, d, n),
         op = "receiveNI" => n > 0 /\ d = <<>>
  PROVE  TwiInv'
<1>1. /\ PeerTypes' /\ CallTypes'
      /\ role' = "master" /\ twie /\ m.state = "IDLE"
      /\ peer'.got = <<>> /\ peer'.gave = <<>>
      /\ twiCall'.op = op /\ twiCall'.at = "wait" /\ twiCall'.out = d
      /\ twiCall'.n = n /\ twiCall'.i = 0 /\ twiCall'.in = <<>>
  BY BeginsKeepsTypes DEF Twi!StartNI
<1>2. /\ command' = "start" /\ twea' = FALSE /\ status' = "none"
      /\ twie' = FALSE /\ m' = m
  BY DEF Twi!StartNI
<1>3. TwiTypes'
  <2>1. RoutineTypes'
    BY <1>2 DEF TwiInv, TwiTypes, RoutineTypes
  <2> QED
    BY <1>1, <1>2, <2>1, Zenon DEF TwiTypes, FlagTypes
<1>4. NiStarts'
  BY <1>1, <1>2 DEF NiStarts, BeforeAddress, Told
<1> QED
  BY <1>1, <1>2, <1>3, <1>4 DEF TwiInv, MasterInv

LEMMA CallsKeep ==
  ASSUME TwiInv, Twi!i2cMasterSend \/ Twi!i2cMasterReceive
                   \/ Twi!i2cMasterSendNI \/ Twi!i2cMasterReceiveNI
                   \/ Twi!i2cMasterTransferNI
  PROVE  TwiInv'
<1>1. CASE Twi!i2cMasterSend
  BY <1>1, MasterSendKeeps
<1>2. CASE Twi!i2cMasterReceive
  BY <1>2, MasterReceiveKeeps
<1>3. CASE Twi!i2cMasterSendNI
  <2>1. PICK d \in Twi!Data : Twi!StartNI("sendNI", d, 0)
    BY <1>3 DEF Twi!i2cMasterSendNI
  <2>2. d \in Seq(TwiByte) /\ Len(d) <= BufferSize /\ 0 \in 0 .. BufferSize
    BY DataAreSequences, TwiConstants
  <2> QED
    BY <2>1, <2>2, StartNiKeeps
<1>4. CASE Twi!i2cMasterReceiveNI
  <2>1. PICK n \in 1 .. BufferSize : Twi!StartNI("receiveNI", <<>>, n)
    BY <1>4 DEF Twi!i2cMasterReceiveNI
  <2>2. <<>> \in Seq(TwiByte) /\ Len(<<>>) <= BufferSize
        /\ n \in 0 .. BufferSize /\ n > 0
    BY TwiConstants
  <2> QED
    BY <2>1, <2>2, StartNiKeeps, Zenon
<1>5. CASE Twi!i2cMasterTransferNI
  <2>1. PICK d \in Twi!Data, n \in 0 .. BufferSize :
          Twi!StartNI("transferNI", d, n)
    BY <1>5 DEF Twi!i2cMasterTransferNI
  <2>2. d \in Seq(TwiByte) /\ Len(d) <= BufferSize
    BY DataAreSequences, TwiConstants
  <2> QED
    BY <2>1, <2>2, StartNiKeeps
<1> QED
  BY <1>1, <1>2, <1>3, <1>4, <1>5

\* A step of a call changes the place it is at, and the TWI.
LEMMA CallKeepsTypes ==
  ASSUME TwiInv, UNCHANGED <<m, peer, role>>, CallTypes',
         twea' \in BOOLEAN, twie' \in BOOLEAN
  PROVE  TwiTypes'
<1>1. RoutineTypes'
  BY DEF TwiInv, TwiTypes, RoutineTypes
<1>2. PeerTypes'
  BY DEF TwiInv, TwiTypes, PeerTypes
<1>3. FlagTypes'
  BY DEF TwiInv, TwiTypes, FlagTypes
<1> QED
  BY <1>1, <1>2, <1>3 DEF TwiTypes

LEMMA FinishedKeeps ==
  ASSUME TwiInv, Twi!Finished
  PROVE  TwiInv'
<1>1. role = "master" /\ m.state = "IDLE" /\ twie /\ MasterRests
  BY DEF Twi!Finished, TwiInv, TwiTypes, FlagTypes, SlaveInv, MasterInv,
         NiStarts, NiSends, NiReads, NiStores, NiEnds
<1>2. /\ twiCall.n \in 0 .. BufferSize
      /\ SubSeq(m.recvData, 1, twiCall.n) \in Seq(TwiByte \cup {Fill})
  <2>1. /\ m.recvData \in Seq(TwiByte \cup {Fill})
        /\ Len(m.recvData) = BufferSize
    BY TwiConstants DEF TwiInv, TwiTypes, RoutineTypes
  <2>2. twiCall.n \in 0 .. BufferSize
    BY DEF TwiInv, TwiTypes, CallTypes
  <2> QED
    BY <2>1, <2>2, Beginning
<1>3. CallTypes' /\ twiCall'.at = "idle" /\ twiCall'.n = twiCall.n
      /\ twiCall'.out = twiCall.out
      /\ twiCall'.in = SubSeq(m.recvData, 1, twiCall.n)
  BY <1>2, Zenon DEF Twi!Finished, TwiInv, TwiTypes, CallTypes
<1>4. UNCHANGED <<m, command, twea, twie, status, twdr, peer, role>>
  BY DEF Twi!Finished, Twi!twiVars
<1>5. TwiTypes'
  BY <1>3, <1>4, CallKeepsTypes DEF TwiInv, TwiTypes, FlagTypes
<1>6. MasterRests'
  BY <1>1, <1>3, <1>4 DEF MasterRests, Arrived, Twi!Finished
<1> QED
  BY <1>1, <1>4, <1>5, <1>6 DEF TwiInv, MasterInv

\* What the bits i2cWaitForComplete() waits for say of where the call is.
LEMMA WaitedWhere ==
  ASSUME TwiInv, ~twie, status # "none"
  PROVE  /\ role = "master" /\ m.state = "IDLE" /\ command = "none"
         /\ twiCall.at = "wait" => NiStarts
         /\ twiCall.at = "send" => NiSends
         /\ twiCall.at \in {"read", "accept"} => NiReads
         /\ twiCall.at = "store" => NiStores
         /\ twiCall.at \notin {"sto", "end"}
<1>1. role = "master"
  BY DEF TwiInv, TwiTypes, FlagTypes, SlaveInv
<1>2. m.state = "IDLE"
  BY <1>1 DEF TwiInv, MasterInv, MasterSends, MasterReceives
<1>3. NiStarts \/ NiSends \/ NiReads \/ NiStores
  BY <1>1, <1>2 DEF TwiInv, MasterInv, NiEnds
<1> QED
  BY <1>1, <1>2, <1>3
     DEF NiStarts, NiSends, NiReads, NiStores, BeforeAddress, Addressing,
         Told, Reported

\* A call that goes on to another place.
LEMMA ThenKeepsTypes ==
  ASSUME TwiInv, NEW where \in {"send", "read", "accept", "store", "sto"},
         Twi!Then(where)
  PROVE  /\ CallTypes' /\ twiCall'.at = where
         /\ twiCall'.op = twiCall.op /\ twiCall'.out = twiCall.out
         /\ twiCall'.i = twiCall.i /\ twiCall'.n = twiCall.n
         /\ twiCall'.in = twiCall.in
  BY DEF TwiInv, TwiTypes, CallTypes, Twi!Then

LEMMA ReadOrStopKeeps ==
  ASSUME TwiInv, Twi!ReadOrStop, UNCHANGED <<m, peer, role>>,
         role = "master", m.state = "IDLE", ~twie, Arrived(Len(twiCall.out)),
         twiCall.in = <<>>, peer.gave = <<>>
  PROVE  TwiInv'
<1> USE DEF Twi!ReadOrStop, Twi!Commands, Twi!i2cSendStart, Twi!i2cSendStop
<1>1. CASE twiCall.n > 0
  <2>1. /\ CallTypes' /\ twiCall'.at = "read" /\ twiCall'.out = twiCall.out
        /\ twiCall'.n = twiCall.n /\ twiCall'.in = twiCall.in
    BY <1>1, ThenKeepsTypes
  <2>2. TwiTypes'
    BY <1>1, <2>1, CallKeepsTypes, Zenon DEF TwiInv, TwiTypes, FlagTypes
  <2>3. NiReads'
    BY <1>1, <2>1 DEF NiReads, Arrived, BeforeAddress, Told
  <2> QED
    BY <1>1, <2>2, <2>3 DEF TwiInv, MasterInv
<1>2. CASE ~(twiCall.n > 0)
  <2>1. /\ CallTypes' /\ twiCall'.at = "sto" /\ twiCall'.out = twiCall.out
        /\ twiCall'.n = twiCall.n /\ twiCall'.in = twiCall.in
    BY <1>2, ThenKeepsTypes
  <2>2. TwiTypes'
    BY <1>2, <2>1, CallKeepsTypes, Zenon DEF TwiInv, TwiTypes, FlagTypes
  <2>3. NiEnds'
    BY <1>2, <2>1 DEF NiEnds, Arrived
  <2> QED
    BY <1>2, <2>2, <2>3 DEF TwiInv, MasterInv
<1> QED
  BY <1>1, <1>2

LEMMA NiAddressKeeps ==
  ASSUME TwiInv, Twi!NiAddress
  PROVE  TwiInv'
<1> USE DEF Twi!NiAddress, Twi!Waited, Twi!Commands, Twi!i2cSendByte
<1>1. role = "master" /\ m.state = "IDLE" /\ NiStarts
  BY WaitedWhere
<1>2. peer.addressed = "fresh"
  BY <1>1 DEF NiStarts, BeforeAddress, Told, Reported
<1>3. CASE twiCall.op = "receiveNI"
  <2>1. /\ CallTypes' /\ twiCall'.at = "accept" /\ twiCall'.out = twiCall.out
        /\ twiCall'.n = twiCall.n /\ twiCall'.in = twiCall.in
    BY <1>3, ThenKeepsTypes
  <2>2. TwiTypes'
    BY <1>3, <2>1, CallKeepsTypes, Zenon DEF TwiInv, TwiTypes, FlagTypes
  <2>3. NiReads'
    <3>1. twiCall.n > 0 /\ twiCall.out = <<>>
      BY <1>1, <1>3 DEF NiStarts
    <3>2. Arrived(Len(twiCall.out))'
      BY <1>1, <1>3, <2>1, <3>1, EmptyBeginning DEF NiStarts, Arrived
    <3> QED
      BY <1>1, <1>2, <1>3, <2>1, <3>1, <3>2
         DEF NiReads, NiStarts, Addressing, Told
  <2> QED
    BY <1>1, <1>3, <2>2, <2>3 DEF TwiInv, MasterInv
<1>4. CASE /\ twiCall.op # "receiveNI"
           /\ twiCall.op = "sendNI" \/ twiCall.out # <<>>
  <2>1. /\ CallTypes' /\ twiCall'.at = "send" /\ twiCall'.out = twiCall.out
        /\ twiCall'.n = twiCall.n /\ twiCall'.in = twiCall.in
        /\ twiCall'.i = twiCall.i
    BY <1>4, ThenKeepsTypes
  <2>2. TwiTypes'
    BY <1>4, <2>1, CallKeepsTypes, Zenon DEF TwiInv, TwiTypes, FlagTypes
  <2>3. NiSends'
    BY <1>1, <1>2, <1>4, <2>1, <2>2
       DEF NiSends, NiStarts, Addressing, Told, TwiTypes, CallTypes
  <2> QED
    BY <1>1, <1>4, <2>2, <2>3 DEF TwiInv, MasterInv
<1>5. CASE /\ twiCall.op # "receiveNI"
           /\ ~(twiCall.op = "sendNI" \/ twiCall.out # <<>>)
  <2>1. Arrived(Len(twiCall.out)) /\ twiCall.in = <<>> /\ peer.gave = <<>>
    BY <1>1, <1>5, EmptyBeginning DEF NiStarts, Arrived
  <2> QED
    BY <1>1, <1>5, <2>1, ReadOrStopKeeps
<1> QED
  BY <1>3, <1>4, <1>5

LEMMA NiSendKeeps ==
  ASSUME TwiInv, Twi!NiSend
  PROVE  TwiInv'
<1> USE DEF Twi!NiSend, Twi!Waited, Twi!Commands, Twi!i2cSendByte
<1>1. role = "master" /\ m.state = "IDLE" /\ command = "none" /\ NiSends
  BY WaitedWhere
<1>2. /\ twiCall.i \in 0 .. Len(twiCall.out) /\ Listens
      /\ peer.addressed \in {"W", "none"} /\ Arrived(twiCall.i)
      /\ twiCall.in = <<>> /\ peer.gave = <<>>
  BY <1>1 DEF NiSends, Told, Reported, Addressing, TwiInv, TwiTypes, CallTypes
<1>3. CASE twiCall.i < Len(twiCall.out)
  <2>1. /\ CallTypes' /\ twiCall'.at = "send" /\ twiCall'.out = twiCall.out
        /\ twiCall'.n = twiCall.n /\ twiCall'.in = twiCall.in
        /\ twiCall'.i = twiCall.i + 1
    BY <1>3 DEF TwiInv, TwiTypes, CallTypes
  <2>2. TwiTypes'
    BY <1>3, <2>1, CallKeepsTypes, Zenon DEF TwiInv, TwiTypes, FlagTypes
  <2>3. NiSends'
    <3>1. twiCall'.i - 1 = twiCall.i
      BY <1>2, <2>1
    <3>2. Arrived(twiCall.i - 1)'
      BY <1>2, <1>3, <2>1, <3>1 DEF Arrived
    <3> QED
      BY <1>2, <1>3, <2>1, <3>2 DEF NiSends, Listens, Told
  <2> QED
    BY <1>1, <1>3, <2>2, <2>3 DEF TwiInv, MasterInv
<1>4. CASE ~(twiCall.i < Len(twiCall.out))
  <2>1. twiCall.i = Len(twiCall.out)
    BY <1>2, <1>4 DEF TwiInv, TwiTypes, CallTypes
  <2> QED
    BY <1>1, <1>2, <1>4, <2>1, ReadOrStopKeeps
<1> QED
  BY <1>3, <1>4

LEMMA NiReadKeeps ==
  ASSUME TwiInv, Twi!NiRead
  PROVE  TwiInv'
<1> USE DEF Twi!NiRead, Twi!Waited, Twi!Commands, Twi!i2cSendByte
<1>1. role = "master" /\ m.state = "IDLE" /\ NiReads
  BY WaitedWhere
<1>2. /\ CallTypes' /\ twiCall'.at = "accept" /\ twiCall'.out = twiCall.out
      /\ twiCall'.n = twiCall.n /\ twiCall'.in = twiCall.in
  BY ThenKeepsTypes
<1>3. TwiTypes'
  BY <1>2, CallKeepsTypes, Zenon DEF TwiInv, TwiTypes, FlagTypes
<1>4. NiReads'
  BY <1>1, <1>2 DEF NiReads, Arrived, BeforeAddress, Addressing, Told, Reported
<1> QED
  BY <1>1, <1>3, <1>4 DEF TwiInv, MasterInv

LEMMA NiAcceptKeeps ==
  ASSUME TwiInv, Twi!NiAccept
  PROVE  TwiInv'
<1> USE DEF Twi!NiAccept, Twi!Waited, Twi!Commands, Twi!i2cReceiveByte
<1>1. role = "master" /\ m.state = "IDLE" /\ NiReads
  BY WaitedWhere
<1>2. /\ CallTypes' /\ twiCall'.at = "store" /\ twiCall'.out = twiCall.out
      /\ twiCall'.n = twiCall.n /\ twiCall'.in = twiCall.in
  BY ThenKeepsTypes
<1>3. TwiTypes'
  BY <1>2, CallKeepsTypes DEF TwiInv, TwiTypes, FlagTypes
<1>4. NiStores'
  BY <1>1, <1>2 DEF NiReads, NiStores, Arrived, Addressing, Told, Reported
<1> QED
  BY <1>1, <1>3, <1>4 DEF TwiInv, MasterInv

LEMMA NiStoreKeeps ==
  ASSUME TwiInv, Twi!NiStore
  PROVE  TwiInv'
<1> USE DEF Twi!NiStore, Twi!Waited, Twi!Commands, Twi!i2cReceiveByte,
            Twi!i2cSendStop
<1>1. role = "master" /\ m.state = "IDLE" /\ command = "none" /\ NiStores
  BY WaitedWhere
<1>2. /\ twdr \in TwiByte \cup {Fill} /\ twiCall.n \in 0 .. BufferSize
      /\ twiCall.in \in Seq(TwiByte \cup {Fill})
      /\ Len(twiCall.in) < twiCall.n
      /\ peer.present => peer.gave = Append(twiCall.in, twdr)
  BY <1>1 DEF NiStores, Told, Reported, TwiInv, TwiTypes, CallTypes
<1>3. /\ Append(twiCall.in, twdr) \in Seq(TwiByte \cup {Fill})
      /\ Len(Append(twiCall.in, twdr)) = Len(twiCall.in) + 1
  BY <1>2
<1>4. /\ CallTypes' /\ twiCall'.out = twiCall.out /\ twiCall'.n = twiCall.n
      /\ twiCall'.in = Append(twiCall.in, twdr)
      /\ twiCall'.at = IF Len(twiCall.in) + 1 < twiCall.n THEN "store"
                       ELSE IF twiCall.op = "transferNI" THEN "sto" ELSE "end"
  BY <1>3, Zenon DEF TwiInv, TwiTypes, CallTypes
<1>5. CASE Len(twiCall.in) + 1 < twiCall.n
  <2>1. TwiTypes'
    BY <1>4, <1>5, CallKeepsTypes DEF TwiInv, TwiTypes, FlagTypes
  <2>2. NiStores'
    BY <1>1, <1>2, <1>3, <1>4, <1>5 DEF NiStores, Arrived, Told
  <2> QED
    BY <1>1, <1>5, <2>1, <2>2 DEF TwiInv, MasterInv
<1>6. CASE ~(Len(twiCall.in) + 1 < twiCall.n)
  <2>1. TwiTypes'
    BY <1>4, <1>6, CallKeepsTypes DEF TwiInv, TwiTypes, FlagTypes
  <2>2. NiEnds'
    BY <1>1, <1>2, <1>4, <1>6 DEF NiStores, NiEnds, Arrived
  <2> QED
    BY <1>1, <1>6, <2>1, <2>2 DEF TwiInv, MasterInv
<1> QED
  BY <1>5, <1>6

LEMMA NiEndKeeps ==
  ASSUME TwiInv, Twi!NiEnd
  PROVE  TwiInv'
<1> USE DEF Twi!NiEnd
<1>1. role = "master" /\ m.state = "IDLE" /\ NiEnds
  BY DEF TwiInv, TwiTypes, FlagTypes, SlaveInv, MasterInv, MasterSends,
         MasterReceives, MasterRests, NiStarts, NiSends, NiReads, NiStores
<1>2. /\ CallTypes' /\ twiCall'.at = "idle" /\ twiCall'.out = twiCall.out
      /\ twiCall'.n = twiCall.n /\ twiCall'.in = twiCall.in
  BY Zenon DEF TwiInv, TwiTypes, CallTypes, Twi!Then
<1>3. TwiTypes'
  BY <1>2, CallKeepsTypes DEF TwiInv, TwiTypes, FlagTypes
<1>4. MasterRests'
  BY <1>1, <1>2 DEF MasterRests, NiEnds, Arrived
<1> QED
  BY <1>1, <1>3, <1>4 DEF TwiInv, MasterInv

LEMMA ContinueKeeps ==
  ASSUME TwiInv, Twi!Continue
  PROVE  TwiInv'
  BY FinishedKeeps, NiAddressKeeps, NiSendKeeps, NiReadKeeps, NiAcceptKeeps,
     NiStoreKeeps, NiEndKeeps DEF Twi!Continue

-----------------------------------------------------------------------------
(* The TWI and the devices *)

\* A step on the bus: it changes no more than the peer, the data register and
\* what the TWI has done.
LEMMA BusKeepsTypes ==
  ASSUME TwiInv, UNCHANGED <<m, twiCall, role, twea, twie>>, PeerTypes'
  PROVE  TwiTypes'
<1>1. RoutineTypes'
  BY DEF TwiInv, TwiTypes, RoutineTypes
<1>2. CallTypes'
  BY DEF TwiInv, TwiTypes, CallTypes
<1>3. FlagTypes'
  BY DEF TwiInv, TwiTypes, FlagTypes
<1> QED
  BY <1>1, <1>2, <1>3 DEF TwiTypes

LEMMA CommandIsMasters ==
  ASSUME TwiInv, command \in {"start", "byte", "receive", "stop"}
  PROVE  /\ role = "master" /\ MasterInv
         /\ command \in {"start", "byte", "receive"} => status = "none"
<1>1. role = "master"
  BY DEF TwiInv, TwiTypes, FlagTypes, SlaveInv, SlaveRests, SlaveAddressed,
         SlaveReceives, SlaveTransmits, Told, Reported
<1> QED
  BY <1>1 DEF TwiInv, MasterInv, MasterRests, MasterSends, MasterReceives,
              NiStarts, NiSends, NiReads, NiStores, NiEnds, BeforeAddress,
              Addressing, Told, Reported

LEMMA TwiStartKeeps ==
  ASSUME TwiInv, Twi!TwiStart, UNCHANGED <<m, twiCall, role>>
  PROVE  TwiInv'
<1> USE DEF Twi!TwiStart, Twi!Reports
<1>1. role = "master" /\ MasterInv
  BY CommandIsMasters
<1>2. PeerTypes' /\ peer'.addressed = "fresh" /\ peer'.got = peer.got
      /\ peer'.gave = peer.gave /\ peer'.present = peer.present
      /\ peer'.refused = peer.refused
  BY Zenon DEF TwiInv, TwiTypes, PeerTypes
<1>3. TwiTypes'
  BY <1>2, BusKeepsTypes
<1>4. BeforeAddress'
  BY <1>2 DEF BeforeAddress, Reported
<1>5. CASE m.state = "MASTER_TX"
  <2>1. MasterSends'
    BY <1>1, <1>2, <1>4, <1>5
       DEF MasterInv, MasterSends, Told, Reported
  <2> QED
    BY <1>1, <1>3, <1>5, <2>1 DEF TwiInv, MasterInv
<1>6. CASE m.state = "MASTER_RX"
  <2>1. MasterReceives'
    BY <1>1, <1>2, <1>4, <1>6
       DEF MasterInv, MasterReceives, Told, Reported
  <2> QED
    BY <1>1, <1>3, <1>6, <2>1 DEF TwiInv, MasterInv
<1>7. CASE m.state \notin {"MASTER_TX", "MASTER_RX"}
  <2>1. m.state = "IDLE" /\ ~twie
    BY <1>1, <1>7 DEF MasterInv, MasterRests
  <2>2. NiStarts \/ (NiReads /\ twiCall.at = "read")
    BY <1>1, <2>1 DEF MasterInv, NiStarts, NiSends, NiReads, NiStores, NiEnds,
                      Addressing, Told, Reported
  <2>3. NiStarts' \/ NiReads'
    BY <1>2, <1>4, <2>2 DEF NiStarts, NiReads, Arrived
  <2> QED
    BY <1>1, <1>3, <2>1, <2>3 DEF TwiInv, MasterInv
<1> QED
  BY <1>5, <1>6, <1>7

LEMMA TwiAddressKeeps ==
  ASSUME TwiInv, Twi!TwiAddress, UNCHANGED <<m, twiCall, role>>
  PROVE  TwiInv'
<1> USE DEF Twi!TwiAddress
<1>1. role = "master" /\ MasterInv /\ status = "none"
  BY CommandIsMasters
<1>2. /\ peer'.addressed = IF peer.present THEN twdr ELSE "none"
      /\ peer'.got = peer.got /\ peer'.gave = peer.gave
      /\ peer'.present = peer.present /\ peer'.refused = peer.refused
      /\ twdr \in {"W", "R"} => PeerTypes'
  BY Zenon DEF TwiInv, TwiTypes, PeerTypes
<1>3. /\ command' = "none" /\ UNCHANGED <<twea, twie, twdr>>
      /\ twdr = "W" => status' = IF peer.present THEN "MT_SLA_ACK"
                                                 ELSE "MT_SLA_NACK"
      /\ twdr = "R" => status' = IF peer.present THEN "MR_SLA_ACK"
                                                 ELSE "MR_SLA_NACK"
  BY DEF Twi!Reports, TwiInv, TwiTypes, PeerTypes
<1>4. CASE m.state = "MASTER_TX"
  <2>1. MasterSends /\ Addressing("W")
    BY <1>1, <1>4 DEF MasterInv, MasterSends, BeforeAddress, Addressing, Told,
                      Reported
  <2>2. TwiTypes'
    BY <1>2, <1>3, <2>1, BusKeepsTypes DEF Addressing
  <2>3. peer.got = <<>> /\ m.sendIndex = 0
    BY <2>1 DEF MasterSends, BeforeAddress, Addressing, Told, Reported
  <2>4. /\ peer.got = SubSeq(twiCall.out, 1, m.sendIndex)
        /\ m.sendIndex <= Len(twiCall.out)
    BY <2>3, EmptyBeginning DEF TwiInv, TwiTypes, CallTypes
  <2>5. MasterSends'
    BY <1>2, <1>3, <2>1, <2>4 DEF MasterSends, Addressing, Reported
  <2> QED
    BY <1>1, <1>4, <2>2, <2>5 DEF TwiInv, MasterInv
<1>5. CASE m.state = "MASTER_RX"
  <2>1. MasterReceives /\ Addressing("R")
    BY <1>1, <1>5 DEF MasterInv, MasterReceives, BeforeAddress, Addressing,
                      Told, Reported
  <2>2. TwiTypes'
    BY <1>2, <1>3, <2>1, BusKeepsTypes DEF Addressing
  <2>3. MasterReceives'
    BY <1>2, <1>3, <2>1
       DEF MasterReceives, Addressing, BeforeAddress, Told, Reported
  <2> QED
    BY <1>1, <1>5, <2>2, <2>3 DEF TwiInv, MasterInv
<1>6. CASE m.state \notin {"MASTER_TX", "MASTER_RX"}
  <2>1. m.state = "IDLE" /\ ~twie
    BY <1>1, <1>6 DEF MasterInv, MasterRests
  <2>2. \/ NiSends /\ Addressing("W") /\ twiCall.i = 0 /\ peer.got = <<>>
        \/ NiReads /\ Addressing("R") /\ twiCall.at = "accept"
    BY <1>1, <2>1 DEF MasterInv, NiStarts, NiSends, NiReads, NiStores, NiEnds,
                      BeforeAddress, Addressing, Told, Reported
  <2>3. TwiTypes'
    BY <1>2, <1>3, <2>2, BusKeepsTypes DEF Addressing
  <2>4. NiSends' \/ NiReads'
    BY <1>2, <1>3, <2>2, EmptyBeginning, Zenon
       DEF NiSends, NiReads, Addressing, Listens, Arrived, Reported
  <2> QED
    BY <1>1, <1>3, <2>1, <2>3, <2>4 DEF TwiInv, MasterInv
<1> QED
  BY <1>4, <1>5, <1>6

LEMMA TwiSendKeeps ==
  ASSUME TwiInv, Twi!TwiSend, UNCHANGED <<m, twiCall, role>>
  PROVE  TwiInv'
<1>1. role = "master" /\ MasterInv /\ status = "none"
  BY CommandIsMasters DEF Twi!TwiSend
<1>2. PICK ack \in {FALSE, peer.addressed = "W"} :
        /\ Twi!Reports(IF ack THEN "MT_DATA_ACK" ELSE "MT_DATA_NACK")
        /\ peer' = [peer EXCEPT !.addressed = IF ack THEN "W" ELSE "none",
                                !.refused = @ \/ ~ack,
                                !.got = IF ack THEN Append(@, twdr) ELSE @]
  BY Zenon DEF Twi!TwiSend
<1>3. command = "byte" /\ peer.addressed \in {"W", "none"}
      /\ UNCHANGED twdr
  BY DEF Twi!TwiSend
<1>4. /\ command' = "none" /\ UNCHANGED <<twea, twie>>
      /\ status' = IF ack THEN "MT_DATA_ACK" ELSE "MT_DATA_NACK"
  BY <1>2 DEF Twi!Reports
<1>5. ack => peer.addressed = "W"
  BY <1>2, Zenon
<1>6. /\ peer'.addressed = IF ack THEN "W" ELSE "none"
      /\ peer'.got = IF ack THEN Append(peer.got, twdr) ELSE peer.got
      /\ peer'.gave = peer.gave /\ peer'.present = peer.present
      /\ peer.refused \/ ~ack => peer'.refused
  BY <1>2, Zenon DEF TwiInv, TwiTypes, PeerTypes
<1>7. ASSUME twdr \in TwiByte
      PROVE  TwiTypes'
  <2>1. Append(peer.got, twdr) \in Seq(TwiByte)
    BY <1>7 DEF TwiInv, TwiTypes, PeerTypes
  <2>2. PeerTypes'
    BY <1>2, <2>1, Zenon DEF TwiInv, TwiTypes, PeerTypes
  <2> QED
    BY <1>4, <2>2, BusKeepsTypes DEF Twi!TwiSend
<1>8. CASE m.state = "MASTER_TX"
  <2>1. /\ MasterSends /\ m.sendIndex \in 1 .. Len(twiCall.out)
        /\ twdr = twiCall.out[m.sendIndex]
        /\ peer.got = SubSeq(twiCall.out, 1, m.sendIndex - 1)
    BY <1>1, <1>3, <1>8 DEF MasterInv, MasterSends, BeforeAddress, Addressing,
                            Told, Reported
  <2>2. twdr \in TwiByte
        /\ Append(peer.got, twdr) = SubSeq(twiCall.out, 1, m.sendIndex)
    <3>1. twiCall.out \in Seq(TwiByte)
      BY DEF TwiInv, TwiTypes, CallTypes
    <3>2. Append(SubSeq(twiCall.out, 1, m.sendIndex - 1),
                 twiCall.out[m.sendIndex])
            = SubSeq(twiCall.out, 1, m.sendIndex)
      BY <2>1, <3>1, BeginningGrows
    <3>3. twdr \in TwiByte
      BY <2>1, <3>1
    <3> QED
      BY <2>1, <3>2, <3>3
  <2>3. MasterSends'
    BY <1>4, <1>6, <2>1, <2>2 DEF MasterSends, Reported
  <2> QED
    BY <1>1, <1>7, <1>8, <2>2, <2>3 DEF TwiInv, MasterInv
<1>9. CASE m.state \notin {"MASTER_TX"}
  <2>1. m.state = "IDLE" /\ ~twie
    BY <1>1, <1>3, <1>9 DEF MasterInv, MasterRests, MasterReceives,
                            BeforeAddress, Addressing, Told, Reported
  <2>2. /\ NiSends /\ Listens /\ twiCall.i \in 1 .. Len(twiCall.out)
        /\ twdr = twiCall.out[twiCall.i] /\ Arrived(twiCall.i - 1)
    BY <1>1, <1>3, <2>1
       DEF MasterInv, NiStarts, NiSends, NiReads, NiStores, NiEnds,
           BeforeAddress, Addressing, Told, Reported, TwiInv, TwiTypes,
           CallTypes
  <2>3. twdr \in TwiByte
        /\ Append(SubSeq(twiCall.out, 1, twiCall.i - 1), twdr)
             = SubSeq(twiCall.out, 1, twiCall.i)
    BY <2>2, BeginningGrows DEF TwiInv, TwiTypes, CallTypes
  <2>4. Arrived(twiCall.i)' /\ Listens'
    BY <1>4, <1>5, <1>6, <2>2, <2>3, SMTT(40) DEF Arrived, Listens, Twi!TwiSend
  <2>5. NiSends'
    BY <1>4, <1>6, <2>2, <2>4 DEF NiSends, Reported, Twi!TwiSend
  <2> QED
    BY <1>1, <1>4, <1>7, <2>1, <2>3, <2>5 DEF TwiInv, MasterInv
<1> QED
  BY <1>8, <1>9

LEMMA TwiReceiveKeeps ==
  ASSUME TwiInv, Twi!TwiReceive, UNCHANGED <<m, twiCall, role>>
  PROVE  TwiInv'
<1>1. role = "master" /\ MasterInv /\ status = "none"
  BY CommandIsMasters, Zenon DEF Twi!TwiReceive
<1>2. /\ command = "receive" /\ command' = "none"
      /\ UNCHANGED <<twea, twie>>
      /\ status' = IF twea THEN "MR_DATA_ACK" ELSE "MR_DATA_NACK"
  BY Zenon DEF Twi!TwiReceive, Twi!Reports
<1>3. /\ peer'.addressed = peer.addressed /\ peer'.got = peer.got
      /\ peer'.present = peer.present /\ peer'.refused = peer.refused
      /\ PeerTypes' /\ twdr' \in TwiByte \cup {Fill}
      /\ peer.addressed = "R" => /\ twdr' \in TwiByte
                                 /\ peer'.gave = Append(peer.gave, twdr')
  <2>1. CASE peer.addressed = "R"
    <3>1. PICK b \in TwiByte :
            /\ twdr' = b
            /\ peer' = [peer EXCEPT !.gave = Append(@, b), !.driving = twea]
      BY <2>1, Zenon DEF Twi!TwiReceive
    <3>2. peer.gave \in Seq(TwiByte) /\ twea \in BOOLEAN
      BY DEF TwiInv, TwiTypes, PeerTypes, FlagTypes
    <3>3. Append(peer.gave, b) \in Seq(TwiByte)
      BY <3>2
    <3>4. PeerTypes'
      BY <3>1, <3>2, <3>3, Zenon DEF TwiInv, TwiTypes, PeerTypes
    <3> QED
      BY <2>1, <3>1, <3>4 DEF TwiInv, TwiTypes, PeerTypes
  <2>2. CASE peer.addressed # "R"
    BY <2>2 DEF Twi!TwiReceive, TwiInv, TwiTypes, PeerTypes
  <2> QED
    BY <2>1, <2>2
<1>4. TwiTypes'
  BY <1>2, <1>3, BusKeepsTypes
<1>5. CASE m.state = "MASTER_RX"
  <2>1. /\ MasterReceives /\ peer.addressed = "R"
        /\ (twea <=> m.recvIndex < twiCall.n - 1)
        /\ m.recvIndex < BufferSize
        /\ m.recvIndex = 0 \/ m.recvIndex < twiCall.n
        /\ peer.gave = SubSeq(m.recvData, 1, m.recvIndex)
    BY <1>1, <1>2, <1>5 DEF MasterInv, MasterReceives, BeforeAddress,
                            Addressing, Told, Reported
  <2>2. MasterReceives'
    BY <1>2, <1>3, <2>1, Zenon DEF MasterReceives, Reported
  <2> QED
    BY <1>1, <1>4, <1>5, <2>2 DEF TwiInv, MasterInv
<1>6. CASE m.state # "MASTER_RX"
  <2>1. m.state = "IDLE" /\ ~twie
    BY <1>1, <1>2, <1>6 DEF MasterInv, MasterRests, MasterSends,
                            BeforeAddress, Addressing, Told, Reported
  <2>2. NiStores /\ (peer.present => peer.gave = twiCall.in)
    BY <1>1, <1>2, <2>1 DEF MasterInv, NiStarts, NiSends, NiReads, NiStores,
                            NiEnds, BeforeAddress, Addressing, Told, Reported
  <2>3. NiStores'
    BY <1>2, <1>3, <2>2 DEF NiStores, Arrived, Reported
  <2> QED
    BY <1>1, <1>2, <1>4, <2>1, <2>3 DEF TwiInv, MasterInv
<1> QED
  BY <1>5, <1>6

LEMMA TwiStopKeeps ==
  ASSUME TwiInv, Twi!TwiStop, UNCHANGED <<m, twiCall, role>>
  PROVE  TwiInv'
<1> USE DEF Twi!TwiStop
<1>1. role = "master" /\ MasterInv
  BY CommandIsMasters
<1>2. /\ PeerTypes' /\ peer'.got = peer.got /\ peer'.gave = peer.gave
      /\ peer'.present = peer.present /\ peer'.refused = peer.refused
  BY DEF TwiInv, TwiTypes, PeerTypes
<1>3. TwiTypes'
  BY <1>2, BusKeepsTypes
<1>4. m.state = "IDLE" /\ (IF twie THEN MasterRests ELSE NiEnds)
  BY <1>1 DEF MasterInv, MasterSends, MasterReceives, NiStarts, NiSends,
              NiReads, NiStores, BeforeAddress, Addressing, Told, Reported
<1>5. IF twie THEN MasterRests' ELSE NiEnds'
  BY <1>2, <1>4 DEF MasterRests, NiEnds, Arrived
<1> QED
  BY <1>1, <1>3, <1>4, <1>5 DEF TwiInv, MasterInv

LEMMA TwiKeeps ==
  ASSUME TwiInv, Twi!Twi
  PROVE  TwiInv'
  BY TwiStartKeeps, TwiAddressKeeps, TwiSendKeeps, TwiReceiveKeeps,
     TwiStopKeeps DEF Twi!Twi

LEMMA PeerAddressesKeeps ==
  ASSUME TwiInv, Twi!PeerAddresses
  PROVE  TwiInv'
<1>1. PICK rw \in {"W", "R"} :
        /\ Twi!Reports(IF rw = "W" THEN "SR_SLA_ACK" ELSE "ST_SLA_ACK")
        /\ peer' = [Twi!NoPeer EXCEPT !.addressed = rw, !.rw = rw]
  BY Zenon DEF Twi!PeerAddresses
<1>2. role = "slave" /\ SlaveInv /\ SlaveRests
  BY DEF Twi!PeerAddresses, TwiInv, SlaveInv, SlaveAddressed, SlaveReceives,
         SlaveTransmits, Told, Reported
<1>3. peer' = [addressed |-> rw, rw |-> rw, present |-> TRUE, got |-> <<>>,
               gave |-> <<>>, refused |-> FALSE, driving |-> FALSE]
  BY <1>1, Zenon DEF Twi!NoPeer
<1>4. PeerTypes'
  <2>1. <<>> \in Seq(TwiByte)
    OBVIOUS
  <2> QED
    BY <1>3, <2>1 DEF PeerTypes
<1>5. TwiTypes'
  BY <1>1, <1>4, BusKeepsTypes DEF Twi!PeerAddresses, Twi!Reports
<1>6. SlaveAddressed'
  <2>1. /\ m'.state = "IDLE" /\ command' = "none"
        /\ status' = IF rw = "W" THEN "SR_SLA_ACK" ELSE "ST_SLA_ACK"
    BY <1>1, <1>2 DEF SlaveRests, Twi!PeerAddresses, Twi!Reports
  <2>2. /\ peer'.addressed = rw /\ peer'.rw = rw /\ peer'.gave = <<>>
        /\ peer'.got = <<>>
    BY <1>3
  <2> QED
    BY <2>1, <2>2 DEF SlaveAddressed, Reported
<1> QED
  BY <1>1, <1>2, <1>5, <1>6 DEF TwiInv, SlaveInv, Twi!PeerAddresses,
                                Twi!Reports

LEMMA PeerSendsKeeps ==
  ASSUME TwiInv, Twi!PeerSends
  PROVE  TwiInv'
<1>1. /\ role = "slave" /\ command = "listen" /\ peer.addressed = "W"
      /\ Twi!Reports(IF twea THEN "SR_DATA_ACK" ELSE "SR_DATA_NACK")
      /\ UNCHANGED <<m, twiCall, role>>
  BY DEF Twi!PeerSends
<1>2. PICK b \in TwiByte :
        /\ twdr' = b
        /\ peer' = [peer EXCEPT !.addressed = IF twea THEN "W" ELSE "no",
                                !.refused = ~twea,
                                !.gave = IF twea THEN Append(@, b) ELSE @]
  BY Zenon DEF Twi!PeerSends
<1>3. /\ SlaveInv /\ SlaveReceives
      /\ (twea <=> m.recvIndex < BufferSize)
      /\ peer.gave = SubSeq(m.recvData, 1, m.recvIndex)
  BY <1>1 DEF TwiInv, SlaveInv, SlaveRests, SlaveAddressed, SlaveReceives,
              SlaveTransmits, Told, Reported
<1>4. /\ command' = "none" /\ UNCHANGED <<twea, twie>>
      /\ status' = IF twea THEN "SR_DATA_ACK" ELSE "SR_DATA_NACK"
  BY <1>1 DEF Twi!Reports
<1>5. PeerTypes'
  <2>1. Append(peer.gave, b) \in Seq(TwiByte) /\ twea \in BOOLEAN
    BY DEF TwiInv, TwiTypes, PeerTypes, FlagTypes
  <2> QED
    BY <1>2, <2>1, Zenon DEF TwiInv, TwiTypes, PeerTypes
<1>6. TwiTypes'
  BY <1>1, <1>4, <1>5, BusKeepsTypes
<1>7. SlaveReceives'
  <2>1. CASE twea
    BY <1>1, <1>2, <1>3, <1>4, <2>1, Zenon
       DEF SlaveReceives, Reported, TwiInv, TwiTypes, PeerTypes
  <2>2. CASE ~twea
    BY <1>1, <1>2, <1>3, <1>4, <2>2, Zenon
       DEF SlaveReceives, Reported, TwiInv, TwiTypes, PeerTypes
  <2> QED
    BY <2>1, <2>2
<1> QED
  BY <1>1, <1>3, <1>4, <1>6, <1>7 DEF TwiInv, SlaveInv

LEMMA PeerStopsKeeps ==
  ASSUME TwiInv, Twi!PeerStops
  PROVE  TwiInv'
<1> USE DEF Twi!PeerStops, Twi!Reports
<1>1. /\ role = "slave" /\ SlaveInv /\ SlaveReceives
      /\ peer.gave = SubSeq(m.recvData, 1, m.recvIndex)
  BY DEF TwiInv, SlaveInv, SlaveRests, SlaveAddressed, SlaveReceives,
         SlaveTransmits, Told, Reported
<1>2. PeerTypes' /\ peer'.addressed = "no" /\ peer'.rw = peer.rw
      /\ peer'.gave = peer.gave
  BY DEF TwiInv, TwiTypes, PeerTypes
<1>3. TwiTypes'
  BY <1>2, BusKeepsTypes
<1>4. SlaveReceives'
  BY <1>1, <1>2 DEF SlaveReceives, Reported
<1> QED
  BY <1>1, <1>3, <1>4 DEF TwiInv, SlaveInv

LEMMA PeerReadsKeeps ==
  ASSUME TwiInv, Twi!PeerReads
  PROVE  TwiInv'
<1>1. role = "slave" /\ command = "give" /\ UNCHANGED <<m, twdr, twiCall, role>>
  BY DEF Twi!PeerReads
<1>2. PICK ack \in BOOLEAN :
        /\ Twi!Reports(IF ~ack THEN "ST_DATA_NACK"
                       ELSE IF twea THEN "ST_DATA_ACK" ELSE "ST_LAST_DATA")
        /\ peer' = [peer EXCEPT !.got = Append(@, twdr),
                                !.addressed = IF ack /\ twea THEN @ ELSE "no"]
  BY Zenon DEF Twi!PeerReads
<1>3. /\ SlaveInv /\ SlaveTransmits /\ peer.addressed = "R"
      /\ m.sendIndex \in 1 .. Len(twiCall.out)
      /\ (twea <=> m.sendIndex < Len(twiCall.out))
      /\ twdr = twiCall.out[m.sendIndex]
      /\ peer.got = SubSeq(twiCall.out, 1, m.sendIndex - 1)
  BY <1>1 DEF TwiInv, SlaveInv, SlaveRests, SlaveAddressed, SlaveReceives,
              SlaveTransmits, Told, Reported
<1>4. /\ command' = "none" /\ UNCHANGED <<twea, twie>>
      /\ status' = IF ~ack THEN "ST_DATA_NACK"
                   ELSE IF twea THEN "ST_DATA_ACK" ELSE "ST_LAST_DATA"
  BY <1>2 DEF Twi!Reports
<1>5. twdr \in TwiByte
      /\ Append(peer.got, twdr) = SubSeq(twiCall.out, 1, m.sendIndex)
  <2>1. twiCall.out \in Seq(TwiByte)
    BY DEF TwiInv, TwiTypes, CallTypes
  <2>2. Append(SubSeq(twiCall.out, 1, m.sendIndex - 1),
               twiCall.out[m.sendIndex])
          = SubSeq(twiCall.out, 1, m.sendIndex)
    BY <1>3, <2>1, BeginningGrows
  <2>3. twdr \in TwiByte
    BY <1>3, <2>1
  <2> QED
    BY <1>3, <2>2, <2>3
<1>6. /\ PeerTypes' /\ peer'.got = SubSeq(twiCall.out, 1, m.sendIndex)
      /\ peer'.rw = peer.rw
      /\ peer'.addressed = IF ack /\ twea THEN "R" ELSE "no"
  <2>1. peer.got \in Seq(TwiByte)
    BY DEF TwiInv, TwiTypes, PeerTypes
  <2>2. twdr \in TwiByte
    BY <1>5
  <2>3. Append(peer.got, twdr) \in Seq(TwiByte)
    BY <2>1, <2>2
  <2> QED
    BY <1>2, <1>3, <1>5, <2>3, Zenon DEF TwiInv, TwiTypes, PeerTypes
<1>7. TwiTypes'
  BY <1>1, <1>4, <1>6, BusKeepsTypes
<1>8. SlaveTransmits'
  BY <1>1, <1>3, <1>4, <1>6 DEF SlaveTransmits, Reported
<1> QED
  BY <1>1, <1>3, <1>4, <1>7, <1>8 DEF TwiInv, SlaveInv

LEMMA TwiNextKeeps ==
  TwiInv /\ [Twi!I2cNext]_twiVars => TwiInv'
<1>1. ASSUME TwiInv, Twi!I2cNext PROVE TwiInv'
  BY <1>1, IsrKeeps, ContinueKeeps, TwiKeeps, CallsKeep, PeerAddressesKeeps,
     PeerSendsKeeps, PeerStopsKeeps, PeerReadsKeeps DEF Twi!I2cNext
<1>2. ASSUME TwiInv, UNCHANGED twiVars PROVE TwiInv'
  <2>1. UNCHANGED <<m, command, twea, twie, status, twdr, peer, twiCall, role>>
    BY <1>2 DEF twiVars
  <2>2. TwiTypes'
    BY <1>2, <2>1 DEF TwiInv, TwiTypes, RoutineTypes, PeerTypes, CallTypes,
                      FlagTypes
  <2>3. ASSUME role = "master" PROVE MasterInv'
    <3>1. MasterInv
      BY <1>2, <2>3 DEF TwiInv
    <3>2. MasterSends => MasterSends'
      BY <2>1 DEF MasterSends, BeforeAddress, Addressing, Told, Reported
    <3>3. MasterReceives => MasterReceives'
      BY <2>1, Zenon DEF MasterReceives, BeforeAddress, Addressing, Told, Reported
    <3>4. MasterRests => MasterRests'
      BY <2>1 DEF MasterRests, Arrived
    <3>5. NiStarts => NiStarts'
      BY <2>1 DEF NiStarts, BeforeAddress, Told, Reported
    <3>6. NiSends => NiSends'
      BY <2>1 DEF NiSends, Addressing, Listens, Arrived, Told, Reported
    <3>7. NiReads => NiReads'
      BY <2>1 DEF NiReads, BeforeAddress, Addressing, Arrived, Told, Reported
    <3>8. NiStores => NiStores'
      BY <2>1 DEF NiStores, Arrived, Told, Reported
    <3>9. NiEnds => NiEnds'
      BY <2>1 DEF NiEnds, Arrived
    <3> QED
      BY <2>1, <3>1, <3>2, <3>3, <3>4, <3>5, <3>6, <3>7, <3>8, <3>9
         DEF MasterInv
  <2>4. ASSUME role # "master" PROVE SlaveInv'
    <3>1. SlaveInv
      BY <1>2, <2>4 DEF TwiInv
    <3>2. SlaveRests => SlaveRests'
      BY <2>1 DEF SlaveRests
    <3>3. SlaveAddressed => SlaveAddressed'
      BY <2>1 DEF SlaveAddressed, Reported
    <3>4. SlaveReceives => SlaveReceives'
      BY <2>1, Zenon DEF SlaveReceives, Told, Reported
    <3>5. SlaveTransmits => SlaveTransmits'
      BY <2>1 DEF SlaveTransmits, Told, Reported
    <3> QED
      BY <2>1, <3>1, <3>2, <3>3, <3>4, <3>5 DEF SlaveInv
  <2> QED
    BY <2>1, <2>2, <2>3, <2>4 DEF TwiInv
<1> QED
  BY <1>1, <1>2

LEMMA TwiSteps ==
  [Next]_vars => part' = part /\ IF part = "i2c" THEN [Twi!I2cNext]_twiVars
                                 ELSE UNCHANGED twiVars
  BY DEF Next, vars

LEMMA TwiInvariant == Spec => [](part = "i2c" => TwiInv)
<1>1. Init => (part = "i2c" => TwiInv)
  BY TwiInit
<1>2. (part = "i2c" => TwiInv) /\ [Next]_vars => (part = "i2c" => TwiInv)'
  BY TwiSteps, TwiNextKeeps
<1> QED
  BY <1>1, <1>2, PTL DEF Spec

\* A message sent as master is received whole or was refused, a master reads
\* what the device sent, a slave gets what was sent to it and sends what its
\* handler gave, and a slave nobody talks to hears its address, whatever the
\* length of the buffers, of the messages, and by interrupt or by waiting
\* (hal/i2c.c).
THEOREM TransfersAreTrue == Spec => []TransfersAreFaithful
<1>1. (part = "i2c" => TwiInv) => TransfersAreFaithful
  <2> SUFFICES ASSUME part = "i2c", TwiInv
               PROVE  /\ Twi!MessagesArrive
                      /\ Twi!ReadsWhatWasSent
                      /\ Twi!SlaveIsFaithful
                      /\ Twi!HearsItsAddress
    BY DEF TransfersAreFaithful
  <2>1. CASE role = "master"
    <3>1. SubSeq(twiCall.out, 1, Len(twiCall.out)) = twiCall.out
      BY WholeBeginning DEF TwiInv, TwiTypes, CallTypes
    <3>2. Twi!MessagesArrive
      BY <2>1, <3>1, SMTT(40) DEF TwiInv, MasterInv, MasterSends, MasterReceives,
           MasterRests, NiStarts, NiSends, NiReads, NiStores, NiEnds,
           Arrived, Twi!MessagesArrive, Twi!Done
    <3>3. Twi!ReadsWhatWasSent
      BY <2>1 DEF TwiInv, MasterInv, MasterSends, MasterReceives,
           MasterRests, NiStarts, NiSends, NiReads, NiStores, NiEnds,
           Twi!ReadsWhatWasSent
    <3> QED
      BY <2>1, <3>2, <3>3 DEF Twi!SlaveIsFaithful, Twi!HearsItsAddress
  <2>2. CASE role # "master"
    <3>1. SlaveInv
      BY <2>2 DEF TwiInv
    <3>2. Twi!HearsItsAddress
      BY <3>1 DEF SlaveInv, SlaveRests, SlaveAddressed, SlaveReceives,
           SlaveTransmits, Told, Reported, Twi!HearsItsAddress, TwiInv,
           TwiTypes, PeerTypes
    <3>3. /\ m.state = "IDLE" /\ peer.rw = "W" /\ peer.addressed = "no"
             => twiCall.in = peer.gave
      BY <3>1 DEF SlaveInv, SlaveRests, SlaveAddressed, SlaveReceives,
           SlaveTransmits
    <3>4. peer.rw = "R" /\ m.state # "SLAVE_RX"
            => peer.got = SubSeq(twiCall.out, 1, Len(peer.got))
      <4>1. \A k \in 0 .. Len(twiCall.out) :
              Len(SubSeq(twiCall.out, 1, k)) = k
        BY Beginning DEF TwiInv, TwiTypes, CallTypes
      <4>2. CASE SlaveRests
        BY <4>2 DEF SlaveRests
      <4>3. CASE SlaveAddressed
        BY <4>3, EmptyBeginning DEF SlaveAddressed
      <4>4. CASE SlaveReceives
        BY <4>4 DEF SlaveReceives
      <4>5. CASE SlaveTransmits
        <5>1. m.sendIndex \in 0 .. Len(twiCall.out)
              /\ m.sendIndex - 1 \in 0 .. Len(twiCall.out)
          BY <4>5 DEF SlaveTransmits, TwiInv, TwiTypes, CallTypes
        <5> QED
          BY <4>1, <4>5, <5>1 DEF SlaveTransmits
      <4> QED
        BY <3>1, <4>2, <4>3, <4>4, <4>5 DEF SlaveInv
    <3> QED
      BY <2>2, <3>2, <3>3, <3>4 DEF Twi!MessagesArrive, Twi!ReadsWhatWasSent,
                                    Twi!SlaveIsFaithful
  <2> QED
    BY <2>1, <2>2
<1> QED
  BY <1>1, TwiInvariant, PTL
=============================================================================
