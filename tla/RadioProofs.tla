----------------------------- MODULE RadioProofs ----------------------------
(***************************************************************************)
(* Proofs about the radio (RadioLink, RadioText) and the socket of the     *)
(* simulator (Simulated) in Drivers, for any number of threads, packets of *)
(* any size, a chip of any depth and any velocities and questions.         *)
(***************************************************************************)
EXTENDS Drivers, SequenceTheorems, TLAPS

ReceivePcs == {"status", "clear", "drain", "payload"}
PrintPcs == {"idle", "send", "packet", "wait"}

\* What was printed so far, in the order it is sent.
Text == radSent \o Rad!Kept

RadTypes ==
  /\ Rad!TypeOK
  /\ radArrived \in 0 .. RadPackets
  /\ radPc \in [RadThread -> ReceivePcs \cup PrintPcs]
  /\ radPc[RadRf] \in ReceivePcs
  /\ \A t \in Rad!Sender : radPc[t] \in PrintPcs
  /\ radSent \in Seq(Rad!Sender)
  /\ radPc[RadRf] = "payload" => rx_fifo # <<>>
  /\ DOMAIN radHolder = {"rf"}

\* Whoever prints has the lock.
RadLocked == \A t \in Rad!Sender : radPc[t] # "idle" => radHolder["rf"] = t

\* A full payload is sent before another character is written to it.
RadCounted ==
  /\ (\A t \in Rad!Sender : radPc[t] \notin {"packet", "wait"})
       => rf_ch_count < PayloadSize
  /\ \A i \in 1 .. rf_ch_count : tx[i] \in Rad!Sender

\* Equal characters are neighbours; a thread that has not begun has none, and
\* those of a thread that has not ended are the last.
RadTogether ==
  /\ \A i, k \in 1 .. Len(Text) :
       i < k /\ Text[i] = Text[k] => \A j \in i .. k : Text[j] = Text[i]
  /\ \A t \in Rad!Sender :
       /\ printed[t] = 0 => \A i \in 1 .. Len(Text) : Text[i] # t
       /\ radPc[t] # "idle" => \A i, j \in 1 .. Len(Text) :
                                 i <= j /\ Text[i] = t => Text[j] = t

RadInv == RadTypes /\ RadLocked /\ RadCounted /\ RadTogether

-----------------------------------------------------------------------------

LEMMA RadConstants ==
  /\ RadRf \in RadThread /\ RadRf \notin Rad!Sender
  /\ Rad!Sender \subseteq RadThread /\ RadThread = Rad!Sender \cup {RadRf}
  /\ Nobody \notin RadThread
  /\ PayloadSize \in Nat \ {0} /\ FifoSize \in Nat \ {0}
  /\ RadPackets \in Nat /\ MaxChars \in Nat
BY DriversAssumption
   DEF Rad!NobodyAssumption, Rad!RadioLinkAssumption, Rad!Sender

\* What is in the payload, and with it the text, is a sequence of threads.
TextRight ==
  /\ Rad!Written = [i \in 1 .. rf_ch_count |-> tx[i]]
  /\ Rad!Written \in Seq(Rad!Sender) /\ Len(Rad!Written) = rf_ch_count
  /\ Rad!Kept \in Seq(Rad!Sender)
  /\ Text \in Seq(Rad!Sender)

LEMMA TextIsRight == RadTypes /\ RadCounted => TextRight
<1> SUFFICES ASSUME RadTypes, RadCounted PROVE TextRight
  OBVIOUS
<1>1. rf_ch_count \in 0 .. PayloadSize /\ PayloadSize \in Nat
  BY RadConstants DEF RadTypes, Rad!TypeOK
<1>2. {j \in 1 .. PayloadSize : j <= rf_ch_count} = 1 .. rf_ch_count
  BY <1>1
<1>3. Rad!Written = [i \in 1 .. rf_ch_count |-> tx[i]]
  BY <1>2 DEF Rad!Written
<1>4. Rad!Written \in [1 .. rf_ch_count -> Rad!Sender]
  BY <1>3 DEF RadCounted
<1>5. Rad!Written \in Seq(Rad!Sender) /\ Len(Rad!Written) = rf_ch_count
  BY <1>1, <1>3, <1>4
<1>6. Rad!Kept \in Seq(Rad!Sender)
  <2>1. <<>> \in Seq(Rad!Sender)
    BY EmptySeq
  <2> QED BY <1>5, <2>1 DEF Rad!Kept
<1>7. Text \in Seq(Rad!Sender)
  BY <1>6, ConcatProperties DEF Text, RadTypes
<1> QED BY <1>3, <1>5, <1>6, <1>7 DEF TextRight

LEMMA TextStaysRight == (RadTypes /\ RadCounted)' => TextRight'
BY TextIsRight, PTL

LEMMA RadInit == Rad!Init => RadInv
<1> SUFFICES ASSUME Rad!Init PROVE RadInv
  OBVIOUS
<1> USE RadConstants DEF Rad!Init
<1>1. RadTypes
  BY EmptySeq DEF RadTypes, Rad!TypeOK, ReceivePcs, PrintPcs, Rad!Sender
<1>2. RadLocked /\ RadCounted
  BY DEF RadLocked, RadCounted
<1>3. Rad!Written = <<>> /\ Rad!Kept = <<>>
  <2>1. Rad!Written \in Seq(Rad!Sender) /\ Len(Rad!Written) = 0
    BY <1>1, <1>2, TextIsRight DEF TextRight
  <2> QED BY <2>1, EmptySeq DEF Rad!Kept
<1>4. Text = <<>> /\ Len(Text) = 0
  BY <1>3, EmptySeq, ConcatEmptySeq DEF Text
<1> QED BY <1>1, <1>2, <1>4 DEF RadInv, RadTogether

\* A step that neither writes nor forgets a character keeps the text, as long
\* as nobody begins to print who has.
LEMMA SameTextKeeps ==
  ASSUME RadTogether, Text' = Text, printed' = printed,
         \A t \in Rad!Sender :
           radPc[t] = "idle" /\ radPc'[t] # "idle" => printed[t] = 0
  PROVE  RadTogether'
BY DEF RadTogether

\* The receive thread and the chip do not touch the text.
LEMMA ReceiverKeeps ==
  ASSUME RadInv, Rad!Arrive \/ Rad!Transmitted \/ Rad!RfStep
  PROVE  RadInv'
<1> USE RadConstants DEF RadInv
<1>1. /\ UNCHANGED <<radHalter, radHolder, tx, rf_ch_count, printed, radSent>>
      /\ \A t \in Rad!Sender : radPc'[t] = radPc[t]
  BY DEF RadTypes, Rad!Arrive, Rad!Transmitted, Rad!RfStep, Rad!RfStatus,
         Rad!RfClear, Rad!RfDrain, Rad!RfPayload, Rad!RfFlush, Rad!Goes,
         Rad!text
<1>2. /\ radPc' \in [RadThread -> ReceivePcs \cup PrintPcs]
      /\ radPc'[RadRf] \in ReceivePcs
  BY DEF RadTypes, Rad!Arrive, Rad!Transmitted, Rad!RfStep, Rad!RfStatus,
         Rad!RfClear, Rad!RfDrain, Rad!RfPayload, Rad!RfFlush, Rad!Goes,
         ReceivePcs, Rad!AfterPacket
<1>3. radio' = radio
  BY DEF Rad!Arrive, Rad!Transmitted, Rad!RfStep, Rad!RfStatus, Rad!RfClear,
         Rad!RfDrain, Rad!RfPayload, Rad!RfFlush, Rad!chip
<1>4. /\ rx_fifo' \in Seq(1 .. RadPackets) /\ Len(rx_fifo') <= FifoSize
      /\ radArrived' \in 0 .. RadPackets
      /\ radPc'[RadRf] = "payload" => rx_fifo' # <<>>
  <2> USE DEF RadTypes, Rad!TypeOK
  <2>1. CASE Rad!Arrive
    <3>1. /\ radArrived < RadPackets /\ Len(rx_fifo) < FifoSize
          /\ radArrived' = radArrived + 1 /\ radPc' = radPc
          /\ rx_fifo' = Append(rx_fifo, radArrived + 1)
      BY <2>1 DEF Rad!Arrive
    <3>2. radArrived + 1 \in 1 .. RadPackets
      BY <3>1
    <3>3. /\ rx_fifo' \in Seq(1 .. RadPackets) /\ rx_fifo' # <<>>
          /\ Len(rx_fifo') = Len(rx_fifo) + 1
      BY <3>1, <3>2, AppendProperties
    <3>4. Len(rx_fifo) \in Nat
      BY LenProperties
    <3> QED BY <3>1, <3>2, <3>3, <3>4
  <2>2. CASE Rad!Transmitted
    BY <2>2 DEF Rad!Transmitted, Rad!rxVars
  <2>3. CASE Rad!RfStatus \/ Rad!RfClear \/ Rad!RfDrain
    BY <2>3 DEF Rad!RfStatus, Rad!RfClear, Rad!RfDrain, Rad!Goes, Rad!rxVars
  <2>4. CASE Rad!RfPayload
    <3>1. rx_fifo # <<>> /\ rx_fifo' = Tail(rx_fifo)
      BY <2>4 DEF Rad!RfPayload, Rad!Goes
    <3>2. /\ rx_fifo' \in Seq(1 .. RadPackets)
          /\ Len(rx_fifo') = Len(rx_fifo) - 1
      BY <3>1, HeadTailProperties
    <3>3. radPc'[RadRf] = "drain" /\ radArrived' = radArrived
      BY <2>4 DEF Rad!RfPayload, Rad!Goes, Rad!AfterPacket
    <3> QED BY <3>2, <3>3, LenProperties
  <2>5. CASE Rad!RfFlush
    BY <2>5, EmptySeq DEF Rad!RfFlush, Rad!Goes
  <2> QED BY <2>1, <2>2, <2>3, <2>4, <2>5 DEF Rad!RfStep
<1>5. RadTypes'
  BY <1>1, <1>2, <1>3, <1>4 DEF RadTypes, Rad!TypeOK
<1>6. RadLocked' /\ RadCounted'
  BY <1>1 DEF RadLocked, RadCounted
<1>7. Text' = Text
  BY <1>1 DEF Text, Rad!Kept, Rad!Written
<1>8. RadTogether'
  BY <1>1, <1>7, SameTextKeeps
<1> QED BY <1>5, <1>6, <1>8

LEMMA PrintfKeeps ==
  ASSUME RadInv, NEW t \in Rad!Sender, Rad!Printf(t)
  PROVE  RadInv'
<1> USE RadConstants
    DEF RadInv, Rad!Printf, Rad!Goes, Rad!Takes, Rad!text, Rad!chip, Rad!rxVars
<1>1. RadTypes'
  BY DEF RadTypes, Rad!TypeOK, PrintPcs
<1>2. \A u \in Rad!Sender : radPc[u] = "idle"
  BY DEF RadTypes, RadLocked
<1>3. \A u \in Rad!Sender : radPc'[u] # "idle" => u = t
  BY <1>2 DEF RadTypes
<1>4. radPc'[t] = "send" /\ radHolder'["rf"] = t
  BY DEF RadTypes
<1>5. RadLocked'
  BY <1>3, <1>4 DEF RadLocked
<1>6. RadCounted'
  BY <1>2 DEF RadCounted
<1>7. /\ ~ \E u \in Rad!Sender : radPc[u] = "wait"
      /\ ~ \E u \in Rad!Sender : radPc'[u] = "wait"
  BY <1>2, <1>3, <1>4
<1>8. Text' = Text
  BY <1>7 DEF Text, Rad!Kept, Rad!Written
<1>9. RadTogether'
  BY <1>3, <1>8, SameTextKeeps
<1> QED BY <1>1, <1>5, <1>6, <1>9

LEMMA PrintEndsKeeps ==
  ASSUME RadInv, NEW t \in Rad!Sender, Rad!PrintEnds(t)
  PROVE  RadInv'
<1> USE RadConstants
    DEF RadInv, Rad!PrintEnds, Rad!Goes, Rad!Gives, Rad!text, Rad!chip,
        Rad!rxVars
<1>1. RadTypes'
  BY DEF RadTypes, Rad!TypeOK, PrintPcs
<1>2. \A u \in Rad!Sender : u # t => radPc[u] = "idle"
  BY DEF RadTypes, RadLocked
<1>3. \A u \in Rad!Sender : radPc'[u] = "idle"
  BY <1>2 DEF RadTypes
<1>4. RadLocked'
  BY <1>3 DEF RadLocked
<1>5. RadCounted'
  <2>1. \A u \in Rad!Sender : radPc[u] \notin {"packet", "wait"}
    BY <1>2
  <2> QED BY <2>1 DEF RadCounted
<1>6. /\ ~ \E u \in Rad!Sender : radPc[u] = "wait"
      /\ ~ \E u \in Rad!Sender : radPc'[u] = "wait"
  BY <1>2, <1>3
<1>7. Text' = Text
  BY <1>6 DEF Text, Rad!Kept, Rad!Written
<1>8. RadTogether'
  BY <1>3, <1>7, SameTextKeeps
<1> QED BY <1>1, <1>4, <1>5, <1>8

LEMMA SendPacketKeeps ==
  ASSUME RadInv, NEW t \in Rad!Sender, Rad!SendPacket(t)
  PROVE  RadInv'
<1> USE RadConstants
    DEF RadInv, Rad!SendPacket, Rad!Goes, Rad!rxVars
<1>1. TextRight
  BY TextIsRight
<1>2. radSent' = radSent \o Rad!Written /\ radSent' \in Seq(Rad!Sender)
  BY <1>1, ConcatProperties DEF RadTypes, TextRight
<1>3. RadTypes'
  BY <1>2 DEF RadTypes, Rad!TypeOK, PrintPcs
<1>4. \A u \in Rad!Sender : u # t => radPc[u] = "idle"
  BY DEF RadTypes, RadLocked
<1>5. radPc[t] = "packet" /\ radPc'[t] = "wait" /\ UNCHANGED radHolder
  BY DEF RadTypes
<1>6. \A u \in Rad!Sender : u # t => radPc'[u] = "idle"
  BY <1>4 DEF RadTypes
<1>7. RadLocked'
  BY <1>5, <1>6 DEF RadLocked
<1>8. RadCounted'
  BY <1>5 DEF RadCounted
<1>9. ~ \E u \in Rad!Sender : radPc[u] = "wait"
  BY <1>4, <1>5
<1>10. Text = radSent \o Rad!Written
  BY <1>9 DEF Text, Rad!Kept
<1>11. Rad!Kept' = <<>>
  BY <1>5 DEF Rad!Kept
<1>12. Text' = Text
  BY <1>2, <1>10, <1>11, ConcatEmptySeq DEF Text
<1>13. RadTogether'
  BY <1>4, <1>5, <1>6, <1>12, SameTextKeeps
<1> QED BY <1>3, <1>7, <1>8, <1>13

LEMMA SendEndsKeeps ==
  ASSUME RadInv, NEW t \in Rad!Sender, Rad!SendEnds(t)
  PROVE  RadInv'
<1> USE RadConstants
    DEF RadInv, Rad!SendEnds, Rad!Goes, Rad!rxVars
<1>1. RadTypes'
  BY DEF RadTypes, Rad!TypeOK, PrintPcs, Rad!ModeAfterwards
<1>2. \A u \in Rad!Sender : u # t => radPc[u] = "idle"
  BY DEF RadTypes, RadLocked
<1>3. radPc[t] = "wait" /\ radPc'[t] = "send" /\ UNCHANGED radHolder
  BY DEF RadTypes
<1>4. \A u \in Rad!Sender : u # t => radPc'[u] = "idle"
  BY <1>2 DEF RadTypes
<1>5. RadLocked'
  BY <1>3, <1>4 DEF RadLocked
<1>6. RadCounted'
  BY DEF RadCounted
<1>7. Rad!Kept = <<>>
  BY <1>3 DEF Rad!Kept
<1>8. Rad!Kept' = <<>>
  <2>1. Rad!Written' \in Seq(Rad!Sender) /\ Len(Rad!Written') = 0
    BY <1>1, <1>6, TextStaysRight DEF TextRight
  <2>2. Rad!Written' = <<>>
    BY <2>1, EmptySeq
  <2> QED BY <2>2 DEF Rad!Kept
<1>9. Text' = Text
  BY <1>7, <1>8 DEF Text
<1>10. RadTogether'
  BY <1>2, <1>3, <1>4, <1>9, SameTextKeeps
<1> QED BY <1>1, <1>5, <1>6, <1>10

LEMMA SendCharKeeps ==
  ASSUME RadInv, NEW t \in Rad!Sender, NEW newline \in BOOLEAN,
         Rad!SendChar(t, newline)
  PROVE  RadInv'
<1> USE RadConstants DEF RadInv, Rad!Goes, Rad!rxVars, Rad!chip
<1>1. /\ UNCHANGED <<radHalter, radHolder, radSent, radio, rx_fifo, radArrived>>
      /\ radPc[t] = "send" /\ radPc' = [radPc EXCEPT ![t] = radPc'[t]]
      /\ rf_ch_count' = rf_ch_count + 1
      /\ tx' = [tx EXCEPT ![rf_ch_count + 1] = t]
      /\ printed[t] < MaxChars
      /\ printed' = [printed EXCEPT ![t] = @ + 1]
  BY DEF RadTypes, Rad!SendChar
<1>2. radPc'[t] = IF rf_ch_count + 1 = PayloadSize \/ newline
                  THEN "packet" ELSE "send"
  BY DEF RadTypes, Rad!SendChar, Rad!Complete
<1>3. \A u \in Rad!Sender : u # t => radPc[u] = "idle" /\ radPc'[u] = "idle"
  BY <1>1 DEF RadTypes, RadLocked
<1>4. rf_ch_count \in 0 .. PayloadSize - 1
  <2>1. rf_ch_count < PayloadSize
    BY <1>1, <1>3 DEF RadCounted
  <2> QED BY <2>1 DEF RadTypes, Rad!TypeOK
<1>5. RadTypes'
  <2>1. /\ radPc' \in [RadThread -> ReceivePcs \cup PrintPcs]
        /\ radPc'[RadRf] = radPc[RadRf]
        /\ \A u \in Rad!Sender : radPc'[u] \in PrintPcs
    BY <1>1, <1>2, <1>3 DEF RadTypes, PrintPcs
  <2>2. tx' \in [1 .. PayloadSize -> Rad!Sender \cup {Nobody}]
    BY <1>1 DEF RadTypes, Rad!TypeOK
  <2>3. rf_ch_count' \in 0 .. PayloadSize
    BY <1>1, <1>4
  <2>4. printed' \in [Rad!Sender -> 0 .. MaxChars]
    BY <1>1 DEF RadTypes, Rad!TypeOK
  <2> QED BY <1>1, <2>1, <2>2, <2>3, <2>4 DEF RadTypes, Rad!TypeOK
<1>6. RadLocked'
  BY <1>1, <1>3 DEF RadLocked
<1>7. RadCounted'
  <2>1. (\A u \in Rad!Sender : radPc'[u] \notin {"packet", "wait"})
          => rf_ch_count' < PayloadSize
    BY <1>1, <1>2, <1>4
  <2>2. \A i \in 1 .. rf_ch_count' : tx'[i] \in Rad!Sender
    BY <1>1, <1>4 DEF RadCounted, RadTypes, Rad!TypeOK
  <2> QED BY <2>1, <2>2 DEF RadCounted
<1>8. TextRight /\ TextRight'
  BY <1>5, <1>7, TextIsRight, TextStaysRight
<1>9. Rad!Kept = Rad!Written /\ Rad!Kept' = Rad!Written'
  BY <1>1, <1>2, <1>3 DEF Rad!Kept
<1>10. Rad!Written' = Append(Rad!Written, t)
  <2>1. /\ Rad!Written \in Seq(Rad!Sender) /\ Len(Rad!Written) = rf_ch_count
        /\ Rad!Written' \in Seq(Rad!Sender)
        /\ Len(Rad!Written') = rf_ch_count + 1
    BY <1>1, <1>8 DEF TextRight
  <2>2. /\ Append(Rad!Written, t) \in Seq(Rad!Sender)
        /\ Len(Append(Rad!Written, t)) = rf_ch_count + 1
        /\ \A i \in 1 .. rf_ch_count + 1 :
             Append(Rad!Written, t)[i] = IF i = rf_ch_count + 1 THEN t
                                         ELSE Rad!Written[i]
    BY <2>1, AppendProperties
  <2>3. ASSUME NEW i \in 1 .. rf_ch_count + 1
        PROVE  Rad!Written'[i] = Append(Rad!Written, t)[i]
    <3>1. Rad!Written'[i] = tx'[i]
      BY <1>1, <1>8 DEF TextRight
    <3>2. CASE i = rf_ch_count + 1
      <4>1. tx'[i] = t
        BY <1>1, <1>4, <3>2 DEF RadTypes, Rad!TypeOK
      <4> QED BY <2>2, <3>1, <3>2, <4>1
    <3>3. CASE i # rf_ch_count + 1
      <4>1. i \in 1 .. rf_ch_count
        BY <1>4, <3>3
      <4>2. tx'[i] = tx[i]
        BY <1>1, <1>4, <3>3 DEF RadTypes, Rad!TypeOK
      <4>3. Rad!Written[i] = tx[i]
        BY <1>8, <4>1 DEF TextRight
      <4> QED BY <2>2, <3>1, <3>3, <4>2, <4>3
    <3> QED BY <3>2, <3>3
  <2> QED BY <2>1, <2>2, <2>3, SeqEqual
<1>11. /\ Text' = Append(Text, t) /\ Text \in Seq(Rad!Sender)
       /\ Len(Text) \in Nat /\ Len(Text') = Len(Text) + 1
       /\ \A i \in 1 .. Len(Text) : Text'[i] = Text[i]
       /\ Text'[Len(Text) + 1] = t
  <2>1. radSent' \o Append(Rad!Written, t)
          = Append(radSent \o Rad!Written, t)
    <3>1. /\ radSent \in Seq(Rad!Sender) /\ radSent' = radSent
          /\ Rad!Written \in Seq(Rad!Sender) /\ <<t>> \in Seq(Rad!Sender)
      BY <1>1, <1>8 DEF RadTypes, TextRight
    <3>2. Append(Rad!Written, t) = Rad!Written \o <<t>>
      BY <3>1, AppendIsConcat
    <3>3. radSent \o Rad!Written \in Seq(Rad!Sender)
      BY <3>1, ConcatProperties
    <3>4. Append(radSent \o Rad!Written, t) = (radSent \o Rad!Written) \o <<t>>
      BY <3>3, AppendIsConcat
    <3>5. (radSent \o Rad!Written) \o <<t>> = radSent \o (Rad!Written \o <<t>>)
      BY <3>1, ConcatAssociative
    <3> QED BY <3>1, <3>2, <3>4, <3>5
  <2>2. Text' = Append(Text, t) /\ Text \in Seq(Rad!Sender)
    BY <1>1, <1>8, <1>9, <1>10, <2>1 DEF Text, TextRight
  <2> QED BY <2>2, AppendProperties, LenProperties
<1>12. RadTogether'
  <2> DEFINE n == Len(Text)
  <2>1. n \in Nat
    BY <1>11
  <2>2. ASSUME NEW i \in 1 .. n, Text[i] = t, NEW j \in i .. n
        PROVE  Text[j] = t
    BY <1>1, <2>1, <2>2 DEF RadTogether
  <2>3. ASSUME NEW i \in 1 .. n + 1, NEW k \in 1 .. n + 1, i < k,
               Text'[i] = Text'[k], NEW j \in i .. k
        PROVE  Text'[j] = Text'[i]
    <3>1. CASE k \in 1 .. n
      BY <1>11, <2>1, <2>3, <3>1 DEF RadTogether
    <3>2. CASE k = n + 1
      <4>1. i \in 1 .. n /\ Text[i] = t
        BY <1>11, <2>1, <2>3, <3>2
      <4>2. CASE j = n + 1
        BY <1>11, <2>3, <3>2, <4>2
      <4>3. CASE j # n + 1
        <5>1. j \in i .. n
          BY <2>1, <3>2, <4>1, <4>3
        <5> QED BY <1>11, <2>1, <2>2, <4>1, <5>1
      <4> QED BY <4>2, <4>3
    <3> QED BY <2>1, <3>1, <3>2
  <2>4. ASSUME NEW u \in Rad!Sender, printed'[u] = 0, NEW i \in 1 .. n + 1
        PROVE  Text'[i] # u
    <3>1. u # t /\ printed[u] = 0
      BY <1>1, <2>4 DEF RadTypes, Rad!TypeOK
    <3> QED BY <1>11, <2>1, <3>1 DEF RadTogether
  <2>5. ASSUME NEW u \in Rad!Sender, radPc'[u] # "idle",
               NEW i \in 1 .. n + 1, NEW j \in 1 .. n + 1, i <= j,
               Text'[i] = u
        PROVE  Text'[j] = u
    <3>1. u = t
      BY <1>3, <2>5
    <3>2. CASE j = n + 1
      BY <1>11, <3>1, <3>2
    <3>3. CASE j # n + 1
      <4>1. i \in 1 .. n /\ j \in i .. n
        BY <2>1, <2>5, <3>3
      <4> QED BY <1>11, <2>1, <2>2, <2>5, <3>1, <4>1
    <3> QED BY <3>2, <3>3
  <2> QED BY <1>11, <2>3, <2>4, <2>5 DEF RadTogether
<1> QED BY <1>5, <1>6, <1>7, <1>12

LEMMA RadNextKeeps == RadInv /\ [Rad!Next]_radVars => RadInv'
<1> SUFFICES ASSUME RadInv, [Rad!Next]_radVars
             PROVE  RadInv'
  OBVIOUS
<1>1. CASE UNCHANGED radVars
  <2>1. RadTypes' /\ RadLocked' /\ RadCounted'
    BY <1>1 DEF radVars, RadInv, RadTypes, Rad!TypeOK, RadLocked, RadCounted
  <2>2. /\ Text' = Text /\ printed' = printed /\ radPc' = radPc
    BY <1>1 DEF radVars, Text, Rad!Kept, Rad!Written
  <2>3. RadTogether'
    BY <2>2, SameTextKeeps DEF RadInv
  <2> QED BY <2>1, <2>3 DEF RadInv
<1>2. CASE Rad!Arrive \/ Rad!Transmitted \/ Rad!RfStep
  BY <1>2, ReceiverKeeps
<1>3. ASSUME NEW t \in Rad!Sender,
             \/ Rad!Printf(t)
             \/ \E newline \in BOOLEAN : Rad!SendChar(t, newline)
             \/ Rad!SendPacket(t)
             \/ Rad!SendEnds(t)
             \/ Rad!PrintEnds(t)
      PROVE  RadInv'
  BY <1>3, PrintfKeeps, SendCharKeeps, SendPacketKeeps, SendEndsKeeps,
     PrintEndsKeeps
<1> QED BY <1>1, <1>2, <1>3 DEF Rad!Next

LEMMA RadSteps ==
  [Next]_vars =>
    part' = part /\ IF part = "radio" THEN [Rad!Next]_radVars
                                      ELSE UNCHANGED radVars
BY DEF Next, vars

LEMMA RadInvariant == Spec => [](part = "radio" => RadInv)
<1>1. Init => (part = "radio" => RadInv)
  BY RadInit DEF Init
<1>2. (part = "radio" => RadInv) /\ [Next]_vars
        => (part = "radio" => RadInv)'
  BY RadSteps, RadNextKeeps
<1> QED BY <1>1, <1>2, PTL DEF Spec

\* What a thread prints to the radio in one call goes out together and in
\* order, though every send lets other threads run.
THEOREM TextsStayTogether == Spec => []NotInterleaved
<1>1. (part = "radio" => RadInv) => NotInterleaved
  <2> SUFFICES ASSUME part = "radio", RadInv
               PROVE  Rad!NotInterleaved
    BY DEF NotInterleaved
  <2>1. Text \in Seq(Rad!Sender)
    BY TextIsRight DEF RadInv, TextRight
  <2>2. DOMAIN Text = 1 .. Len(Text)
    BY <2>1, LenProperties
  <2> QED BY <2>2 DEF RadInv, RadTogether, Rad!NotInterleaved, Text
<1> QED BY <1>1, RadInvariant, PTL

-----------------------------------------------------------------------------
(* RadioText: what rf_scanf() reads *)

ScanPcs == {"idle", "rf_recv", "seen", "loaded", "stored", "scanned"}

StrTypes ==
  /\ strHalter = Nobody
  /\ strHolder \in [{"rf"} -> StrThread \cup {Nobody}]
  /\ strPc \in [StrThread -> ScanPcs \cup {"copy"}]
  /\ strPc[StringThread] \in {"idle", "copy"}
  /\ \A t \in Str!Scanner : strPc[t] \in ScanPcs
  /\ rf_str_buf \in [1 .. StringSize + 1 -> Nat]
  /\ rf_str_buf[StringSize + 1] = 0
  /\ rf_buf_index \in 0 .. StringSize
  /\ arrived \in [1 .. StringSize -> Nat]
  /\ copied \in 0 .. StringSize
  /\ strIndex \in [StrThread -> 0 .. StringSize - 1]
  /\ strText \in Seq(Nat)
  /\ disturbed \in BOOLEAN

\* Who reads has the lock, and has seen that there is something to read.
StrLocked ==
  \A t \in Str!Scanner :
    /\ strPc[t] # "idle" => strHolder["rf"] = t
    /\ strPc[t] = "seen" => rf_buf_index < StringSize

\* What has been copied is the string that arrived.
StrCopied ==
  \A i \in 1 .. StringSize :
    i <= copied \/ strPc[StringThread] # "copy" => rf_str_buf[i] = arrived[i]

\* Nobody reads during the copy, and the index counts the characters read: it
\* is ahead by the one that rf_recv() is about to return.
Counted ==
  /\ \A t \in Str!Scanner :
       /\ strPc[t] \in {"seen", "loaded", "stored"}
            => strPc[StringThread] # "copy"
       /\ strPc[t] = "loaded" => strIndex[t] = rf_buf_index
       /\ strPc[t] = "stored" => /\ strIndex[t] + 1 = rf_buf_index
                                 /\ Len(strText) = strIndex[t]
  /\ (\A t \in Str!Scanner : strPc[t] # "stored")
       => Len(strText) = rf_buf_index
  /\ \A i \in 1 .. Len(strText) : strText[i] = arrived[i]

StrCounted == ~disturbed => Counted

StrInv == StrTypes /\ StrLocked /\ StrCopied /\ StrCounted
-----------------------------------------------------------------------------

LEMMA StrConstants ==
  /\ StringThread \in StrThread /\ StringThread \notin Str!Scanner
  /\ Str!Scanner \subseteq StrThread
  /\ StrThread = Str!Scanner \cup {StringThread}
  /\ Nobody \notin StrThread
  /\ StringSize \in Nat \ {0}
  /\ Strings \subseteq [1 .. StringSize -> Nat]
BY DriversAssumption
   DEF Str!NobodyAssumption, Str!RadioTextAssumption, Str!Scanner

LEMMA StrInit == Str!RadioTextInit
                 /\ strHalter = Nobody /\ strHolder = [l \in {"rf"} |-> Nobody]
                 /\ strPc = [t \in StrThread |-> "idle"] => StrInv
<1> SUFFICES ASSUME Str!RadioTextInit, strHalter = Nobody,
                    strHolder = [l \in {"rf"} |-> Nobody],
                    strPc = [t \in StrThread |-> "idle"]
             PROVE  StrInv
  OBVIOUS
<1> USE StrConstants DEF Str!RadioTextInit, Str!Null
<1>1. StrTypes
  <2>1. /\ strPc \in [StrThread -> ScanPcs \cup {"copy"}]
        /\ strPc[StringThread] = "idle"
        /\ \A t \in Str!Scanner : strPc[t] = "idle"
    BY DEF ScanPcs
  <2>2. \A t \in Str!Scanner : strPc[t] \in ScanPcs
    BY <2>1 DEF ScanPcs
  <2>3. /\ rf_str_buf \in [1 .. StringSize + 1 -> Nat]
        /\ rf_str_buf[StringSize + 1] = 0
        /\ arrived \in [1 .. StringSize -> Nat]
        /\ strIndex \in [StrThread -> 0 .. StringSize - 1]
    OBVIOUS
  <2>4. strHolder \in [{"rf"} -> StrThread \cup {Nobody}]
    OBVIOUS
  <2>5. rf_buf_index \in 0 .. StringSize /\ copied \in 0 .. StringSize
    OBVIOUS
  <2>6. strText \in Seq(Nat) /\ disturbed \in BOOLEAN
    BY EmptySeq
  <2> QED BY <2>1, <2>2, <2>3, <2>4, <2>5, <2>6 DEF StrTypes
<1>2. StrLocked /\ StrCopied
  BY DEF StrLocked, StrCopied
<1>3. Len(strText) = 0
  BY EmptySeq
<1>4. Counted
  BY <1>3 DEF Counted
<1> QED BY <1>1, <1>2, <1>4 DEF StrInv, StrCounted

LEMMA StringArrivesKeeps ==
  ASSUME StrInv, NEW s \in Strings, Str!StringArrives(s)
  PROVE  StrInv'
<1> USE StrConstants DEF StrInv, Str!StringArrives, Str!Goes, Str!IndexBack
<1>1. /\ UNCHANGED <<strHalter, strHolder, rf_str_buf, strIndex>>
      /\ strPc[StringThread] = "idle" /\ strPc'[StringThread] = "copy"
      /\ \A t \in Str!Scanner : strPc'[t] = strPc[t]
      /\ rf_buf_index' = 0 /\ copied' = 0 /\ arrived' = s
      /\ strText' = <<>> /\ strText' \in Seq(Nat) /\ Len(strText') = 0
  BY EmptySeq DEF StrTypes
<1>2. strPc' \in [StrThread -> ScanPcs \cup {"copy"}]
  BY DEF StrTypes
<1>3. disturbed' \in BOOLEAN
  OBVIOUS
<1>4. StrTypes'
  <2>1. /\ strHalter' = Nobody
        /\ strHolder' \in [{"rf"} -> StrThread \cup {Nobody}]
    BY <1>1 DEF StrTypes
  <2>2. /\ strPc'[StringThread] \in {"idle", "copy"}
        /\ \A t \in Str!Scanner : strPc'[t] \in ScanPcs
    BY <1>1 DEF StrTypes
  <2>3. /\ rf_str_buf' \in [1 .. StringSize + 1 -> Nat]
        /\ rf_str_buf'[StringSize + 1] = 0
    BY <1>1 DEF StrTypes
  <2>4. strIndex' \in [StrThread -> 0 .. StringSize - 1]
    BY <1>1 DEF StrTypes
  <2>5. arrived' \in [1 .. StringSize -> Nat]
    BY <1>1
  <2>6. rf_buf_index' \in 0 .. StringSize /\ copied' \in 0 .. StringSize
    BY <1>1
  <2> QED
    BY <1>1, <1>2, <1>3, <2>1, <2>2, <2>3, <2>4, <2>5, <2>6 DEF StrTypes
<1>5. StrLocked' /\ StrCopied'
  BY <1>1 DEF StrLocked, StrCopied
<1>6. ~disturbed' => \A t \in Str!Scanner :
                       strPc[t] \notin {"seen", "loaded", "stored"}
  BY DEF Str!Receiving
<1>7. StrCounted'
  BY <1>1, <1>6 DEF StrCounted, Counted
<1> QED BY <1>4, <1>5, <1>7

LEMMA CopyCharacterKeeps ==
  ASSUME StrInv, Str!CopyCharacter
  PROVE  StrInv'
<1> USE StrConstants DEF StrInv, Str!CopyCharacter, Str!Copying
<1>1. /\ UNCHANGED <<strHalter, strHolder, strPc, rf_buf_index, arrived,
                     strIndex, strText, disturbed>>
      /\ strPc[StringThread] = "copy"
      /\ copied \in 0 .. StringSize - 1 /\ copied' = copied + 1
      /\ rf_str_buf' = [rf_str_buf EXCEPT ![copied + 1] = arrived[copied + 1]]
  BY DEF StrTypes
<1>2. StrTypes'
  <2>1. /\ rf_str_buf' \in [1 .. StringSize + 1 -> Nat]
        /\ rf_str_buf'[StringSize + 1] = 0
    <3>1. /\ copied + 1 \in 1 .. StringSize + 1 /\ copied + 1 # StringSize + 1
          /\ arrived[copied + 1] \in Nat
      BY <1>1 DEF StrTypes
    <3> QED
      BY <1>1, <3>1, SMTT(40) DEF StrTypes
  <2>2. copied' \in 0 .. StringSize
    BY <1>1
  <2> QED
    BY <1>1, <2>1, <2>2 DEF StrTypes
<1>3. StrCopied'
  BY <1>1, SMTT(40) DEF StrTypes, StrCopied
<1>4. StrLocked' /\ StrCounted'
  BY <1>1 DEF StrLocked, StrCounted, Counted
<1> QED BY <1>2, <1>3, <1>4

LEMMA EndCopyKeeps ==
  ASSUME StrInv, Str!EndCopy
  PROVE  StrInv'
<1> USE StrConstants DEF StrInv, Str!EndCopy, Str!Goes, Str!textVars
<1>1. /\ UNCHANGED <<strHalter, strHolder, rf_str_buf, rf_buf_index, arrived,
                     copied, strIndex, strText, disturbed>>
      /\ copied = StringSize /\ strPc'[StringThread] = "idle"
      /\ \A t \in Str!Scanner : strPc'[t] = strPc[t]
  BY DEF StrTypes
<1>2. StrTypes'
  <2>1. strPc' \in [StrThread -> ScanPcs \cup {"copy"}]
    BY DEF StrTypes, ScanPcs
  <2> QED BY <1>1, <2>1 DEF StrTypes
<1>3. StrCopied'
  BY <1>1 DEF StrCopied
<1>4. StrLocked' /\ StrCounted'
  BY <1>1 DEF StrLocked, StrCounted, Counted
<1> QED BY <1>2, <1>3, <1>4

\* A thread that reads is the only one.
LEMMA OneScanner ==
  ASSUME StrInv, NEW t \in Str!Scanner, strPc[t] # "idle"
  PROVE  \A u \in Str!Scanner : u # t => strPc[u] = "idle"
BY DEF StrInv, StrLocked

\* A step of a reader keeps where the threads are.
LEMMA ReaderGoes ==
  ASSUME StrTypes, NEW t \in Str!Scanner, NEW to \in ScanPcs,
         strPc' = [strPc EXCEPT ![t] = to]
  PROVE  /\ strPc' \in [StrThread -> ScanPcs \cup {"copy"}]
         /\ strPc'[StringThread] = strPc[StringThread]
         /\ \A u \in Str!Scanner : strPc'[u] \in ScanPcs
<1> USE StrConstants DEF StrTypes
<1>1. strPc' \in [StrThread -> ScanPcs \cup {"copy"}]
  OBVIOUS
<1>2. \A u \in StrThread : strPc'[u] = IF u = t THEN to ELSE strPc[u]
  OBVIOUS
<1> QED BY <1>1, <1>2

LEMMA ScanKeeps ==
  ASSUME StrInv, NEW t \in Str!Scanner, Str!rf_scanf(t) \/ Str!EndRfScan(t)
  PROVE  StrInv'
<1> USE StrConstants
    DEF StrInv, Str!rf_scanf, Str!EndRfScan, Str!Goes, Str!Takes, Str!Gives,
        Str!textVars
<1>1. /\ UNCHANGED <<strHalter, rf_str_buf, rf_buf_index, arrived, copied,
                     strIndex, strText, disturbed>>
      /\ strPc[t] \in {"idle", "scanned"}
      /\ strPc'[StringThread] = strPc[StringThread]
      /\ \A u \in Str!Scanner : u # t => strPc'[u] = strPc[u]
  BY DEF StrTypes
<1>2. StrTypes' /\ strPc'[t] \in {"idle", "rf_recv"}
  <2>1. PICK to \in {"idle", "rf_recv"} : strPc' = [strPc EXCEPT ![t] = to]
    OBVIOUS
  <2>2. to \in ScanPcs /\ strPc'[t] = to
    BY <2>1 DEF ScanPcs, StrTypes
  <2>3. strHolder' \in [{"rf"} -> StrThread \cup {Nobody}]
    BY DEF StrTypes
  <2> QED BY <1>1, <2>1, <2>2, <2>3, ReaderGoes DEF StrTypes
<1>3. StrLocked'
  <2>1. CASE Str!rf_scanf(t)
    <3>1. \A u \in Str!Scanner : strPc[u] = "idle"
      BY <2>1, Zenon DEF StrLocked
    <3>2. strHolder'["rf"] = t
      BY <2>1 DEF StrTypes
    <3> QED BY <1>1, <1>2, <3>1, <3>2 DEF StrLocked
  <2>2. CASE Str!EndRfScan(t)
    <3>1. \A u \in Str!Scanner : strPc'[u] = "idle"
      BY <1>1, <2>2, OneScanner DEF StrTypes
    <3> QED BY <3>1 DEF StrLocked
  <2> QED BY <2>1, <2>2
<1>4. StrCopied'
  BY <1>1 DEF StrCopied
<1>5. ASSUME Counted PROVE Counted'
  <2>1. (\A u \in Str!Scanner : strPc'[u] # "stored")
          => \A u \in Str!Scanner : strPc[u] # "stored"
    BY <1>1
  <2> QED BY <1>1, <1>2, <1>5, <2>1 DEF Counted
<1>6. StrCounted'
  BY <1>1, <1>5 DEF StrCounted
<1> QED BY <1>2, <1>3, <1>4, <1>6

LEMMA SeeCharacterKeeps ==
  ASSUME StrInv, NEW t \in Str!Scanner, Str!SeeCharacter(t)
  PROVE  StrInv'
<1> USE StrConstants DEF StrInv, Str!SeeCharacter, Str!Goes
<1>1. /\ UNCHANGED <<strHalter, strHolder, rf_str_buf, rf_buf_index, arrived,
                     copied, strIndex, strText>>
      /\ strPc[t] = "rf_recv" /\ strPc'[t] = "seen"
      /\ strPc' = [strPc EXCEPT ![t] = "seen"]
      /\ strPc'[StringThread] = strPc[StringThread]
      /\ \A u \in Str!Scanner : u # t => strPc'[u] = strPc[u]
  BY DEF StrTypes
<1>2. rf_buf_index < StringSize
  BY DEF StrTypes, Str!rf_has_char
<1>3. ~disturbed' => ~disturbed /\ strPc[StringThread] # "copy"
  BY DEF Str!Copying
<1>4. disturbed' \in BOOLEAN
  OBVIOUS
<1>5. StrTypes'
  <2>1. "seen" \in ScanPcs
    BY DEF ScanPcs
  <2> QED BY <1>1, <1>4, <2>1, ReaderGoes, ZenonT(60) DEF StrTypes
<1>6. StrLocked' /\ StrCopied'
  BY <1>1, <1>2, Zenon DEF StrLocked, StrCopied
<1>7. ASSUME Counted, strPc[StringThread] # "copy" PROVE Counted'
  <2>1. \A u \in Str!Scanner : u # t => strPc'[u] = "idle"
    BY <1>1, OneScanner
  <2>2. \A u \in Str!Scanner : strPc[u] # "stored"
    BY <1>1, OneScanner
  <2> QED BY <1>1, <1>7, <2>1, <2>2 DEF Counted
<1>8. StrCounted'
  BY <1>3, <1>7 DEF StrCounted
<1> QED BY <1>5, <1>6, <1>8

LEMMA LoadIndexKeeps ==
  ASSUME StrInv, NEW t \in Str!Scanner, Str!LoadIndex(t)
  PROVE  StrInv'
<1> USE StrConstants DEF StrInv, Str!LoadIndex, Str!Goes
<1>1. /\ UNCHANGED <<strHalter, strHolder, rf_str_buf, rf_buf_index, arrived,
                     copied, strText, disturbed>>
      /\ strPc[t] = "seen" /\ strPc'[t] = "loaded"
      /\ strPc' = [strPc EXCEPT ![t] = "loaded"]
      /\ strPc'[StringThread] = strPc[StringThread]
      /\ \A u \in Str!Scanner : u # t => strPc'[u] = strPc[u]
      /\ strIndex' = [strIndex EXCEPT ![t] = rf_buf_index]
      /\ strIndex'[t] = rf_buf_index
  BY DEF StrTypes
<1>2. rf_buf_index \in 0 .. StringSize - 1
  BY <1>1 DEF StrTypes, StrLocked
<1>3. StrTypes'
  <2>1. "loaded" \in ScanPcs
    BY DEF ScanPcs
  <2>2. /\ strPc' \in [StrThread -> ScanPcs \cup {"copy"}]
        /\ strPc'[StringThread] \in {"idle", "copy"}
        /\ \A u \in Str!Scanner : strPc'[u] \in ScanPcs
    <3>1. strPc' = [strPc EXCEPT ![t] = "loaded"] /\ StrTypes
      BY <1>1
    <3>2. /\ strPc' \in [StrThread -> ScanPcs \cup {"copy"}]
          /\ strPc'[StringThread] = strPc[StringThread]
          /\ \A u \in Str!Scanner : strPc'[u] \in ScanPcs
      BY <2>1, <3>1, ReaderGoes
    <3> QED BY <3>1, <3>2 DEF StrTypes
  <2>3. strIndex' \in [StrThread -> 0 .. StringSize - 1]
    BY <1>1, <1>2, SMTT(40) DEF StrTypes
  <2> QED BY <1>1, <2>2, <2>3, ZenonT(60) DEF StrTypes
<1>4. StrLocked' /\ StrCopied'
  BY <1>1 DEF StrLocked, StrCopied
<1>5. ASSUME Counted PROVE Counted'
  <2>1. \A u \in Str!Scanner : u # t => strPc'[u] = "idle"
    BY <1>1, OneScanner
  <2>2. \A u \in Str!Scanner : strPc[u] # "stored"
    BY <1>1, OneScanner
  <2> QED BY <1>1, <1>5, <2>1, <2>2 DEF Counted
<1>6. StrCounted'
  BY <1>1, <1>5 DEF StrCounted
<1> QED BY <1>3, <1>4, <1>6

LEMMA StoreIndexKeeps ==
  ASSUME StrInv, NEW t \in Str!Scanner, Str!StoreIndex(t)
  PROVE  StrInv'
<1> USE StrConstants DEF StrInv, Str!StoreIndex, Str!Goes
<1>1. /\ UNCHANGED <<strHalter, strHolder, rf_str_buf, arrived, copied,
                     strIndex, strText, disturbed>>
      /\ strPc[t] = "loaded" /\ strPc'[t] = "stored"
      /\ strPc' = [strPc EXCEPT ![t] = "stored"]
      /\ strPc'[StringThread] = strPc[StringThread]
      /\ \A u \in Str!Scanner : u # t => strPc'[u] = strPc[u]
      /\ rf_buf_index' = strIndex[t] + 1
      /\ strIndex[t] \in 0 .. StringSize - 1
  BY DEF StrTypes
<1>2. StrTypes'
  <2>1. "stored" \in ScanPcs
    BY DEF ScanPcs
  <2>2. /\ strPc' \in [StrThread -> ScanPcs \cup {"copy"}]
        /\ strPc'[StringThread] \in {"idle", "copy"}
        /\ \A u \in Str!Scanner : strPc'[u] \in ScanPcs
    BY <1>1, <2>1, ReaderGoes, ZenonT(60) DEF StrTypes
  <2>3. rf_buf_index' \in 0 .. StringSize
    BY <1>1
  <2> QED BY <1>1, <2>2, <2>3 DEF StrTypes
<1>3. \A u \in Str!Scanner : u # t => strPc[u] = "idle" /\ strPc'[u] = "idle"
  BY <1>1, OneScanner
<1>4. StrLocked' /\ StrCopied'
  BY <1>1, <1>3 DEF StrLocked, StrCopied
<1>5. ASSUME Counted PROVE Counted'
  <2>1. \A u \in Str!Scanner : strPc[u] # "stored"
    BY <1>1, <1>3
  <2>2. Len(strText) = strIndex[t]
    BY <1>1, <1>5, <2>1 DEF Counted
  <2> QED BY <1>1, <1>3, <1>5, <2>2 DEF Counted
<1>6. StrCounted'
  BY <1>1, <1>5 DEF StrCounted
<1> QED BY <1>2, <1>4, <1>6

LEMMA TakeCharacterKeeps ==
  ASSUME StrInv, NEW t \in Str!Scanner, Str!TakeCharacter(t)
  PROVE  StrInv'
<1> USE StrConstants DEF StrInv, Str!TakeCharacter, Str!Goes
<1> DEFINE char == rf_str_buf[strIndex[t] + 1]
<1>1. /\ UNCHANGED <<strHalter, strHolder, rf_str_buf, rf_buf_index, arrived,
                     copied, strIndex, disturbed>>
      /\ strPc[t] = "stored" /\ strPc'[t] \in {"rf_recv", "scanned"}
      /\ strPc' = [strPc EXCEPT ![t] = strPc'[t]]
      /\ strPc'[StringThread] = strPc[StringThread]
      /\ \A u \in Str!Scanner : u # t => strPc'[u] = strPc[u]
      /\ strIndex[t] \in 0 .. StringSize - 1
      /\ strText' = Append(strText, char)
  BY DEF StrTypes
<1>2. char \in Nat
  BY <1>1, SMTT(40) DEF StrTypes
<1>3. /\ strText' \in Seq(Nat) /\ Len(strText) \in Nat
      /\ Len(strText') = Len(strText) + 1
      /\ \A i \in 1 .. Len(strText) : strText'[i] = strText[i]
      /\ strText'[Len(strText) + 1] = char
  BY <1>1, <1>2, AppendProperties, LenProperties DEF StrTypes
<1> HIDE DEF char
<1>4. StrTypes'
  <2>1. strPc'[t] \in ScanPcs
    BY <1>1 DEF ScanPcs
  <2>2. /\ strPc' \in [StrThread -> ScanPcs \cup {"copy"}]
        /\ strPc'[StringThread] \in {"idle", "copy"}
        /\ \A u \in Str!Scanner : strPc'[u] \in ScanPcs
    BY <1>1, <2>1, ReaderGoes, ZenonT(60) DEF StrTypes
  <2> QED BY <1>1, <1>3, <2>2, ZenonT(60) DEF StrTypes
<1>5. \A u \in Str!Scanner : u # t => strPc[u] = "idle" /\ strPc'[u] = "idle"
  BY <1>1, OneScanner
<1>6. StrLocked' /\ StrCopied'
  BY <1>1, <1>5 DEF StrLocked, StrCopied
<1>7. ASSUME Counted PROVE Counted'
  <2>1. /\ strIndex[t] + 1 = rf_buf_index /\ Len(strText) = strIndex[t]
        /\ strPc[StringThread] # "copy"
    BY <1>1, <1>7 DEF Counted
  <2>2. strText'[Len(strText) + 1] = arrived[Len(strText) + 1]
    <3>1. rf_str_buf[strIndex[t] + 1] = arrived[strIndex[t] + 1]
      BY <1>1, <2>1 DEF StrCopied
    <3> QED BY <1>3, <2>1, <3>1 DEF char
  <2>3. \A i \in 1 .. Len(strText') : strText'[i] = arrived[i]
    BY <1>3, <1>7, <2>2 DEF Counted
  <2>4. Len(strText') = rf_buf_index
    BY <1>3, <2>1
  <2> QED BY <1>1, <1>5, <2>3, <2>4 DEF Counted
<1>8. StrCounted'
  BY <1>1, <1>7 DEF StrCounted
<1> QED BY <1>4, <1>6, <1>8

LEMMA StrNextKeeps == StrInv /\ [Str!RadioTextNext]_strVars => StrInv'
<1> SUFFICES ASSUME StrInv, [Str!RadioTextNext]_strVars
             PROVE  StrInv'
  OBVIOUS
<1>1. CASE UNCHANGED strVars
  BY <1>1 DEF strVars, StrInv, StrTypes, StrLocked, StrCopied, StrCounted,
              Counted
<1>2. CASE \/ \E s \in Strings : Str!StringArrives(s)
           \/ Str!CopyCharacter
           \/ Str!EndCopy
  BY <1>2, StringArrivesKeeps, CopyCharacterKeeps, EndCopyKeeps
<1>3. ASSUME NEW t \in Str!Scanner,
             \/ Str!rf_scanf(t) \/ Str!SeeCharacter(t)
             \/ Str!LoadIndex(t) \/ Str!StoreIndex(t)
             \/ Str!TakeCharacter(t) \/ Str!EndRfScan(t)
      PROVE  StrInv'
  BY <1>3, ScanKeeps, SeeCharacterKeeps, LoadIndexKeeps, StoreIndexKeeps,
     TakeCharacterKeeps
<1> QED BY <1>1, <1>2, <1>3 DEF Str!RadioTextNext

LEMMA StrSteps ==
  [Next]_vars =>
    part' = part /\ IF part = "strings" THEN [Str!RadioTextNext]_strVars
                                        ELSE UNCHANGED strVars
BY DEF Next, vars

LEMMA StrInvariant == Spec => [](part = "strings" => StrInv)
<1>1. Init => (part = "strings" => StrInv)
  BY StrInit DEF Init
<1>2. (part = "strings" => StrInv) /\ [Next]_vars
        => (part = "strings" => StrInv)'
  BY StrSteps, StrNextKeeps
<1> QED BY <1>1, <1>2, PTL DEF Spec

\* The scans of whichever threads read the characters of the referee's string
\* in order, unless rf_recv() and the copy of a packet met: the lock keeps
\* readers apart, and nothing keeps them from the receive thread.
THEOREM StringsAreRead == Spec => []ReadsTheString
<1>1. (part = "strings" => StrInv) => ReadsTheString
  <2> SUFFICES ASSUME part = "strings", StrInv, ~disturbed
               PROVE  /\ Len(strText) <= StringSize
                      /\ \A i \in 1 .. Len(strText) : strText[i] = arrived[i]
    BY DEF ReadsTheString, Str!ReadsTheString
  <2>1. Counted /\ StringSize \in Nat /\ rf_buf_index \in 0 .. StringSize
    BY StrConstants DEF StrInv, StrCounted, StrTypes
  <2>2. CASE \A t \in Str!Scanner : strPc[t] # "stored"
    BY <2>1, <2>2 DEF Counted
  <2>3. ASSUME NEW t \in Str!Scanner, strPc[t] = "stored"
        PROVE  Len(strText) <= StringSize
    <3>1. strIndex[t] \in 0 .. StringSize - 1
      BY StrConstants DEF StrInv, StrTypes
    <3> QED BY <2>1, <2>3, <3>1 DEF Counted
  <2> QED BY <2>1, <2>2, <2>3 DEF Counted
<1> QED BY <1>1, StrInvariant, PTL

-----------------------------------------------------------------------------
(* The simulated robot *)

Question == Sim!Questions \X {0}
Command == {"m"} \X SimVelocities
Reply == (Sim!Answers \cap Sim!Questions) \X Nat
Line == Question \cup Command \cup {Sim!Blank}

SimPcs == {"idle", "format", "write", "ask", "read", "scan", "unlock"}

SimThreadTypes ==
  /\ simPc \in [SimThread -> SimPcs]
  /\ DOMAIN simHolder = {"socket"}
  /\ simLine \in [SimThread -> Line]
  /\ simAnswer \in [SimThread -> Line \cup Reply]
  /\ simSince \in [SimThread -> Nat]

SocketTypes ==
  /\ socket_buffer \in Line \cup Reply
  /\ toServer \in Seq(Question \cup Command)
  /\ toClient \in Seq(Reply)
  /\ robotSteps \in Nat
  /\ simAsked \in Seq(SimVelocities) /\ obeyed \in Seq(SimVelocities)

SimTypes == SimThreadTypes /\ SocketTypes

\* Whoever uses the socket has its lock.
SimLocked == \A t \in SimThread : simPc[t] # "idle" => simHolder["socket"] = t

\* How many lines have been written more than velocities were asked for: one
\* less while a velocity is to be written, one more while a question is there.
Surplus == Len(obeyed) + Len(toServer) - Len(simAsked)

Own(t, reply) == reply[1] = simLine[t][1] /\ reply[2] >= simSince[t]

Stage(t) ==
  /\ simPc[t] \in {"format", "write"} =>
       /\ Surplus = -1 /\ toClient = <<>>
       /\ simLine[t] = <<"m", simAsked[Len(simAsked)]>>
  /\ simPc[t] = "write" => socket_buffer = simLine[t]
  /\ simPc[t] = "ask" =>
       Surplus = 0 /\ toClient = <<>> /\ simLine[t] \in Question
  /\ simPc[t] = "read" =>
       /\ simLine[t] \in Question /\ simSince[t] <= robotSteps
       /\ \/ /\ Surplus = 1 /\ toClient = <<>>
             /\ toServer[Len(toServer)] = simLine[t]
          \/ /\ Surplus = 0 /\ toServer = <<>>
             /\ \/ toClient = <<>>
                \/ Len(toClient) = 1 /\ Own(t, toClient[1])
  /\ simPc[t] = "scan" =>
       Surplus = 0 /\ toClient = <<>> /\ Own(t, socket_buffer)
  /\ simPc[t] = "unlock" =>
       /\ Surplus = 0 /\ toClient = <<>>
       /\ simLine[t][1] = "m" \/ Own(t, simAnswer[t])

AllIdle == \A t \in SimThread : simPc[t] = "idle"

\* The lines on their way: first the velocities, in order, then a question.
InOrder ==
  /\ Len(obeyed) <= Len(simAsked)
  /\ \A i \in 1 .. Len(obeyed) : obeyed[i] = simAsked[i]
  /\ \A i \in 1 .. Len(toServer) :
       IF Len(obeyed) + i <= Len(simAsked)
       THEN toServer[i] = <<"m", simAsked[Len(obeyed) + i]>>
       ELSE toServer[i] \in Question

SimInv ==
  /\ SimTypes /\ SimLocked /\ InOrder
  /\ \A t \in SimThread : Stage(t)
  /\ AllIdle => Surplus = 0 /\ toClient = <<>>

LEMMA SimConstants == Nobody \notin SimThread /\ SimVelocities \subseteq Int
  BY DriversAssumption
     DEF DriversAssumption, Sim!NobodyAssumption, Sim!SimulatedAssumption

LEMMA Lines ==
  /\ \A q \in Question : q = <<q[1], 0>> /\ q[1] \in Sim!Questions
  /\ \A c \in Command : c[1] = "m" /\ c[2] \in SimVelocities /\ c = <<"m", c[2]>>
  /\ \A q \in Question : q[1] # "m" /\ q \notin Command
  /\ \A l \in Line : l[1] \in Sim!Questions \cup {"", "m"}
  /\ \A r \in Reply : r[1] \in Sim!Questions
<1>1. \A q \in Question : q = <<q[1], 0>> /\ q[1] \in Sim!Questions
  BY DEF Question
<1>2. \A c \in Command : c[1] = "m" /\ c[2] \in SimVelocities /\ c = <<"m", c[2]>>
  BY DEF Command
<1>3. \A q \in Question : q[1] # "m" /\ q \notin Command
  BY <1>1, <1>2 DEF Sim!Questions
<1>4. \A l \in Line : l[1] \in Sim!Questions \cup {"", "m"}
  <2>1. Sim!Blank[1] = ""
    BY DEF Sim!Blank
  <2> QED
    BY <1>1, <1>2, <2>1, Zenon DEF Line
<1>5. \A r \in Reply : r[1] \in Sim!Questions
  BY DEF Reply
<1> QED
  BY <1>1, <1>2, <1>3, <1>4, <1>5, Zenon

LEMMA SimInit ==
  ASSUME Sim!SimulatedInit
  PROVE  SimInv
<1> USE DEF Sim!SimulatedInit
<1>1. SimThreadTypes
  BY DEF SimThreadTypes, SimPcs, Line
<1>2. SocketTypes
  BY DEF SocketTypes, Line
<1>3. SimLocked /\ InOrder
  BY DEF SimLocked, InOrder
<1>4. \A t \in SimThread : Stage(t)
  BY DEF Stage
<1>5. Surplus = 0 /\ toClient = <<>>
  BY DEF Surplus
<1> QED
  BY <1>1, <1>2, <1>3, <1>4, <1>5 DEF SimInv, SimTypes

LEMMA SimLengths ==
  ASSUME SimInv
  PROVE  /\ Len(obeyed) \in Nat /\ Len(toServer) \in Nat
         /\ Len(simAsked) \in Nat /\ Surplus \in Int
  BY DEF SimInv, SimTypes, SocketTypes, Surplus

\* A thread that acts is alone, and leaves the others idle.
LEMMA AloneActs ==
  ASSUME SimInv, NEW t \in SimThread,
         simPc[t] # "idle" \/ simHolder["socket"] = Nobody
  PROVE  \A u \in SimThread : u # t => simPc[u] = "idle"
  BY SimConstants DEF SimInv, SimLocked

LEMMA ActKeeps ==
  ASSUME SimInv, NEW t \in SimThread, NEW to \in SimPcs,
         simPc[t] # "idle" \/ simHolder["socket"] = Nobody,
         simPc' = [simPc EXCEPT ![t] = to],
         SimTypes', InOrder', Stage(t)',
         to # "idle" => simHolder'["socket"] = t,
         to = "idle" => Surplus' = 0 /\ toClient' = <<>>
  PROVE  SimInv'
<1>1. simPc'[t] = to /\ \A u \in SimThread : u # t => simPc'[u] = "idle"
  BY AloneActs DEF SimInv, SimTypes, SimThreadTypes
<1>2. SimLocked'
  BY <1>1 DEF SimLocked
<1>3. \A u \in SimThread : Stage(u)'
  <2>1. ASSUME NEW u \in SimThread, u # t PROVE Stage(u)'
    BY <1>1, <2>1 DEF Stage
  <2> QED
    BY <2>1
<1>4. AllIdle' => Surplus' = 0 /\ toClient' = <<>>
  BY <1>1 DEF AllIdle
<1> QED
  BY <1>2, <1>3, <1>4 DEF SimInv

\* A lock that is taken was free, and so the socket is quiet.
LEMMA FreeIsQuiet ==
  ASSUME SimInv, simHolder["socket"] = Nobody
  PROVE  Surplus = 0 /\ toClient = <<>>
  BY SimConstants DEF SimInv, SimLocked, AllIdle

LEMMA MotorSetVelKeeps ==
  ASSUME SimInv, NEW t \in SimThread, NEW v \in SimVelocities,
         Sim!MotorSetVel(t, v)
  PROVE  SimInv'
<1>1. /\ simPc[t] = "idle" /\ simHolder["socket"] = Nobody
      /\ simPc' = [simPc EXCEPT ![t] = "format"]
      /\ simHolder' = [simHolder EXCEPT !["socket"] = t]
      /\ simLine' = [simLine EXCEPT ![t] = <<"m", v>>]
      /\ simAsked' = Append(simAsked, v)
      /\ UNCHANGED <<socket_buffer, simAnswer, toServer, toClient,
                     robotSteps, obeyed, simSince>>
  BY DEF Sim!MotorSetVel, Sim!Goes, Sim!Takes
<1>2. /\ simPc \in [SimThread -> SimPcs] /\ DOMAIN simHolder = {"socket"}
      /\ simLine \in [SimThread -> Line]
      /\ simAsked \in Seq(SimVelocities)
  BY DEF SimInv, SimTypes, SimThreadTypes, SocketTypes
<1>3. SimTypes'
  <2>1. <<"m", v>> \in Line
    BY DEF Line, Command
  <2>2. SimThreadTypes'
    BY <1>1, <1>2, <2>1 DEF SimInv, SimTypes, SimThreadTypes, SimPcs
  <2>3. SocketTypes'
    BY <1>1, <1>2 DEF SimInv, SimTypes, SocketTypes
  <2> QED
    BY <2>2, <2>3 DEF SimTypes
<1>4. Surplus = 0 /\ toClient = <<>>
  BY <1>1, FreeIsQuiet
<1>5. /\ Len(simAsked') = Len(simAsked) + 1
      /\ simAsked'[Len(simAsked) + 1] = v
      /\ \A i \in 1 .. Len(simAsked) : simAsked'[i] = simAsked[i]
  BY <1>1, <1>2
<1>6. Surplus' = -1
  BY <1>1, <1>4, <1>5, SimLengths DEF Surplus
<1>7. InOrder'
  <2>1. \A i \in 1 .. Len(toServer) : Len(obeyed) + i <= Len(simAsked)
    BY <1>4, SimLengths DEF Surplus
  <2>2. InOrder
    BY DEF SimInv
  <2>3. \A i \in 1 .. Len(obeyed) : obeyed[i] = simAsked'[i]
    BY <1>5, <2>2, SimLengths DEF InOrder
  <2>4. \A i \in 1 .. Len(toServer) :
          /\ Len(obeyed) + i <= Len(simAsked')
          /\ toServer[i] = <<"m", simAsked'[Len(obeyed) + i]>>
    <3>1. ASSUME NEW i \in 1 .. Len(toServer)
          PROVE  /\ Len(obeyed) + i <= Len(simAsked')
                 /\ toServer[i] = <<"m", simAsked'[Len(obeyed) + i]>>
      <4>1. Len(obeyed) + i \in 1 .. Len(simAsked)
        BY <2>1, SimLengths
      <4>2. toServer[i] = <<"m", simAsked[Len(obeyed) + i]>>
        BY <2>2, <4>1 DEF InOrder
      <4> QED
        BY <1>5, <4>1, <4>2, SimLengths
    <3> QED
      BY <3>1
  <2>5. Len(obeyed) <= Len(simAsked')
    BY <1>5, <2>2, SimLengths DEF InOrder
  <2> QED
    BY <1>1, <2>3, <2>4, <2>5 DEF InOrder
<1>8. Stage(t)'
  BY <1>1, <1>2, <1>4, <1>5, <1>6 DEF Stage
<1>9. simHolder'["socket"] = t
  BY <1>1, <1>2
<1> QED
  BY <1>1, <1>3, <1>7, <1>8, <1>9, ActKeeps DEF SimPcs

\* A step of one thread that writes nothing and asks for no velocity.
LEMMA OrderUnchanged ==
  ASSUME SimInv, UNCHANGED <<toServer, simAsked, obeyed>>
  PROVE  InOrder' /\ Surplus' = Surplus
<1>1. InOrder'
  BY DEF SimInv, InOrder
<1> QED
  BY <1>1 DEF Surplus

LEMMA FormatKeeps ==
  ASSUME SimInv, NEW t \in SimThread, Sim!Format(t)
  PROVE  SimInv'
<1>1. /\ simPc[t] = "format"
      /\ simPc' = [simPc EXCEPT ![t] = "write"]
      /\ socket_buffer' = simLine[t]
      /\ UNCHANGED <<simHolder, simLine, simAnswer, toServer, toClient,
                     robotSteps, simAsked, obeyed, simSince>>
  BY DEF Sim!Format, Sim!Goes
<1>2. simPc \in [SimThread -> SimPcs] /\ simLine[t] \in Line
  BY DEF SimInv, SimTypes, SimThreadTypes
<1>3. SimTypes'
  <2>1. SimThreadTypes'
    BY <1>1 DEF SimInv, SimTypes, SimThreadTypes, SimPcs
  <2>2. SocketTypes'
    BY <1>1, <1>2 DEF SimInv, SimTypes, SocketTypes
  <2> QED
    BY <2>1, <2>2 DEF SimTypes
<1>4. InOrder' /\ Surplus' = Surplus
  BY <1>1, OrderUnchanged
<1>5. Stage(t)'
  BY <1>1, <1>2, <1>4 DEF SimInv, Stage
<1>6. simHolder'["socket"] = t
  BY <1>1 DEF SimInv, SimLocked
<1> QED
  BY <1>1, <1>3, <1>4, <1>5, <1>6, ActKeeps DEF SimPcs

LEMMA WriteKeeps ==
  ASSUME SimInv, NEW t \in SimThread, Sim!Write(t)
  PROVE  SimInv'
<1>1. /\ simPc[t] = "write"
      /\ simPc' = [simPc EXCEPT ![t] = "unlock"]
      /\ toServer' = Append(toServer, socket_buffer)
      /\ UNCHANGED <<simHolder, socket_buffer, simLine, simAnswer, toClient,
                     robotSteps, simAsked, obeyed, simSince>>
  BY DEF Sim!Write, Sim!Goes
<1> DEFINE n == Len(simAsked)
<1>2. /\ simPc \in [SimThread -> SimPcs]
      /\ toServer \in Seq(Question \cup Command)
      /\ simAsked \in Seq(SimVelocities)
  BY DEF SimInv, SimTypes, SimThreadTypes, SocketTypes
<1>3. /\ Surplus = -1 /\ toClient = <<>> /\ socket_buffer = simLine[t]
      /\ simLine[t] = <<"m", simAsked[n]>>
  BY <1>1 DEF SimInv, Stage
<1>4. n \in 1 .. Len(simAsked) /\ n = Len(obeyed) + Len(toServer) + 1
  BY <1>3, SimLengths DEF Surplus
<1>5. socket_buffer \in Command
  BY <1>2, <1>3, <1>4 DEF Command
<1>6. SimTypes'
  <2>1. SimThreadTypes'
    BY <1>1 DEF SimInv, SimTypes, SimThreadTypes, SimPcs
  <2>2. toServer' \in Seq(Question \cup Command)
    BY <1>1, <1>2, <1>5
  <2>3. SocketTypes'
    BY <1>1, <2>2 DEF SimInv, SimTypes, SocketTypes
  <2> QED
    BY <2>1, <2>3 DEF SimTypes
<1>7. /\ Len(toServer') = Len(toServer) + 1
      /\ toServer'[Len(toServer) + 1] = <<"m", simAsked[n]>>
      /\ \A i \in 1 .. Len(toServer) : toServer'[i] = toServer[i]
  <2>1. toServer' = Append(toServer, socket_buffer)
    BY <1>1
  <2>2. socket_buffer \in Question \cup Command
    BY <1>5
  <2> QED
    BY <1>2, <1>3, <2>1, <2>2, AppendProperties
<1>8. Surplus' = 0
  BY <1>1, <1>3, <1>7, SimLengths DEF Surplus
<1>9. InOrder'
  <2>1. \A i \in 1 .. Len(toServer') :
          /\ Len(obeyed) + i <= n
          /\ toServer'[i] = <<"m", simAsked[Len(obeyed) + i]>>
    <3>1. ASSUME NEW i \in 1 .. Len(toServer')
          PROVE  /\ Len(obeyed) + i <= n
                 /\ toServer'[i] = <<"m", simAsked[Len(obeyed) + i]>>
      <4>1. CASE i = Len(toServer) + 1
        <5>1. Len(obeyed) + i = n
          BY <1>4, <4>1, SimLengths
        <5> QED
          BY <1>4, <1>7, <4>1, <5>1
      <4>2. CASE i # Len(toServer) + 1
        <5>1. i \in 1 .. Len(toServer) /\ Len(obeyed) + i <= n
          BY <1>4, <1>7, <4>2, SimLengths
        <5> QED
          BY <1>7, <5>1 DEF SimInv, InOrder
      <4> QED
        BY <4>1, <4>2
    <3> QED
      BY <3>1
  <2> QED
    BY <1>1, <2>1 DEF SimInv, InOrder
<1>10. Stage(t)'
  BY <1>1, <1>2, <1>3, <1>8 DEF Stage
<1>11. simHolder'["socket"] = t
  BY <1>1 DEF SimInv, SimLocked
<1> QED
  BY <1>1, <1>6, <1>9, <1>10, <1>11, ActKeeps DEF SimPcs

LEMMA AsksKeeps ==
  ASSUME SimInv, NEW t \in SimThread, NEW q \in Sim!Questions, Sim!Asks(t, q)
  PROVE  SimInv'
<1>1. /\ simPc[t] = "idle" /\ simHolder["socket"] = Nobody
      /\ simPc' = [simPc EXCEPT ![t] = "ask"]
      /\ simHolder' = [simHolder EXCEPT !["socket"] = t]
      /\ simLine' = [simLine EXCEPT ![t] = <<q, 0>>]
      /\ UNCHANGED <<socket_buffer, simAnswer, toServer, toClient,
                     robotSteps, simAsked, obeyed, simSince>>
  BY DEF Sim!Asks, Sim!Goes, Sim!Takes
<1>2. /\ simPc \in [SimThread -> SimPcs] /\ DOMAIN simHolder = {"socket"}
      /\ simLine \in [SimThread -> Line]
  BY DEF SimInv, SimTypes, SimThreadTypes
<1>3. <<q, 0>> \in Question
  BY DEF Question
<1>4. SimTypes'
  <2>1. SimThreadTypes'
    BY <1>1, <1>2, <1>3 DEF SimInv, SimTypes, SimThreadTypes, SimPcs, Line
  <2>2. SocketTypes'
    BY <1>1 DEF SimInv, SimTypes, SocketTypes
  <2> QED
    BY <2>1, <2>2 DEF SimTypes
<1>5. Surplus = 0 /\ toClient = <<>>
  BY <1>1, FreeIsQuiet
<1>6. InOrder' /\ Surplus' = Surplus
  BY <1>1, OrderUnchanged
<1>7. Stage(t)'
  BY <1>1, <1>2, <1>3, <1>5, <1>6 DEF Stage
<1>8. simHolder'["socket"] = t
  BY <1>1, <1>2
<1> QED
  BY <1>1, <1>4, <1>6, <1>7, <1>8, ActKeeps DEF SimPcs

LEMMA WriteQuestionKeeps ==
  ASSUME SimInv, NEW t \in SimThread, Sim!WriteQuestion(t)
  PROVE  SimInv'
<1>1. /\ simPc[t] = "ask"
      /\ simPc' = [simPc EXCEPT ![t] = "read"]
      /\ toServer' = Append(toServer, simLine[t])
      /\ simSince' = [simSince EXCEPT ![t] = robotSteps]
      /\ UNCHANGED <<simHolder, socket_buffer, simLine, simAnswer, toClient,
                     robotSteps, simAsked, obeyed>>
  BY DEF Sim!WriteQuestion, Sim!Goes
<1>2. /\ simPc \in [SimThread -> SimPcs] /\ simSince \in [SimThread -> Nat]
      /\ toServer \in Seq(Question \cup Command) /\ robotSteps \in Nat
  BY DEF SimInv, SimTypes, SimThreadTypes, SocketTypes
<1>3. Surplus = 0 /\ toClient = <<>> /\ simLine[t] \in Question
  BY <1>1 DEF SimInv, Stage
<1>4. SimTypes'
  <2>1. SimThreadTypes'
    BY <1>1, <1>2 DEF SimInv, SimTypes, SimThreadTypes, SimPcs
  <2>2. toServer' \in Seq(Question \cup Command)
    BY <1>1, <1>2, <1>3
  <2>3. SocketTypes'
    BY <1>1, <2>2 DEF SimInv, SimTypes, SocketTypes
  <2> QED
    BY <2>1, <2>3 DEF SimTypes
<1>5. /\ Len(toServer') = Len(toServer) + 1
      /\ toServer'[Len(toServer) + 1] = simLine[t]
      /\ \A i \in 1 .. Len(toServer) : toServer'[i] = toServer[i]
  <2>1. simLine[t] \in Question \cup Command
    BY <1>3
  <2> QED
    BY <1>1, <1>2, <2>1, AppendProperties
<1>6. Surplus' = 1
  <2>1. Len(obeyed') = Len(obeyed) /\ Len(simAsked') = Len(simAsked)
    BY <1>1
  <2>2. Len(obeyed) + Len(toServer) - Len(simAsked) = 0
    BY <1>3 DEF Surplus
  <2>3. Len(obeyed') + Len(toServer') - Len(simAsked') = 1
    BY <1>5, <2>1, <2>2, SimLengths
  <2> QED
    BY <2>3 DEF Surplus
<1>7. InOrder'
  <2>1. ASSUME NEW i \in 1 .. Len(toServer')
        PROVE  IF Len(obeyed) + i <= Len(simAsked)
               THEN toServer'[i] = <<"m", simAsked[Len(obeyed) + i]>>
               ELSE toServer'[i] \in Question
    <3>1. CASE i = Len(toServer) + 1
      <4>1. ~(Len(obeyed) + i <= Len(simAsked))
        BY <1>3, <3>1, SimLengths DEF Surplus
      <4> QED
        BY <1>3, <1>5, <3>1, <4>1
    <3>2. CASE i # Len(toServer) + 1
      <4>1. i \in 1 .. Len(toServer)
        BY <1>5, <3>2, SimLengths
      <4> QED
        BY <1>5, <4>1 DEF SimInv, InOrder
    <3> QED
      BY <3>1, <3>2
  <2> QED
    BY <1>1, <2>1 DEF SimInv, InOrder
<1>8. Stage(t)'
  <2>1. toServer'[Len(toServer')] = simLine'[t]
    BY <1>1, <1>5
  <2>2. simSince'[t] <= robotSteps'
    BY <1>1, <1>2
  <2> QED
    BY <1>1, <1>2, <1>3, <1>6, <2>1, <2>2 DEF Stage
<1>9. simHolder'["socket"] = t
  BY <1>1 DEF SimInv, SimLocked
<1> QED
  BY <1>1, <1>4, <1>7, <1>8, <1>9, ActKeeps DEF SimPcs

LEMMA ReadAnswerKeeps ==
  ASSUME SimInv, NEW t \in SimThread, Sim!ReadAnswer(t)
  PROVE  SimInv'
<1>1. /\ simPc[t] = "read" /\ toClient # <<>>
      /\ simPc' = [simPc EXCEPT ![t] = "scan"]
      /\ socket_buffer' = Head(toClient) /\ toClient' = Tail(toClient)
      /\ UNCHANGED <<simHolder, simLine, simAnswer, toServer, robotSteps,
                     simAsked, obeyed, simSince>>
  BY DEF Sim!ReadAnswer, Sim!Goes
<1>2. simPc \in [SimThread -> SimPcs] /\ toClient \in Seq(Reply)
  BY DEF SimInv, SimTypes, SimThreadTypes, SocketTypes
<1>3. Surplus = 0 /\ Len(toClient) = 1 /\ Own(t, toClient[1])
  BY <1>1 DEF SimInv, Stage
<1>4. /\ Head(toClient) = toClient[1] /\ Head(toClient) \in Reply
      /\ Tail(toClient) = <<>>
  <2>1. Head(toClient) = toClient[1] /\ toClient[1] \in Reply
    BY <1>1, <1>2, <1>3
  <2>2. Tail(toClient) \in Seq(Reply) /\ Len(Tail(toClient)) = 0
    BY <1>1, <1>2, <1>3, HeadTailProperties
  <2> QED
    BY <2>1, <2>2, EmptySeq
<1>5. SimTypes'
  <2>1. SimThreadTypes'
    BY <1>1 DEF SimInv, SimTypes, SimThreadTypes, SimPcs
  <2>2. SocketTypes'
    BY <1>1, <1>4 DEF SimInv, SimTypes, SocketTypes
  <2> QED
    BY <2>1, <2>2 DEF SimTypes
<1>6. InOrder' /\ Surplus' = Surplus
  BY <1>1, OrderUnchanged
<1>7. Stage(t)'
  BY <1>1, <1>2, <1>3, <1>4, <1>6 DEF Stage, Own
<1>8. simHolder'["socket"] = t
  BY <1>1 DEF SimInv, SimLocked
<1> QED
  BY <1>1, <1>5, <1>6, <1>7, <1>8, ActKeeps DEF SimPcs

LEMMA ScanAnswerKeeps ==
  ASSUME SimInv, NEW t \in SimThread, Sim!ScanAnswer(t)
  PROVE  SimInv'
<1>1. /\ simPc[t] = "scan"
      /\ simPc' = [simPc EXCEPT ![t] = "unlock"]
      /\ simAnswer' = [simAnswer EXCEPT ![t] = socket_buffer]
      /\ UNCHANGED <<simHolder, socket_buffer, simLine, toServer, toClient,
                     robotSteps, simAsked, obeyed, simSince>>
  BY DEF Sim!ScanAnswer, Sim!Goes
<1>2. /\ simPc \in [SimThread -> SimPcs]
      /\ simAnswer \in [SimThread -> Line \cup Reply]
      /\ socket_buffer \in Line \cup Reply
  BY DEF SimInv, SimTypes, SimThreadTypes, SocketTypes
<1>3. Surplus = 0 /\ toClient = <<>> /\ Own(t, socket_buffer)
  BY <1>1 DEF SimInv, Stage
<1>4. SimTypes'
  <2>1. SimThreadTypes'
    BY <1>1, <1>2 DEF SimInv, SimTypes, SimThreadTypes, SimPcs
  <2>2. SocketTypes'
    BY <1>1 DEF SimInv, SimTypes, SocketTypes
  <2> QED
    BY <2>1, <2>2 DEF SimTypes
<1>5. InOrder' /\ Surplus' = Surplus
  BY <1>1, OrderUnchanged
<1>6. Stage(t)'
  BY <1>1, <1>2, <1>3, <1>5 DEF Stage, Own
<1>7. simHolder'["socket"] = t
  BY <1>1 DEF SimInv, SimLocked
<1> QED
  BY <1>1, <1>4, <1>5, <1>6, <1>7, ActKeeps DEF SimPcs

LEMMA SimUnlockKeeps ==
  ASSUME SimInv, NEW t \in SimThread, Sim!Unlock(t)
  PROVE  SimInv'
<1>1. /\ simPc[t] = "unlock"
      /\ simPc' = [simPc EXCEPT ![t] = "idle"]
      /\ simHolder' = [simHolder EXCEPT !["socket"] = Nobody]
      /\ simLine' = [simLine EXCEPT ![t] = Sim!Blank]
      /\ simAnswer' = [simAnswer EXCEPT ![t] = Sim!Blank]
      /\ simSince' = [simSince EXCEPT ![t] = 0]
      /\ UNCHANGED <<socket_buffer, toServer, toClient, robotSteps, simAsked,
                     obeyed>>
  BY DEF Sim!Unlock, Sim!Goes, Sim!Gives
<1>2. simPc \in [SimThread -> SimPcs]
  BY DEF SimInv, SimTypes, SimThreadTypes
<1>3. SimTypes'
  <2>1. SimThreadTypes'
    BY <1>1 DEF SimInv, SimTypes, SimThreadTypes, SimPcs, Line
  <2>2. SocketTypes'
    BY <1>1 DEF SimInv, SimTypes, SocketTypes
  <2> QED
    BY <2>1, <2>2 DEF SimTypes
<1>4. InOrder' /\ Surplus' = Surplus
  BY <1>1, OrderUnchanged
<1>5. Surplus' = 0 /\ toClient' = <<>>
  BY <1>1, <1>4 DEF SimInv, Stage
<1>6. Stage(t)'
  BY <1>1, <1>2 DEF Stage
<1> QED
  BY <1>1, <1>3, <1>4, <1>5, <1>6, ActKeeps DEF SimPcs

\* The robot moves on: no answer is older for it.
LEMMA SimulateKeeps ==
  ASSUME SimInv, Sim!Simulate
  PROVE  SimInv'
<1>1. /\ robotSteps' = robotSteps + 1
      /\ UNCHANGED <<simHolder, simPc, socket_buffer, simLine, simAnswer,
                     toServer, toClient, simAsked, obeyed, simSince>>
  BY DEF Sim!Simulate
<1>2. robotSteps \in Nat /\ simSince \in [SimThread -> Nat]
  BY DEF SimInv, SimTypes, SimThreadTypes, SocketTypes
<1>3. SimTypes'
  <2>1. SimThreadTypes'
    BY <1>1 DEF SimInv, SimTypes, SimThreadTypes
  <2>2. SocketTypes'
    BY <1>1 DEF SimInv, SimTypes, SocketTypes
  <2> QED
    BY <2>1, <2>2 DEF SimTypes
<1>4. InOrder' /\ Surplus' = Surplus
  BY <1>1, OrderUnchanged
<1>5. ASSUME NEW t \in SimThread PROVE Stage(t)'
  <2>1. Stage(t)
    BY DEF SimInv
  <2>2. simSince[t] <= robotSteps => simSince[t] <= robotSteps'
    BY <1>1, <1>2
  <2> QED
    BY <1>1, <1>4, <2>1, <2>2 DEF Stage, Own
<1> QED
  BY <1>1, <1>3, <1>4, <1>5 DEF SimInv, SimLocked, AllIdle

LEMMA SurplusBounded ==
  ASSUME SimInv
  PROVE  Surplus \in {-1, 0, 1}
<1>1. CASE AllIdle
  BY <1>1 DEF SimInv
<1>2. CASE ~AllIdle
  <2>1. PICK t \in SimThread : simPc[t] # "idle"
    BY <1>2 DEF AllIdle
  <2>2. simPc[t] \in SimPcs /\ Stage(t)
    BY DEF SimInv, SimTypes, SimThreadTypes
  <2> QED
    BY <2>1, <2>2 DEF Stage, SimPcs
<1> QED
  BY <1>1, <1>2

\* Who waits for an answer while there is a question.
LEMMA Asker ==
  ASSUME SimInv, Surplus = 1
  PROVE  \E t \in SimThread :
           /\ simPc[t] = "read" /\ toClient = <<>>
           /\ toServer[Len(toServer)] = simLine[t]
           /\ simSince[t] <= robotSteps
           /\ \A u \in SimThread : u # t => simPc[u] = "idle"
<1>1. PICK t \in SimThread : simPc[t] # "idle"
  BY DEF SimInv, AllIdle
<1>2. simPc[t] \in SimPcs /\ Stage(t)
  BY DEF SimInv, SimTypes, SimThreadTypes
<1>3. simPc[t] = "read"
  BY <1>1, <1>2 DEF Stage, SimPcs
<1> QED
  BY <1>1, <1>2, <1>3, AloneActs DEF Stage

LEMMA ServeKeeps ==
  ASSUME SimInv, Sim!Serve
  PROVE  SimInv'
<1> DEFINE first == Head(toServer)
<1>1. /\ toServer # <<>> /\ toServer' = Tail(toServer)
      /\ obeyed' = IF first[1] = "m" THEN Append(obeyed, first[2]) ELSE obeyed
      /\ toClient' = IF first[1] \in Sim!Answers
                     THEN Append(toClient, <<first[1], robotSteps>>)
                     ELSE toClient
      /\ UNCHANGED <<simHolder, simPc, socket_buffer, simLine, simAnswer,
                     robotSteps, simAsked, simSince>>
  BY DEF Sim!Serve
<1>2. /\ toServer \in Seq(Question \cup Command)
      /\ toClient \in Seq(Reply) /\ robotSteps \in Nat
      /\ obeyed \in Seq(SimVelocities) /\ simAsked \in Seq(SimVelocities)
  BY DEF SimInv, SimTypes, SocketTypes
<1>3. /\ first = toServer[1] /\ first \in Question \cup Command
      /\ Len(toServer) >= 1
      /\ Tail(toServer) \in Seq(Question \cup Command)
      /\ Len(Tail(toServer)) = Len(toServer) - 1
      /\ \A i \in 1 .. Len(toServer) - 1 : Tail(toServer)[i] = toServer[i + 1]
  BY <1>1, <1>2
<1> HIDE DEF first
<1>4. SimThreadTypes' /\ SimLocked'
  BY <1>1 DEF SimInv, SimTypes, SimThreadTypes, SimLocked
<1>5. CASE first \in Command
  <2>1. /\ first[1] = "m" /\ first[2] \in SimVelocities
        /\ first[1] \notin Sim!Answers
    BY <1>5, Lines, Zenon DEF Sim!Answers
  <2>2. obeyed' = Append(obeyed, first[2]) /\ toClient' = toClient
    BY <1>1, <2>1
  <2>3. /\ obeyed' \in Seq(SimVelocities) /\ Len(obeyed') = Len(obeyed) + 1
        /\ obeyed'[Len(obeyed) + 1] = first[2]
        /\ \A i \in 1 .. Len(obeyed) : obeyed'[i] = obeyed[i]
    BY <1>2, <2>1, <2>2
  <2>4. Len(obeyed) + 1 <= Len(simAsked)
        /\ first = <<"m", simAsked[Len(obeyed) + 1]>>
    <3>1. IF Len(obeyed) + 1 <= Len(simAsked)
          THEN first = <<"m", simAsked[Len(obeyed) + 1]>>
          ELSE first \in Question
      <4>1. 1 \in 1 .. Len(toServer)
        BY <1>3, SimLengths
      <4> QED
        BY <1>3, <4>1 DEF SimInv, InOrder
    <3>2. first \notin Question
      BY <1>5, Lines, Zenon
    <3> QED
      BY <3>1, <3>2
  <2>5. SimTypes'
    BY <1>1, <1>3, <1>4, <2>2, <2>3 DEF SimInv, SimTypes, SocketTypes
  <2>6. Surplus' = Surplus
    BY <1>1, <1>3, <2>3, SimLengths DEF Surplus
  <2>7. InOrder'
    <3>1. \A i \in 1 .. Len(obeyed') : obeyed'[i] = simAsked[i]
      <4>1. \A i \in 1 .. Len(obeyed) : obeyed[i] = simAsked[i]
        BY DEF SimInv, InOrder
      <4>2. first[2] = simAsked[Len(obeyed) + 1]
        BY <2>4
      <4> QED
        BY <2>3, <4>1, <4>2, SimLengths
    <3>2. ASSUME NEW i \in 1 .. Len(toServer')
          PROVE  IF Len(obeyed') + i <= Len(simAsked)
                 THEN toServer'[i] = <<"m", simAsked[Len(obeyed') + i]>>
                 ELSE toServer'[i] \in Question
      <4>1. i + 1 \in 1 .. Len(toServer) /\ toServer'[i] = toServer[i + 1]
            /\ Len(obeyed) + (i + 1) = Len(obeyed') + i
        BY <1>1, <1>3, <2>3, SimLengths
      <4>2. IF Len(obeyed) + (i + 1) <= Len(simAsked)
            THEN toServer[i + 1] = <<"m", simAsked[Len(obeyed) + (i + 1)]>>
            ELSE toServer[i + 1] \in Question
        BY <4>1 DEF SimInv, InOrder
      <4> QED
        BY <4>1, <4>2
    <3>3. Len(obeyed') <= Len(simAsked)
      BY <2>3, <2>4
    <3> QED
      BY <1>1, <3>1, <3>2, <3>3 DEF InOrder
  <2>8. ASSUME NEW t \in SimThread PROVE Stage(t)'
    <3>1. Stage(t)
      BY DEF SimInv
    <3>2. Surplus = 1 => toServer'[Len(toServer')] = toServer[Len(toServer)]
      <4>1. Surplus = 1 => Len(toServer) > 1
        BY <2>4, SimLengths DEF Surplus
      <4> QED
        BY <1>1, <1>3, <4>1, SimLengths
    <3>3. toServer # <<>>
      BY <1>1
    <3> QED
      BY <1>1, <2>2, <2>6, <3>1, <3>2, <3>3 DEF Stage, Own
  <2> QED
    BY <1>1, <1>4, <2>2, <2>5, <2>6, <2>7, <2>8 DEF SimInv, AllIdle
<1>6. CASE first \in Question
  <2>1. first[1] # "m" /\ first[1] \in Sim!Questions
    BY <1>6, Lines, Zenon
  <2>2. obeyed' = obeyed
    BY <1>1, <2>1
  <2>3. Len(obeyed) + 1 > Len(simAsked)
    <3>1. first # <<"m", simAsked[Len(obeyed) + 1]>>
      BY <2>1
    <3>2. 1 \in 1 .. Len(toServer)
      BY <1>3, SimLengths
    <3> QED
      BY <1>3, <3>1, <3>2, SimLengths DEF SimInv, InOrder
  <2>4. Surplus >= 1
    BY <1>3, <2>3, SimLengths DEF SimInv, InOrder, Surplus
  <2>5. Surplus = 1
    BY <2>4, SurplusBounded
  <2>6. Len(toServer) = 1 /\ toServer' = <<>>
    BY <1>1, <1>3, <2>3, <2>5, SimLengths DEF SimInv, InOrder, Surplus
  <2>7. PICK t \in SimThread :
          /\ simPc[t] = "read" /\ toClient = <<>>
          /\ toServer[Len(toServer)] = simLine[t]
          /\ simSince[t] <= robotSteps
          /\ \A u \in SimThread : u # t => simPc[u] = "idle"
    BY <2>5, Asker
  <2>8. Surplus' = 0
    <3>1. Len(toServer') = 0
      BY <2>6
    <3>2. Surplus' = Len(obeyed) + 0 - Len(simAsked)
      BY <1>1, <2>2, <3>1 DEF Surplus
    <3>3. Len(obeyed) + 1 - Len(simAsked) = 1
      BY <2>5, <2>6 DEF Surplus
    <3> QED
      BY <3>2, <3>3, SimLengths
  <2>9. \/ toClient' = <<>>
        \/ /\ toClient' = <<<<first[1], robotSteps>>>>
           /\ first[1] \in Sim!Answers
    BY <1>1, <2>7
  <2>10. toClient' \in Seq(Reply)
    <3>1. CASE toClient' = <<>>
      BY <3>1
    <3>2. CASE toClient' # <<>>
      <4> DEFINE reply == <<first[1], robotSteps>>
      <4>1. reply \in Reply
        BY <1>2, <2>1, <2>9, <3>2 DEF Reply
      <4>2. toClient' = <<reply>>
        BY <2>9, <3>2
      <4> HIDE DEF reply
      <4> QED
        BY <4>1, <4>2
    <3> QED
      BY <3>1, <3>2
  <2>11. SimTypes'
    BY <1>1, <1>3, <1>4, <2>2, <2>10 DEF SimInv, SimTypes, SocketTypes
  <2>12. InOrder'
    <3>1. 1 .. Len(toServer') = {}
      BY <2>6
    <3> QED
      BY <1>1, <2>2, <3>1 DEF SimInv, InOrder
  <2>13. Stage(t)'
    <3>1. simLine[t] \in Question /\ simLine[t] = first
      BY <1>3, <2>6, <2>7 DEF SimInv, Stage
    <3>2. toClient' = <<>> \/ (Len(toClient') = 1 /\ Own(t, toClient[1])')
      BY <1>1, <2>7, <2>9, <3>1 DEF Own
    <3> QED
      BY <1>1, <2>6, <2>7, <2>8, <3>1, <3>2 DEF Stage
  <2>14. ASSUME NEW u \in SimThread PROVE Stage(u)'
    BY <1>1, <2>7, <2>13 DEF Stage
  <2>15. ~AllIdle'
    BY <1>1, <2>7 DEF AllIdle
  <2> QED
    BY <1>4, <2>11, <2>12, <2>14, <2>15 DEF SimInv
<1> QED
  BY <1>3, <1>5, <1>6

LEMMA SimNextKeeps ==
  ASSUME SimInv, [Sim!SimulatedNext]_(Sim!simulatedVars)
  PROVE  SimInv'
<1>1. ASSUME NEW t \in SimThread, Sim!Proceeds(t) PROVE SimInv'
  BY <1>1, FormatKeeps, WriteKeeps, WriteQuestionKeeps, ReadAnswerKeeps,
     ScanAnswerKeeps, SimUnlockKeeps DEF Sim!Proceeds
<1>2. ASSUME NEW t \in SimThread,
             \/ Sim!isStuck(t) \/ Sim!gyro_get_degrees(t)
             \/ Sim!irdist_read(t) \/ Sim!encoder_read_raw(t)
      PROVE  SimInv'
  <2>1. PICK q \in Sim!Questions : Sim!Asks(t, q)
    BY <1>2 DEF Sim!isStuck, Sim!gyro_get_degrees, Sim!irdist_read,
                Sim!encoder_read_raw, Sim!Questions
  <2> QED
    BY <2>1, AsksKeeps
<1>3. ASSUME UNCHANGED Sim!simulatedVars PROVE SimInv'
  BY <1>3 DEF SimInv, SimTypes, SimThreadTypes, SocketTypes, SimLocked,
              InOrder, Stage, Own, Surplus, AllIdle, Sim!simulatedVars
<1> QED
  BY <1>1, <1>2, <1>3, SimulateKeeps, ServeKeeps, MotorSetVelKeeps
     DEF Sim!SimulatedNext

LEMMA SimSteps ==
  ASSUME [Next]_vars
  PROVE  /\ part' = part
         /\ part = "simulated" => [Sim!SimulatedNext]_(Sim!simulatedVars)
         /\ part # "simulated" => UNCHANGED Sim!simulatedVars
  BY DEF Next, vars, simVars, Sim!simulatedVars

LEMMA SimInvariant == Spec => []SimInv
<1>1. Init => SimInv
  BY SimInit DEF Init
<1>2. SimInv /\ [Next]_vars => SimInv'
  <2>1. SimInv /\ UNCHANGED Sim!simulatedVars => SimInv'
    BY SimNextKeeps
  <2> QED
    BY <2>1, SimSteps, SimNextKeeps
<1> QED
  BY <1>1, <1>2, PTL DEF Spec

LEMMA EachOwnAnswer ==
  ASSUME SimInv
  PROVE  Sim!OwnAnswer
  BY DEF SimInv, Stage, Own, Sim!OwnAnswer

LEMMA EachVelocityArrives ==
  ASSUME SimInv
  PROVE  Sim!VelocitiesArrive
<1> DEFINE set == Len(obeyed)
<1>1. /\ set \in Nat /\ Len(toServer) \in Nat /\ Len(simAsked) \in Nat
      /\ InOrder
  BY SimLengths DEF SimInv
<1>2. ASSUME NEW i \in set + 1 .. Len(simAsked), i - set <= Len(toServer)
      PROVE  toServer[i - set] = <<"m", simAsked[i]>>
  <2>1. i - set \in 1 .. Len(toServer) /\ set + (i - set) = i
    BY <1>1, <1>2
  <2> QED
    BY <1>1, <2>1, SMTT(40) DEF InOrder
<1>3. ASSUME NEW i \in set + 1 .. Len(simAsked), ~(i - set <= Len(toServer))
      PROVE  /\ i = Len(simAsked)
             /\ \E t \in SimThread : /\ simPc[t] \in {"format", "write"}
                                     /\ simLine[t] = <<"m", simAsked[i]>>
  <2>1. Surplus < 0
    BY <1>1, <1>3 DEF Surplus
  <2>2. Surplus = -1
    BY <2>1, SurplusBounded
  <2>3. i = Len(simAsked)
    BY <1>1, <1>3, <2>2 DEF Surplus
  <2>4. PICK t \in SimThread : simPc[t] # "idle"
    BY <2>2 DEF SimInv, AllIdle
  <2>5. simPc[t] \in SimPcs /\ Stage(t)
    BY DEF SimInv, SimTypes, SimThreadTypes
  <2> QED
    BY <2>2, <2>3, <2>4, <2>5 DEF Stage, SimPcs
<1>4. ASSUME NEW i \in DOMAIN toServer, toServer[i][1] = "m"
      PROVE  set + i <= Len(simAsked)
  <2>1. i \in 1 .. Len(toServer)
    BY DEF SimInv, SimTypes, SocketTypes
  <2> QED
    BY <1>1, <1>4, <2>1, Lines, Zenon DEF InOrder
<1>5. set <= Len(simAsked) /\ \A i \in 1 .. set : obeyed[i] = simAsked[i]
  BY <1>1 DEF InOrder
<1> QED
  BY <1>2, <1>3, <1>4, <1>5 DEF Sim!VelocitiesArrive

\* Every thread that asks the simulated robot gets the answer to its question
\* and not one from before, and the server sets every velocity asked for, in
\* order, whichever threads share the socket (socket.c, server.pde).
THEOREM AnswersAreTheirs == Spec => []AnswersAreOwn
<1>1. SimInv => (part = "simulated" => Sim!OwnAnswer /\ Sim!VelocitiesArrive)
  BY EachOwnAnswer, EachVelocityArrives
<1> QED
  BY <1>1, SimInvariant, PTL DEF AnswersAreOwn
=============================================================================
