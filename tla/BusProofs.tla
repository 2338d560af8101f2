------------------------------ MODULE BusProofs -----------------------------
(***************************************************************************)
(* Proofs about the SPI bus (Bus) in Drivers, for any threads, each with   *)
(* any chips to talk to, and one thread that sends with the radio; and     *)
(* about drivers/gyro.c with get_time_us() of kern/thread.c (Gyro), for    *)
(* timers, calibrations and readings of any size.                          *)
(***************************************************************************)
EXTENDS Drivers, TLAPS

\* Where the thread that has the bus is.
CommandPcs == {"master", "select", "transfer", "deselect", "release"}
AdcPcs == {"adcStart", "adcRead"}
OtherPcs == {"idle", "acquire", "adcAcquire"} \cup CommandPcs \cup AdcPcs
SendPcs == {"idle", "standby", "acquire", "yielded", "sending", "started",
            "sent"} \cup CommandPcs

BusTypes ==
  /\ Bus!BusTypeOK
  /\ ready \in [BusThread -> BOOLEAN]
  /\ busHolder \in [{"spi", "adc"} -> BusThread \cup {Nobody}]
  /\ busPc \in [BusThread -> OtherPcs \cup SendPcs]
  /\ busPc[BusRadio] \in SendPcs
  /\ \A t \in BusThread : t # BusRadio => busPc[t] \in OtherPcs
  /\ target[BusRadio] = "rf"

\* rf_send() has interrupts off, except where it yields.
BusHalted == busHalter = IF busPc[BusRadio] \in {"idle", "yielded"}
                         THEN Nobody ELSE BusRadio

BusLocked ==
  \A t \in BusThread :
    /\ busPc[t] \in CommandPcs => busHolder["spi"] = t
    /\ busPc[t] \in AdcPcs => busHolder["adc"] = t
    /\ busPc[t] = "adcRead" => admux = input[t]

\* The chip that is selected is the one a command has selected.
BusSelected ==
  \A t \in BusThread :
    /\ busPc[t] \in {"select", "transfer", "deselect"}
         => divider = Bus!Divider(target[t])
    /\ busPc[t] \in {"transfer", "deselect"} => Bus!Selected = {target[t]}

NobodyTransfers == \A t \in BusThread : busPc[t] \notin {"transfer", "deselect"}

BusQuiet == NobodyTransfers => Bus!Selected = {}

\* Where rf_send_packet() is.  Right after a command of its own nobody has
\* the bus.
BusPhase ==
  /\ phase = "none" <=> busPc[BusRadio] = "idle"
  /\ busPc[BusRadio] = "standby" => phase \in {"tx", "rx"}
  /\ busPc[BusRadio] = "started" => phase = "tx"
  /\ busPc[BusRadio] = "sent" => phase = "rx"
  /\ (\/ busPc[BusRadio] \in {"sending", "started", "sent"}
      \/ busPc[BusRadio] = "standby" /\ phase = "rx")
       => busHolder["spi"] = Nobody
  /\ phase = "none" \/ busPc[BusRadio] = "sent" => "ce" \in port
  /\ phase = "wait" => "ce" \notin port

\* A copy of port F is the port, but for RF_CE in the phase that has lowered
\* it while others may have been between their load and their store.
BusCopies ==
  /\ \A t \in BusThread : t # BusRadio /\ copy[t] # Bus!NoCopy =>
       /\ busPc[t] \in {"select", "deselect"}
       /\ copy[t] \ {"ce"} = (port \cap Bus!PortF) \ {"ce"}
       /\ phase # "tx" => copy[t] = port \cap Bus!PortF
  /\ copy[BusRadio] # Bus!NoCopy =>
       /\ busPc[BusRadio] \in {"standby", "sending", "started"}
       /\ copy[BusRadio] = port \cap Bus!PortF
       /\ phase # "wait"

BusInv ==
  /\ BusTypes /\ BusHalted /\ BusLocked /\ BusSelected /\ BusQuiet
  /\ BusPhase /\ BusCopies
-----------------------------------------------------------------------------

LEMMA BusConstants ==
  /\ Nobody \notin BusThread /\ BusRadio \in BusThread
  /\ BusAsks[BusRadio] = {"rf"}
BY DriversAssumption DEF Bus!NobodyAssumption, Bus!BusAssumption

LEMMA BusStart ==
  ASSUME Bus!BusInit, busHalter = Nobody,
         busHolder = [l \in {"spi", "adc"} |-> Nobody],
         busPc = [t \in BusThread |-> "idle"]
  PROVE  BusInv
<1> USE BusConstants DEF Bus!BusInit
<1>1. BusTypes
  <2>1. Bus!BusTypeOK
    <3>1. port \subseteq Bus!Chip \cup {"ce"}
      OBVIOUS
    <3>2. copy \in [BusThread -> (SUBSET Bus!PortF) \cup {Bus!NoCopy}]
      OBVIOUS
    <3>3. target \in [BusThread -> Bus!Chip]
      BY DEF Bus!Chip
    <3>4. input \in [BusThread -> Bus!Inputs]
      BY DEF Bus!Inputs
    <3> QED BY <3>1, <3>2, <3>3, <3>4 DEF Bus!BusTypeOK
  <2>2. /\ \A t \in BusThread : busPc[t] = "idle"
        /\ busPc \in [BusThread -> OtherPcs \cup SendPcs]
    BY DEF OtherPcs
  <2>3. "idle" \in OtherPcs /\ "idle" \in SendPcs
    BY DEF OtherPcs, SendPcs
  <2>4. ready \in [BusThread -> BOOLEAN]
    OBVIOUS
  <2>5. busHolder \in [{"spi", "adc"} -> BusThread \cup {Nobody}]
    OBVIOUS
  <2>6. target[BusRadio] = "rf"
    OBVIOUS
  <2> QED BY <2>1, <2>2, <2>3, <2>4, <2>5, <2>6 DEF BusTypes
<1>2. BusHalted /\ BusLocked /\ BusSelected
  BY DEF BusHalted, BusLocked, BusSelected, CommandPcs, AdcPcs
<1>3. BusQuiet
  BY DEF BusQuiet, Bus!Selected
<1>4. BusPhase /\ BusCopies
  BY DEF BusPhase, BusCopies
<1> QED BY <1>1, <1>2, <1>3, <1>4 DEF BusInv

\* When a thread other than the sender runs, the sender is not sending or has
\* yielded.
LEMMA SenderAway ==
  ASSUME BusInv, NEW t \in BusThread, t # BusRadio, Bus!Runs(t)
  PROVE  busHalter = Nobody /\ busPc[BusRadio] \in {"idle", "yielded"}
BY BusConstants DEF BusInv, BusHalted, Bus!Runs

LEMMA BusGoes ==
  ASSUME BusInv, NEW t \in BusThread, NEW from, NEW to, Bus!Goes(t, from, to),
         t = BusRadio => to \in SendPcs, t # BusRadio => to \in OtherPcs
  PROVE  /\ busPc[t] = from /\ busPc'[t] = to
         /\ \A u \in BusThread : u # t => busPc'[u] = busPc[u]
         /\ busPc' \in [BusThread -> OtherPcs \cup SendPcs]
         /\ busPc'[BusRadio] \in SendPcs
         /\ \A u \in BusThread : u # BusRadio => busPc'[u] \in OtherPcs
         /\ t # BusRadio => /\ busHalter = Nobody
                            /\ busPc[BusRadio] \in {"idle", "yielded"}
<1> USE BusConstants DEF BusInv, BusTypes, Bus!Goes
<1>1. /\ busPc[t] = from /\ busPc'[t] = to
      /\ \A u \in BusThread : u # t => busPc'[u] = busPc[u]
      /\ busPc' \in [BusThread -> OtherPcs \cup SendPcs]
  OBVIOUS
<1>2. /\ busPc'[BusRadio] \in SendPcs
      /\ \A u \in BusThread : u # BusRadio => busPc'[u] \in OtherPcs
  BY <1>1
<1>3. t # BusRadio => /\ busHalter = Nobody
                      /\ busPc[BusRadio] \in {"idle", "yielded"}
  BY SenderAway
<1> QED BY <1>1, <1>2, <1>3

\* One thread at a time has the bus.
LEMMA BusAlone ==
  ASSUME BusInv, NEW t \in BusThread, busPc[t] \in CommandPcs
  PROVE  /\ busHolder["spi"] = t
         /\ \A u \in BusThread : u # t => busPc[u] \notin CommandPcs
BY DEF BusInv, BusLocked

\* A step of a thread that neither sends nor has a chip selected disturbs
\* neither the port nor the sender.
LEMMA QuietStep ==
  ASSUME BusInv, NEW t \in BusThread, t # BusRadio,
         UNCHANGED <<busHalter, port, copy, divider, phase>>,
         busHalter = Nobody, busPc[BusRadio] \in {"idle", "yielded"},
         \A u \in BusThread :
           u # t => busPc'[u] = busPc[u] /\ target'[u] = target[u],
         busPc[t] \notin {"select", "transfer", "deselect"},
         busPc'[t] \notin {"select", "transfer", "deselect"}
  PROVE  BusHalted' /\ BusSelected' /\ BusQuiet' /\ BusPhase' /\ BusCopies'
<1> USE BusConstants DEF BusInv
<1>1. busPc'[BusRadio] = busPc[BusRadio]
  OBVIOUS
<1>2. BusHalted'
  BY <1>1 DEF BusHalted
<1>3. Bus!Selected' = Bus!Selected
  BY DEF Bus!Selected
<1>4. BusSelected'
  <2>1. ASSUME NEW u \in BusThread,
               busPc'[u] \in {"select", "transfer", "deselect"}
        PROVE  u # t /\ busPc'[u] = busPc[u] /\ target'[u] = target[u]
    BY <2>1
  <2> QED BY <1>3, <2>1 DEF BusSelected
<1>5. BusQuiet'
  <2>1. NobodyTransfers' => NobodyTransfers
    BY DEF NobodyTransfers
  <2> QED BY <1>3, <2>1 DEF BusQuiet
<1>6. BusPhase'
  BY <1>1 DEF BusPhase
<1>7. BusCopies'
  <2>1. copy[t] = Bus!NoCopy
    BY DEF BusCopies
  <2> QED BY <1>1, <2>1 DEF BusCopies
<1> QED BY <1>2, <1>4, <1>5, <1>6, <1>7

LEMMA BeginsKeeps ==
  ASSUME BusInv, NEW t \in BusThread,
         \/ Bus!ReadMotorChip(t) \/ Bus!RadioCommand(t) \/ Bus!FlashCommand(t)
         \/ \E sensor \in {15, 16} : Bus!ReadSensor(t, sensor)
  PROVE  BusInv'
<1> USE BusConstants
<1>1. PICK chip \in Bus!Chip :
        /\ Bus!BeginsCommand(t, chip) /\ Bus!Goes(t, "idle", "acquire")
        /\ t # BusRadio
        /\ ready' \in [BusThread -> BOOLEAN]
  <2> USE DEF Bus!Chip
  <2>0. ready \in [BusThread -> BOOLEAN]
    BY DEF BusInv, BusTypes
  <2>1. CASE Bus!ReadMotorChip(t)
    BY <2>0, <2>1 DEF Bus!ReadMotorChip
  <2>2. CASE Bus!RadioCommand(t)
    BY <2>0, <2>2 DEF Bus!RadioCommand
  <2>3. CASE Bus!FlashCommand(t)
    <3>1. t # BusRadio /\ Bus!BeginsCommand(t, "flash")
          /\ Bus!Goes(t, "idle", "acquire")
      BY <2>3 DEF Bus!FlashCommand
    <3>2. ready' \in [BusThread -> BOOLEAN]
      <4>1. PICK asks \in BOOLEAN : ready' = [ready EXCEPT ![t] = ~asks]
        BY <2>3 DEF Bus!FlashCommand
      <4>2. (~asks) \in BOOLEAN
        OBVIOUS
      <4> QED BY <2>0, <4>1, <4>2
    <3> QED BY <3>1, <3>2
  <2>4. ASSUME NEW sensor \in {15, 16}, Bus!ReadSensor(t, sensor)
        PROVE  \E chip \in Bus!Chip :
                 /\ Bus!BeginsCommand(t, chip)
                 /\ Bus!Goes(t, "idle", "acquire")
                 /\ t # BusRadio
                 /\ ready' \in [BusThread -> BOOLEAN]
    BY <2>0, <2>4 DEF Bus!ReadSensor, Bus!Converter
  <2> QED BY <2>1, <2>2, <2>3, <2>4
<1>2. /\ UNCHANGED <<busHalter, busHolder, port, copy, divider, admux, phase,
                     input>>
      /\ target' = [target EXCEPT ![t] = chip]
  BY <1>1 DEF Bus!BeginsCommand, Bus!busRegisters
<1>3. "acquire" \in OtherPcs
  BY DEF OtherPcs
<1>4. /\ busPc[t] = "idle" /\ busPc'[t] = "acquire"
      /\ \A u \in BusThread : u # t => busPc'[u] = busPc[u]
      /\ busPc' \in [BusThread -> OtherPcs \cup SendPcs]
      /\ busPc'[BusRadio] \in SendPcs
      /\ \A u \in BusThread : u # BusRadio => busPc'[u] \in OtherPcs
      /\ busHalter = Nobody /\ busPc[BusRadio] \in {"idle", "yielded"}
  BY <1>1, <1>3, BusGoes
<1>5. /\ target' \in [BusThread -> Bus!Chip] /\ target'[BusRadio] = "rf"
      /\ \A u \in BusThread : u # t => target'[u] = target[u]
  BY <1>1, <1>2 DEF BusInv, BusTypes, Bus!BusTypeOK
<1>6. BusTypes'
  BY <1>1, <1>2, <1>4, <1>5 DEF BusInv, BusTypes, Bus!BusTypeOK
<1>7. BusLocked'
  BY <1>2, <1>4 DEF BusInv, BusLocked, CommandPcs, AdcPcs
<1>8. BusHalted' /\ BusSelected' /\ BusQuiet' /\ BusPhase' /\ BusCopies'
  BY <1>1, <1>2, <1>4, <1>5, QuietStep
<1> QED BY <1>6, <1>7, <1>8 DEF BusInv

LEMMA AdcKeeps ==
  ASSUME BusInv, NEW t \in BusThread,
         \/ \E i \in Bus!Inputs : Bus!AskAdc(t, i)
         \/ Bus!AcquireAdc(t) \/ Bus!StartAdc(t) \/ Bus!ReadAdc(t)
  PROVE  BusInv'
<1> USE BusConstants
<1> USE DEF Bus!AskAdc, Bus!AcquireAdc, Bus!StartAdc, Bus!ReadAdc,
            Bus!busVars, Bus!busRegisters, Bus!busCalls
<1>1. /\ UNCHANGED <<busHalter, port, copy, divider, target, ready, phase>>
      /\ busHolder' \in [{"spi", "adc"} -> BusThread \cup {Nobody}]
      /\ busHolder'["spi"] = busHolder["spi"]
      /\ input' \in [BusThread -> Bus!Inputs]
      /\ \A u \in BusThread : u # t => input'[u] = input[u]
  BY DEF BusInv, BusTypes, Bus!BusTypeOK, Bus!Inputs, Bus!Takes, Bus!Gives
<1>2. PICK from \in {"idle", "adcAcquire", "adcStart", "adcRead"},
           to \in {"idle", "adcAcquire", "adcStart", "adcRead"} :
        /\ Bus!Goes(t, from, to)
        /\ from = "idle" => to = "adcAcquire"
        /\ to = "adcRead" => admux' = input'[t] /\ busHolder' = busHolder
        /\ to # "adcRead" => admux' = admux
        /\ to = "adcStart" => /\ busHolder["adc"] = Nobody
                              /\ busHolder'["adc"] = t
        /\ to = "adcRead" => from = "adcStart"
        /\ to = "idle" => from = "adcRead"
        /\ to = "adcAcquire" => busHolder' = busHolder
  BY DEF Bus!Takes, Bus!Gives, BusInv, BusTypes
<1>3. t # BusRadio
  <2>1. CASE from = "idle"
    BY <1>2, <2>1 DEF Bus!Goes
  <2>2. CASE from # "idle"
    BY <1>2, <2>2 DEF Bus!Goes, BusInv, BusTypes, SendPcs, CommandPcs
  <2> QED BY <2>1, <2>2
<1>4. to \in OtherPcs
  BY <1>2 DEF OtherPcs, AdcPcs
<1>5. /\ busPc[t] = from /\ busPc'[t] = to
      /\ \A u \in BusThread : u # t => busPc'[u] = busPc[u]
      /\ busPc' \in [BusThread -> OtherPcs \cup SendPcs]
      /\ busPc'[BusRadio] \in SendPcs
      /\ \A u \in BusThread : u # BusRadio => busPc'[u] \in OtherPcs
      /\ busHalter = Nobody /\ busPc[BusRadio] \in {"idle", "yielded"}
  BY <1>2, <1>3, <1>4, BusGoes
<1>6. BusTypes'
  BY <1>1, <1>5 DEF BusInv, BusTypes, Bus!BusTypeOK
<1>7. BusLocked'
  <2>1. CASE to = "idle"
    <3>1. busHolder["adc"] = t
      BY <1>2, <1>5, <2>1 DEF BusInv, BusLocked, AdcPcs
    <3>2. \A u \in BusThread : u # t => busPc'[u] \notin AdcPcs
      BY <1>5, <3>1 DEF BusInv, BusLocked
    <3> QED BY <1>1, <1>5, <2>1, <3>2 DEF BusInv, BusLocked, CommandPcs, AdcPcs
  <2>2. CASE to = "adcAcquire"
    BY <1>1, <1>2, <1>5, <2>2 DEF BusInv, BusLocked, CommandPcs, AdcPcs
  <2>3. CASE to = "adcStart"
    <3>1. \A u \in BusThread : busPc[u] \notin AdcPcs
      BY <1>2, <2>3 DEF BusInv, BusLocked
    <3> QED BY <1>1, <1>2, <1>5, <2>3, <3>1
            DEF BusInv, BusLocked, CommandPcs, AdcPcs
  <2>4. CASE to = "adcRead"
    <3>1. busHolder["adc"] = t
      BY <1>2, <1>5, <2>4 DEF BusInv, BusLocked, AdcPcs
    <3>2. \A u \in BusThread : u # t => busPc'[u] \notin AdcPcs
      BY <1>5, <3>1 DEF BusInv, BusLocked
    <3> QED BY <1>1, <1>2, <1>5, <2>4, <3>1, <3>2
            DEF BusInv, BusLocked, CommandPcs, AdcPcs
  <2> QED BY <1>2, <2>1, <2>2, <2>3, <2>4
<1>8. BusHalted' /\ BusSelected' /\ BusQuiet' /\ BusPhase' /\ BusCopies'
  BY <1>1, <1>2, <1>3, <1>5, QuietStep
<1> QED BY <1>6, <1>7, <1>8 DEF BusInv

\* A step on the bus that no other part sees: only its thread moves, and
\* RF_CE and the phase stay.
LEMMA CommandLocked ==
  ASSUME BusInv, NEW t \in BusThread, busHolder' = busHolder,
         UNCHANGED <<admux, input>>, busPc[t] \in CommandPcs,
         busPc'[t] \notin AdcPcs,
         \A u \in BusThread : u # t => busPc'[u] = busPc[u]
  PROVE  BusLocked'
BY DEF BusInv, BusLocked, CommandPcs, AdcPcs

LEMMA AcquireBusKeeps ==
  ASSUME BusInv, NEW t \in BusThread, Bus!AcquireBus(t)
  PROVE  BusInv'
<1> USE BusConstants
<1>1. CASE /\ Bus!Goes(t, "acquire", "master") /\ Bus!Takes(t, "spi")
           /\ UNCHANGED <<busHalter, Bus!busVars>>
  <2>1. /\ UNCHANGED <<busHalter, port, copy, divider, admux, target, ready,
                       phase, input>>
        /\ busHolder["spi"] = Nobody /\ busHolder'["spi"] = t
        /\ busHolder'["adc"] = busHolder["adc"]
        /\ busHolder' \in [{"spi", "adc"} -> BusThread \cup {Nobody}]
    BY <1>1 DEF Bus!Takes, Bus!busVars, Bus!busRegisters, Bus!busCalls,
                BusInv, BusTypes
  <2>2. "master" \in OtherPcs /\ "master" \in SendPcs
    BY DEF OtherPcs, SendPcs, CommandPcs
  <2>3. /\ busPc[t] = "acquire" /\ busPc'[t] = "master"
        /\ \A u \in BusThread : u # t => busPc'[u] = busPc[u]
        /\ busPc' \in [BusThread -> OtherPcs \cup SendPcs]
        /\ busPc'[BusRadio] \in SendPcs
        /\ \A u \in BusThread : u # BusRadio => busPc'[u] \in OtherPcs
        /\ t # BusRadio => /\ busHalter = Nobody
                           /\ busPc[BusRadio] \in {"idle", "yielded"}
    BY <1>1, <2>2, BusGoes
  <2>4. BusTypes'
    BY <2>1, <2>3 DEF BusInv, BusTypes, Bus!BusTypeOK
  <2>5. BusLocked'
    <3>1. \A u \in BusThread : busPc[u] \notin CommandPcs
      BY <2>1 DEF BusInv, BusLocked
    <3> QED BY <2>1, <2>3, <3>1 DEF BusInv, BusLocked, CommandPcs, AdcPcs
  <2>6. CASE t # BusRadio
    <3>1. BusHalted' /\ BusSelected' /\ BusQuiet' /\ BusPhase' /\ BusCopies'
      BY <2>1, <2>3, <2>6, QuietStep
    <3> QED BY <2>4, <2>5, <3>1 DEF BusInv
  <2>7. CASE t = BusRadio
    <3>1. Bus!Selected' = Bus!Selected /\ NobodyTransfers' = NobodyTransfers
      BY <2>1, <2>3 DEF Bus!Selected, NobodyTransfers
    <3>2. BusHalted'
      BY <2>1, <2>3, <2>7 DEF BusInv, BusHalted
    <3>3. BusSelected' /\ BusQuiet'
      BY <2>1, <2>3, <3>1 DEF BusInv, BusSelected, BusQuiet
    <3>4. BusPhase'
      BY <2>1, <2>3, <2>7 DEF BusInv, BusPhase
    <3>5. BusCopies'
      BY <2>1, <2>3, <2>7 DEF BusInv, BusCopies
    <3> QED BY <2>4, <2>5, <3>2, <3>3, <3>4, <3>5 DEF BusInv
  <2> QED BY <2>6, <2>7
<1>2. CASE /\ busHalter = t /\ busHolder["spi"] # Nobody
           /\ Bus!Goes(t, "acquire", "yielded")
           /\ busHalter' = Nobody
           /\ UNCHANGED <<busHolder, Bus!busVars>>
  <2>1. /\ UNCHANGED <<busHolder, port, copy, divider, admux, target, ready,
                       phase, input>>
        /\ busHalter' = Nobody
    BY <1>2 DEF Bus!busVars, Bus!busRegisters, Bus!busCalls
  <2>2. t = BusRadio
    BY <1>2 DEF BusInv, BusHalted
  <2>3. "yielded" \in SendPcs
    BY DEF SendPcs
  <2>4. /\ busPc[t] = "acquire" /\ busPc'[t] = "yielded"
        /\ \A u \in BusThread : u # t => busPc'[u] = busPc[u]
        /\ busPc' \in [BusThread -> OtherPcs \cup SendPcs]
        /\ busPc'[BusRadio] \in SendPcs
        /\ \A u \in BusThread : u # BusRadio => busPc'[u] \in OtherPcs
    BY <1>2, <2>2, <2>3, BusGoes
  <2>5. BusTypes'
    BY <2>1, <2>4 DEF BusInv, BusTypes, Bus!BusTypeOK
  <2>6. BusHalted'
    BY <2>1, <2>2, <2>4 DEF BusHalted
  <2>7. BusLocked'
    BY <2>1, <2>4 DEF BusInv, BusLocked, CommandPcs, AdcPcs
  <2>8. Bus!Selected' = Bus!Selected /\ NobodyTransfers' = NobodyTransfers
    BY <2>1, <2>4 DEF Bus!Selected, NobodyTransfers
  <2>9. BusSelected' /\ BusQuiet'
    BY <2>1, <2>4, <2>8 DEF BusInv, BusSelected, BusQuiet
  <2>10. BusPhase' /\ BusCopies'
    BY <2>1, <2>2, <2>4 DEF BusInv, BusPhase, BusCopies
  <2> QED BY <2>5, <2>6, <2>7, <2>9, <2>10 DEF BusInv
<1> QED BY <1>1, <1>2 DEF Bus!AcquireBus

LEMMA ResumeKeeps ==
  ASSUME BusInv, NEW t \in BusThread, Bus!ResumeRadio(t)
  PROVE  BusInv'
<1> USE BusConstants
<1>1. /\ UNCHANGED <<busHolder, port, copy, divider, admux, target, ready,
                     phase, input>>
      /\ busHalter' = t /\ Bus!Goes(t, "yielded", "acquire")
  BY DEF Bus!ResumeRadio, Bus!busVars, Bus!busRegisters, Bus!busCalls
<1>2. t = BusRadio
  BY <1>1 DEF Bus!Goes, BusInv, BusTypes, OtherPcs, CommandPcs, AdcPcs
<1>3. "acquire" \in SendPcs
  BY DEF SendPcs
<1>4. /\ busPc[t] = "yielded" /\ busPc'[t] = "acquire"
      /\ \A u \in BusThread : u # t => busPc'[u] = busPc[u]
      /\ busPc' \in [BusThread -> OtherPcs \cup SendPcs]
      /\ busPc'[BusRadio] \in SendPcs
      /\ \A u \in BusThread : u # BusRadio => busPc'[u] \in OtherPcs
  BY <1>1, <1>2, <1>3, BusGoes
<1>5. BusTypes'
  BY <1>1, <1>4 DEF BusInv, BusTypes, Bus!BusTypeOK
<1>6. BusHalted'
  BY <1>1, <1>2, <1>4 DEF BusHalted
<1>7. BusLocked'
  BY <1>1, <1>4 DEF BusInv, BusLocked, CommandPcs, AdcPcs
<1>8. Bus!Selected' = Bus!Selected /\ NobodyTransfers' = NobodyTransfers
  BY <1>1, <1>4 DEF Bus!Selected, NobodyTransfers
<1>9. BusSelected' /\ BusQuiet'
  BY <1>1, <1>4, <1>8 DEF BusInv, BusSelected, BusQuiet
<1>10. BusPhase' /\ BusCopies'
  BY <1>1, <1>2, <1>4 DEF BusInv, BusPhase, BusCopies
<1> QED BY <1>5, <1>6, <1>7, <1>9, <1>10 DEF BusInv

\* A step within a command that does not touch the port.
LEMMA CommandStep ==
  ASSUME BusInv, NEW t \in BusThread, NEW from, NEW to, Bus!Goes(t, from, to),
         from \in CommandPcs, to \in CommandPcs,
         from # "select", from # "deselect",
         UNCHANGED <<busHalter, busHolder, port, copy, admux, target, ready,
                     phase, input>>,
         divider' \in {2, 16},
         to # "release" => divider' = Bus!Divider(target[t]),
         to \in {"transfer", "deselect"} <=> from \in {"transfer", "deselect"}
  PROVE  BusInv'
<1> USE BusConstants
<1>1. to \in OtherPcs /\ to \in SendPcs
  BY DEF OtherPcs, SendPcs
<1>2. /\ busPc[t] = from /\ busPc'[t] = to
      /\ \A u \in BusThread : u # t => busPc'[u] = busPc[u]
      /\ busPc' \in [BusThread -> OtherPcs \cup SendPcs]
      /\ busPc'[BusRadio] \in SendPcs
      /\ \A u \in BusThread : u # BusRadio => busPc'[u] \in OtherPcs
  BY <1>1, BusGoes
<1>3. /\ busHolder["spi"] = t
      /\ \A u \in BusThread : u # t => busPc[u] \notin CommandPcs
  BY <1>2, BusAlone
<1>4. BusTypes'
  BY <1>2 DEF BusInv, BusTypes, Bus!BusTypeOK
<1>5. BusHalted'
  BY <1>2 DEF BusInv, BusHalted, CommandPcs
<1>6. BusLocked'
  <2>1. busPc'[t] \notin AdcPcs
    BY <1>2 DEF CommandPcs, AdcPcs
  <2> QED BY <1>2, <2>1, CommandLocked
<1>7. Bus!Selected' = Bus!Selected
  BY DEF Bus!Selected
<1>8. NobodyTransfers' => NobodyTransfers
  BY <1>2 DEF NobodyTransfers
<1>9. BusQuiet'
  BY <1>7, <1>8 DEF BusInv, BusQuiet
<1>10. BusSelected'
  <2>1. \A u \in BusThread :
          u # t => busPc'[u] \notin {"select", "transfer", "deselect"}
    BY <1>2, <1>3 DEF CommandPcs
  <2>2. to \in {"select", "transfer", "deselect"} => to # "release"
    OBVIOUS
  <2> QED BY <1>2, <1>7, <2>1, <2>2 DEF BusInv, BusSelected
<1>11. BusPhase'
  BY <1>2, <1>3 DEF BusInv, BusPhase, CommandPcs
<1>12. BusCopies'
  <2>1. copy[t] = Bus!NoCopy
    BY <1>2 DEF BusInv, BusCopies, CommandPcs
  <2> QED BY <1>2, <2>1 DEF BusInv, BusCopies
<1> QED BY <1>4, <1>5, <1>6, <1>9, <1>10, <1>11, <1>12 DEF BusInv

LEMMA SetMasterKeeps ==
  ASSUME BusInv, NEW t \in BusThread, Bus!SetMaster(t)
  PROVE  BusInv'
<1>1. /\ Bus!Goes(t, "master", "select")
      /\ UNCHANGED <<busHalter, busHolder, port, copy, admux, target, ready,
                     phase, input>>
      /\ divider' = Bus!Divider(target[t])
      /\ divider' \in {2, 16}
  BY DEF Bus!SetMaster, Bus!busCalls, Bus!Divider
<1>2. "master" \in CommandPcs /\ "select" \in CommandPcs
  BY DEF CommandPcs
<1> HIDE DEF Bus!Divider
<1> QED BY <1>1, <1>2, CommandStep

LEMMA TransferKeeps ==
  ASSUME BusInv, NEW t \in BusThread, Bus!TransferByte(t)
  PROVE  BusInv'
<1>1. PICK to \in {"transfer", "deselect"} : Bus!Goes(t, "transfer", to)
  BY DEF Bus!TransferByte
<1>2. UNCHANGED <<busHalter, busHolder, port, copy, divider, admux, target,
                  ready, phase, input>>
  BY DEF Bus!TransferByte, Bus!busVars, Bus!busRegisters, Bus!busCalls
<1>3. "transfer" \in CommandPcs /\ to \in CommandPcs
  BY DEF CommandPcs
<1>4. busPc[t] = "transfer"
  BY <1>1 DEF Bus!Goes
<1>5. divider' = Bus!Divider(target[t]) /\ divider' \in {2, 16}
  BY <1>2, <1>4 DEF BusInv, BusSelected, BusTypes, Bus!BusTypeOK
<1>6. /\ to \in {"transfer", "deselect"} /\ to # "select"
      /\ "transfer" \in {"transfer", "deselect"}
  OBVIOUS
<1> QED BY <1>1, <1>2, <1>3, <1>5, <1>6, CommandStep

LEMMA ReleaseKeeps ==
  ASSUME BusInv, NEW t \in BusThread, Bus!ReleaseBus(t)
  PROVE  BusInv'
<1> USE BusConstants
<1> DEFINE to == IF t = BusRadio THEN "sending" ELSE "idle"
<1>1. /\ Bus!Goes(t, "release", to)
      /\ UNCHANGED <<busHalter, port, copy, divider, admux, phase, input>>
      /\ busHolder'["spi"] = Nobody /\ busHolder'["adc"] = busHolder["adc"]
      /\ busHolder' \in [{"spi", "adc"} -> BusThread \cup {Nobody}]
      /\ target' = [target EXCEPT ![t] = "rf"]
      /\ ready' = [ready EXCEPT ![t] = FALSE]
  BY DEF Bus!ReleaseBus, Bus!Gives, Bus!busRegisters, BusInv, BusTypes
<1>2. (t = BusRadio => to \in SendPcs) /\ (t # BusRadio => to \in OtherPcs)
  BY DEF SendPcs, OtherPcs
<1>3. /\ busPc[t] = "release" /\ busPc'[t] = to
      /\ \A u \in BusThread : u # t => busPc'[u] = busPc[u]
      /\ busPc' \in [BusThread -> OtherPcs \cup SendPcs]
      /\ busPc'[BusRadio] \in SendPcs
      /\ \A u \in BusThread : u # BusRadio => busPc'[u] \in OtherPcs
      /\ t # BusRadio => /\ busHalter = Nobody
                         /\ busPc[BusRadio] \in {"idle", "yielded"}
  BY <1>1, <1>2, BusGoes
<1>4. \A u \in BusThread : u # t => busPc[u] \notin CommandPcs
  BY <1>3, BusAlone DEF CommandPcs
<1>5. /\ target' \in [BusThread -> Bus!Chip] /\ target'[BusRadio] = "rf"
      /\ \A u \in BusThread : u # t => target'[u] = target[u]
      /\ ready' \in [BusThread -> BOOLEAN]
  BY <1>1 DEF BusInv, BusTypes, Bus!BusTypeOK, Bus!Chip
<1>6. BusTypes'
  BY <1>1, <1>3, <1>5 DEF BusInv, BusTypes, Bus!BusTypeOK
<1>7. BusLocked'
  <2>1. busPc'[t] \notin CommandPcs /\ busPc'[t] \notin AdcPcs
    BY <1>3 DEF CommandPcs, AdcPcs
  <2> QED BY <1>1, <1>3, <1>4, <2>1 DEF BusInv, BusLocked, AdcPcs
<1>8. CASE t # BusRadio
  <2>1. busPc'[t] = "idle"
    BY <1>3, <1>8
  <2>2. BusHalted' /\ BusSelected' /\ BusQuiet' /\ BusPhase' /\ BusCopies'
    BY <1>1, <1>3, <1>5, <1>8, <2>1, QuietStep
  <2> QED BY <1>6, <1>7, <2>2 DEF BusInv
<1>9. CASE t = BusRadio
  <2>1. busPc'[BusRadio] = "sending" /\ busPc[BusRadio] = "release"
    BY <1>3, <1>9
  <2>2. Bus!Selected' = Bus!Selected /\ NobodyTransfers' = NobodyTransfers
    BY <1>1, <1>3, <1>9 DEF Bus!Selected, NobodyTransfers
  <2>3. BusHalted'
    BY <1>1, <2>1 DEF BusInv, BusHalted
  <2>4. BusSelected'
    <3>1. \A u \in BusThread :
            busPc'[u] \notin {"select", "transfer", "deselect"}
      BY <1>3, <1>4, <1>9, <2>1 DEF CommandPcs
    <3> QED BY <3>1 DEF BusSelected
  <2>5. BusQuiet'
    BY <2>2 DEF BusInv, BusQuiet
  <2>6. BusPhase'
    BY <1>1, <2>1 DEF BusInv, BusPhase
  <2>7. BusCopies'
    <3>1. copy[BusRadio] = Bus!NoCopy
      BY <2>1 DEF BusInv, BusCopies
    <3> QED BY <1>1, <1>3, <1>9, <3>1 DEF BusInv, BusCopies
  <2> QED BY <1>6, <1>7, <2>3, <2>4, <2>5, <2>6, <2>7 DEF BusInv
<1> QED BY <1>8, <1>9

\* A thread that has the bus and writes a select line either loads port F, or
\* writes this line and no other.
LEMMA ChipWritten ==
  ASSUME BusInv, NEW t \in BusThread, NEW from \in {"select", "deselect"},
         NEW to, NEW high \in BOOLEAN,
         Bus!WritesPin(t, from, target[t], high, to)
  PROVE  \/ /\ t # BusRadio /\ Bus!Goes(t, from, from)
            /\ copy' = [copy EXCEPT ![t] = port \cap Bus!PortF]
            /\ port' = port
         \/ /\ Bus!Goes(t, from, to)
            /\ copy' = [copy EXCEPT ![t] = Bus!NoCopy]
            /\ port' \subseteq Bus!Chip \cup {"ce"}
            /\ \A chip \in Bus!Chip :
                 chip \in port' <=> IF chip = target[t] THEN high
                                                       ELSE chip \in port
            /\ (t # BusRadio /\ phase # "tx") \/ t = BusRadio
                 => ("ce" \in port' <=> "ce" \in port)
<1> USE BusConstants
<1>1. /\ target[t] \in Bus!Chip /\ (t = BusRadio => target[t] = "rf")
      /\ port \subseteq Bus!Chip \cup {"ce"}
      /\ copy[t] \in (SUBSET Bus!PortF) \cup {Bus!NoCopy}
      /\ copy \in [BusThread -> (SUBSET Bus!PortF) \cup {Bus!NoCopy}]
  BY DEF BusInv, BusTypes, Bus!BusTypeOK
<1>2. target[t] # "ce"
  BY <1>1 DEF Bus!Chip
<1>3. CASE target[t] \in Bus!PortF /\ copy[t] = Bus!NoCopy
  <2>1. t # BusRadio
    BY <1>1, <1>3 DEF Bus!PortF
  <2> QED BY <1>3, <2>1 DEF Bus!WritesPin
<1>4. CASE target[t] \in Bus!PortF /\ copy[t] # Bus!NoCopy
  <2>1. t # BusRadio
    BY <1>1, <1>4 DEF Bus!PortF
  <2>2. /\ Bus!Goes(t, from, to)
        /\ copy' = [copy EXCEPT ![t] = Bus!NoCopy]
        /\ port' = (port \ Bus!PortF)
                     \cup Bus!Written(copy[t], target[t], high)
    BY <1>4 DEF Bus!WritesPin
  <2>3. /\ copy[t] \ {"ce"} = (port \cap Bus!PortF) \ {"ce"}
        /\ phase # "tx" => copy[t] = port \cap Bus!PortF
        /\ copy[t] \subseteq Bus!PortF
    <3>1. copy[t] \subseteq Bus!PortF
      BY <1>1, <1>4
    <3> QED BY <1>4, <2>1, <3>1 DEF BusInv, BusCopies
  <2>4. \A pin : pin \in port' <=> \/ pin \in port /\ pin \notin Bus!PortF
                                  \/ IF pin = target[t] THEN high
                                                        ELSE pin \in copy[t]
    BY <2>2 DEF Bus!Written
  <2>5. port' \subseteq Bus!Chip \cup {"ce"}
    BY <1>1, <2>3, <2>4 DEF Bus!PortF, Bus!Chip
  <2>6. ASSUME NEW chip \in Bus!Chip
        PROVE  chip \in port' <=> IF chip = target[t] THEN high
                                                     ELSE chip \in port
    <3>1. chip # "ce"
      BY DEF Bus!Chip
    <3>2. chip \in copy[t] <=> chip \in port /\ chip \in Bus!PortF
      BY <2>3, <3>1
    <3> QED BY <1>4, <2>4, <3>2
  <2>7. phase # "tx" => ("ce" \in port' <=> "ce" \in port)
    BY <1>2, <2>3, <2>4 DEF Bus!PortF
  <2> QED BY <2>1, <2>2, <2>5, <2>6, <2>7
<1>5. CASE target[t] \notin Bus!PortF
  <2>1. /\ Bus!Goes(t, from, to)
        /\ copy' = [copy EXCEPT ![t] = Bus!NoCopy]
        /\ port' = Bus!Written(port, target[t], high)
    BY <1>5 DEF Bus!WritesPin
  <2>2. \A pin : pin \in port' <=> IF pin = target[t] THEN high
                                                      ELSE pin \in port
    BY <2>1 DEF Bus!Written
  <2>3. port' \subseteq Bus!Chip \cup {"ce"}
    BY <1>1, <2>2
  <2> QED BY <1>2, <2>1, <2>2, <2>3
<1> QED BY <1>3, <1>4, <1>5

LEMMA LoadKeeps ==
  ASSUME BusInv, NEW t \in BusThread, t # BusRadio,
         NEW from \in {"select", "deselect"}, Bus!Goes(t, from, from),
         copy' = [copy EXCEPT ![t] = port \cap Bus!PortF],
         UNCHANGED <<busHalter, busHolder, port, divider, admux, target, phase,
                     input>>,
         ready' \in [BusThread -> BOOLEAN]
  PROVE  BusInv'
<1> USE BusConstants
<1>1. busPc' = busPc /\ busPc[t] = from
  BY DEF BusInv, BusTypes, Bus!Goes
<1>2. /\ copy' \in [BusThread -> (SUBSET Bus!PortF) \cup {Bus!NoCopy}]
      /\ copy'[t] = port \cap Bus!PortF
      /\ \A u \in BusThread : u # t => copy'[u] = copy[u]
  <2>1. copy \in [BusThread -> (SUBSET Bus!PortF) \cup {Bus!NoCopy}]
    BY DEF BusInv, BusTypes, Bus!BusTypeOK
  <2>2. port \cap Bus!PortF \in (SUBSET Bus!PortF) \cup {Bus!NoCopy}
    OBVIOUS
  <2> QED BY <2>1, <2>2
<1>3. BusTypes'
  BY <1>1, <1>2 DEF BusInv, BusTypes, Bus!BusTypeOK
<1>4. BusHalted' /\ BusLocked'
  BY <1>1 DEF BusInv, BusHalted, BusLocked
<1>5. BusSelected' /\ BusQuiet' /\ BusPhase'
  BY <1>1 DEF BusInv, BusSelected, BusQuiet, BusPhase, NobodyTransfers,
              Bus!Selected
<1>6. BusCopies'
  BY <1>1, <1>2 DEF BusInv, BusCopies
<1> QED BY <1>3, <1>4, <1>5, <1>6 DEF BusInv

LEMMA StoreKeeps ==
  ASSUME BusInv, NEW t \in BusThread, NEW from \in {"select", "deselect"},
         NEW high \in BOOLEAN, NEW to \in CommandPcs, Bus!Goes(t, from, to),
         high => to \in {"select", "release"}, ~high => to = "transfer",
         copy' = [copy EXCEPT ![t] = Bus!NoCopy],
         port' \subseteq Bus!Chip \cup {"ce"},
         \A chip \in Bus!Chip :
           chip \in port' <=> IF chip = target[t] THEN high ELSE chip \in port,
         (t # BusRadio /\ phase # "tx") \/ t = BusRadio
           => ("ce" \in port' <=> "ce" \in port),
         UNCHANGED <<busHalter, busHolder, divider, admux, target, phase,
                     input>>,
         ready' \in [BusThread -> BOOLEAN]
  PROVE  BusInv'
<1> USE BusConstants
<1>1. to \in OtherPcs /\ to \in SendPcs
  BY DEF OtherPcs, SendPcs
<1>2. /\ busPc[t] = from /\ busPc'[t] = to
      /\ \A u \in BusThread : u # t => busPc'[u] = busPc[u]
      /\ busPc' \in [BusThread -> OtherPcs \cup SendPcs]
      /\ busPc'[BusRadio] \in SendPcs
      /\ \A u \in BusThread : u # BusRadio => busPc'[u] \in OtherPcs
      /\ t # BusRadio => /\ busHalter = Nobody
                         /\ busPc[BusRadio] \in {"idle", "yielded"}
  BY <1>1, BusGoes
<1>3. busPc[t] \in CommandPcs
  BY <1>2 DEF CommandPcs
<1>4. /\ busHolder["spi"] = t
      /\ \A u \in BusThread : u # t => busPc[u] \notin CommandPcs
  BY <1>3, BusAlone
<1>5. /\ copy' \in [BusThread -> (SUBSET Bus!PortF) \cup {Bus!NoCopy}]
      /\ copy'[t] = Bus!NoCopy
      /\ \A u \in BusThread : u # t => copy'[u] = copy[u]
  BY DEF BusInv, BusTypes, Bus!BusTypeOK
<1>6. BusTypes'
  BY <1>2, <1>5 DEF BusInv, BusTypes, Bus!BusTypeOK
<1>7. BusHalted'
  BY <1>2 DEF BusInv, BusHalted, CommandPcs
<1>8. BusLocked'
  <2>1. busPc'[t] \notin AdcPcs
    BY <1>2 DEF CommandPcs, AdcPcs
  <2> QED BY <1>2, <1>3, <2>1, CommandLocked
<1>9. target[t] \in Bus!Chip
  BY DEF BusInv, BusTypes, Bus!BusTypeOK
<1>10. \A chip \in Bus!Chip : chip # target[t] => chip \in port
  <2>1. CASE from = "select"
    <3>1. NobodyTransfers
      BY <1>2, <1>4, <2>1 DEF NobodyTransfers, CommandPcs
    <3> QED BY <3>1 DEF BusInv, BusQuiet, Bus!Selected
  <2>2. CASE from = "deselect"
    <3>1. Bus!Selected = {target[t]}
      BY <1>2, <2>2 DEF BusInv, BusSelected
    <3> QED BY <3>1 DEF Bus!Selected
  <2> QED BY <2>1, <2>2
<1>11. Bus!Selected' = IF high THEN {} ELSE {target[t]}
  <2>1. \A chip : chip \in Bus!Selected'
                    <=> chip \in Bus!Chip /\ chip \notin port'
    BY DEF Bus!Selected
  <2> QED BY <1>9, <1>10, <2>1
<1>12. BusSelected'
  <2>1. \A u \in BusThread :
          u # t => busPc'[u] \notin {"select", "transfer", "deselect"}
    BY <1>2, <1>4 DEF CommandPcs
  <2>2. divider' = Bus!Divider(target'[t])
    BY <1>2 DEF BusInv, BusSelected
  <2>3. busPc'[t] \in {"transfer", "deselect"} => Bus!Selected' = {target'[t]}
    BY <1>2, <1>11
  <2> QED BY <2>1, <2>2, <2>3 DEF BusSelected
<1>13. BusQuiet'
  BY <1>2, <1>11 DEF BusQuiet, NobodyTransfers
<1>14. BusPhase'
  <2>1. phase # "tx" => ("ce" \in port' <=> "ce" \in port)
    OBVIOUS
  <2>2. CASE t # BusRadio
    <3>1. busPc'[BusRadio] = busPc[BusRadio]
      BY <1>2, <2>2
    <3> QED BY <2>1, <3>1 DEF BusInv, BusPhase
  <2>3. CASE t = BusRadio
    <3>1. /\ busPc[BusRadio] \in {"select", "deselect"}
          /\ busPc'[BusRadio] \in CommandPcs
      BY <1>2, <2>3
    <3> QED BY <2>1, <3>1 DEF BusInv, BusPhase, CommandPcs
  <2> QED BY <2>2, <2>3
<1>15. \A u \in BusThread : copy'[u] = Bus!NoCopy
  <2>1. ASSUME NEW u \in BusThread, u # t, u # BusRadio
        PROVE  copy[u] = Bus!NoCopy
    BY <1>4, <2>1 DEF BusInv, BusCopies, CommandPcs
  <2>2. t # BusRadio => copy[BusRadio] = Bus!NoCopy
    BY <1>2 DEF BusInv, BusCopies
  <2> QED BY <1>5, <2>1, <2>2
<1>16. BusCopies'
  BY <1>15 DEF BusCopies
<1> QED BY <1>6, <1>7, <1>8, <1>12, <1>13, <1>14, <1>16 DEF BusInv

LEMMA SelectKeeps ==
  ASSUME BusInv, NEW t \in BusThread, Bus!SelectChip(t)
  PROVE  BusInv'
<1>1. /\ Bus!WritesPin(t, "select", target[t], FALSE, "transfer")
      /\ UNCHANGED <<busHalter, busHolder, divider, admux, target, ready,
                     phase, input>>
  BY DEF Bus!SelectChip, Bus!busCalls
<1>2. ready' \in [BusThread -> BOOLEAN] /\ "transfer" \in CommandPcs
  BY <1>1 DEF BusInv, BusTypes, CommandPcs
<1> DEFINE from == "select"
<1>3. from \in {"select", "deselect"}
  OBVIOUS
<1> HIDE DEF from
<1>4. Bus!WritesPin(t, from, target[t], FALSE, "transfer")
  BY <1>1 DEF from
<1> QED BY <1>1, <1>2, <1>3, <1>4, ChipWritten, LoadKeeps, StoreKeeps

LEMMA DeselectKeeps ==
  ASSUME BusInv, NEW t \in BusThread, Bus!DeselectChip(t)
  PROVE  BusInv'
<1> DEFINE again == target[t] = "flash" /\ ~ready[t]
           to == IF again THEN "select" ELSE "release"
           from == "deselect"
<1>1. /\ Bus!WritesPin(t, from, target[t], TRUE, to)
      /\ UNCHANGED <<busHalter, busHolder, divider, admux, target, phase,
                     input>>
  BY DEF Bus!DeselectChip
<1>2. ready' \in [BusThread -> BOOLEAN]
  <2>1. ready' = [ready EXCEPT ![t] = busPc'[t] # "deselect"]
    BY DEF Bus!DeselectChip
  <2>2. (busPc'[t] # "deselect") \in BOOLEAN
    OBVIOUS
  <2>3. ready \in [BusThread -> BOOLEAN]
    BY DEF BusInv, BusTypes
  <2> QED BY <2>1, <2>2, <2>3
<1>3. /\ to \in CommandPcs /\ to \in {"select", "release"}
      /\ from \in {"select", "deselect"}
  BY DEF CommandPcs
<1> DEFINE loads == /\ t # BusRadio /\ Bus!Goes(t, from, from)
                    /\ copy' = [copy EXCEPT ![t] = port \cap Bus!PortF]
                    /\ port' = port
           stores == /\ Bus!Goes(t, from, to)
                     /\ copy' = [copy EXCEPT ![t] = Bus!NoCopy]
                     /\ port' \subseteq Bus!Chip \cup {"ce"}
                     /\ \A chip \in Bus!Chip :
                          chip \in port' <=> IF chip = target[t] THEN TRUE
                                            ELSE chip \in port
                     /\ (t # BusRadio /\ phase # "tx") \/ t = BusRadio
                          => ("ce" \in port' <=> "ce" \in port)
<1> HIDE DEF from, to
<1>4. loads \/ stores
  <2>1. TRUE \in BOOLEAN /\ Bus!WritesPin(t, from, target[t], TRUE, to)
    BY <1>1
  <2> QED BY <1>3, <2>1, ChipWritten, Zenon
<1>5. CASE loads
  <2>1. UNCHANGED <<busHalter, busHolder, port, divider, admux, target, phase,
                    input>>
    BY <1>1, <1>5
  <2> QED BY <1>2, <1>3, <1>5, <2>1, LoadKeeps, Zenon
<1>6. CASE stores
  <2>1. TRUE \in BOOLEAN /\ (~TRUE => to = "transfer")
    OBVIOUS
  <2>2. UNCHANGED <<busHalter, busHolder, divider, admux, target, phase,
                    input>>
    BY <1>1
  <2> QED BY <1>2, <1>3, <1>6, <2>1, <2>2, StoreKeeps, Zenon
<1> QED BY <1>4, <1>5, <1>6

-----------------------------------------------------------------------------
(* The steps of rf_send_packet() outside its commands *)

LEMMA SendStep ==
  ASSUME BusInv, NEW from \in SendPcs \ CommandPcs,
         NEW to \in SendPcs \ CommandPcs, Bus!Goes(BusRadio, from, to),
         UNCHANGED <<busHolder, divider, admux, target, ready, input>>,
         port' \subseteq Bus!Chip \cup {"ce"},
         \A chip \in Bus!Chip : chip \in port' <=> chip \in port,
         copy' \in [BusThread -> (SUBSET Bus!PortF) \cup {Bus!NoCopy}],
         phase' \in {"none", "tx", "wait", "rx"},
         busHalter' = IF to \in {"idle", "yielded"} THEN Nobody ELSE BusRadio
  PROVE  /\ BusTypes' /\ BusHalted' /\ BusLocked' /\ BusSelected' /\ BusQuiet'
         /\ busPc[BusRadio] = from /\ busPc'[BusRadio] = to
         /\ \A u \in BusThread : u # BusRadio => busPc'[u] = busPc[u]
<1> USE BusConstants
<1>1. /\ busPc[BusRadio] = from /\ busPc'[BusRadio] = to
      /\ \A u \in BusThread : u # BusRadio => busPc'[u] = busPc[u]
      /\ busPc' \in [BusThread -> OtherPcs \cup SendPcs]
      /\ busPc'[BusRadio] \in SendPcs
      /\ \A u \in BusThread : u # BusRadio => busPc'[u] \in OtherPcs
  BY BusGoes
<1>2. BusTypes'
  BY <1>1 DEF BusInv, BusTypes, Bus!BusTypeOK
<1>3. BusHalted'
  BY <1>1 DEF BusHalted
<1>4. /\ from \notin CommandPcs /\ to \notin CommandPcs
      /\ from \notin AdcPcs /\ to \notin AdcPcs
  BY DEF SendPcs, AdcPcs, CommandPcs
<1>5. BusLocked'
  BY <1>1, <1>4 DEF BusInv, BusLocked, AdcPcs
<1>6. /\ from \notin {"select", "transfer", "deselect"}
      /\ to \notin {"select", "transfer", "deselect"}
  BY <1>4 DEF CommandPcs
<1>7. Bus!Selected' = Bus!Selected
  BY DEF Bus!Selected
<1>8. NobodyTransfers' => NobodyTransfers
  BY <1>1, <1>6 DEF NobodyTransfers
<1>9. BusSelected' /\ BusQuiet'
  BY <1>1, <1>6, <1>7, <1>8 DEF BusInv, BusSelected, BusQuiet
<1> QED BY <1>1, <1>2, <1>3, <1>5, <1>9

\* While nobody has the bus, nobody is between a load and a store.
LEMMA NoCopies ==
  ASSUME BusInv, busHolder["spi"] = Nobody
  PROVE  \A u \in BusThread : u # BusRadio => copy[u] = Bus!NoCopy
BY BusConstants DEF BusInv, BusCopies, BusLocked, CommandPcs

\* The sender loads port F, or writes RF_CE and nothing else.
LEMMA CeWritten ==
  ASSUME BusInv, NEW from \in {"standby", "sending", "started"}, NEW to,
         NEW high \in BOOLEAN,
         Bus!WritesPin(BusRadio, from, "ce", high, to)
  PROVE  /\ copy' \in [BusThread -> (SUBSET Bus!PortF) \cup {Bus!NoCopy}]
         /\ port' \subseteq Bus!Chip \cup {"ce"}
         /\ \A chip \in Bus!Chip : chip \in port' <=> chip \in port
         /\ \A pin : pin # "ce" => (pin \in port' <=> pin \in port)
         /\ \A u \in BusThread : u # BusRadio => copy'[u] = copy[u]
         /\ busPc[BusRadio] = from
         /\ \/ /\ Bus!Goes(BusRadio, from, from)
               /\ port' = port /\ copy'[BusRadio] = port' \cap Bus!PortF
            \/ /\ Bus!Goes(BusRadio, from, to)
               /\ "ce" \in port' <=> high
               /\ copy'[BusRadio] = Bus!NoCopy
<1> USE BusConstants
<1>1. /\ port \subseteq Bus!Chip \cup {"ce"}
      /\ copy \in [BusThread -> (SUBSET Bus!PortF) \cup {Bus!NoCopy}]
      /\ "ce" \in Bus!PortF /\ "ce" \notin Bus!Chip
      /\ copy[BusRadio] # Bus!NoCopy => copy[BusRadio] = port \cap Bus!PortF
  BY DEF BusInv, BusTypes, Bus!BusTypeOK, Bus!PortF, Bus!Chip, BusCopies
<1>2. busPc[BusRadio] = from
  BY DEF Bus!WritesPin, Bus!Goes
<1>3. CASE copy[BusRadio] = Bus!NoCopy
  <2>1. /\ Bus!Goes(BusRadio, from, from) /\ port' = port
        /\ copy' = [copy EXCEPT ![BusRadio] = port \cap Bus!PortF]
    BY <1>1, <1>3 DEF Bus!WritesPin
  <2>2. copy' \in [BusThread -> (SUBSET Bus!PortF) \cup {Bus!NoCopy}]
    <3>1. port \cap Bus!PortF \in (SUBSET Bus!PortF) \cup {Bus!NoCopy}
      OBVIOUS
    <3> QED BY <1>1, <2>1, <3>1
  <2>3. /\ copy'[BusRadio] = port' \cap Bus!PortF
        /\ \A u \in BusThread : u # BusRadio => copy'[u] = copy[u]
    BY <1>1, <2>1
  <2> QED BY <1>1, <1>2, <2>1, <2>2, <2>3
<1>4. CASE copy[BusRadio] # Bus!NoCopy
  <2>1. /\ Bus!Goes(BusRadio, from, to)
        /\ copy' = [copy EXCEPT ![BusRadio] = Bus!NoCopy]
        /\ port' = (port \ Bus!PortF)
                     \cup Bus!Written(port \cap Bus!PortF, "ce", high)
    BY <1>1, <1>4 DEF Bus!WritesPin
  <2>2. \A pin : pin \in port' <=> IF pin = "ce" THEN high ELSE pin \in port
    BY <1>1, <2>1 DEF Bus!Written
  <2>3. /\ copy' \in [BusThread -> (SUBSET Bus!PortF) \cup {Bus!NoCopy}]
        /\ copy'[BusRadio] = Bus!NoCopy
        /\ \A u \in BusThread : u # BusRadio => copy'[u] = copy[u]
    BY <1>1, <2>1
  <2>4. /\ port' \subseteq Bus!Chip \cup {"ce"}
        /\ \A chip \in Bus!Chip : chip \in port' <=> chip \in port
    BY <1>1, <2>2
  <2> QED BY <1>2, <2>1, <2>2, <2>3, <2>4
<1> QED BY <1>3, <1>4

\* The sender has interrupts off when it writes RF_CE.
LEMMA SenderHalts ==
  ASSUME BusInv, busPc[BusRadio] \notin {"idle", "yielded"}
  PROVE  busHalter = BusRadio
BY DEF BusInv, BusHalted

LEMMA CeSteps ==
  ASSUME BusInv, NEW from \in {"standby", "sending", "started"},
         NEW to \in {"acquire", "started", "sent"}, NEW high \in BOOLEAN,
         Bus!WritesPin(BusRadio, from, "ce", high, to),
         UNCHANGED <<busHalter, busHolder, divider, admux, target, ready,
                     input>>,
         from = "standby" => phase' = phase /\ ~high /\ to = "acquire",
         from = "sending" =>
           \/ phase = "tx" /\ phase' = phase /\ high /\ to = "started"
           \/ phase = "rx" /\ phase' = phase /\ high /\ to = "sent",
         from = "started" =>
           /\ phase = "tx" /\ ~high /\ to = "acquire"
           /\ phase' = IF busPc'[BusRadio] = "acquire" THEN "wait" ELSE phase
  PROVE  BusInv'
<1> USE BusConstants
<1>1. /\ copy' \in [BusThread -> (SUBSET Bus!PortF) \cup {Bus!NoCopy}]
      /\ port' \subseteq Bus!Chip \cup {"ce"}
      /\ \A chip \in Bus!Chip : chip \in port' <=> chip \in port
      /\ \A pin : pin # "ce" => (pin \in port' <=> pin \in port)
      /\ \A u \in BusThread : u # BusRadio => copy'[u] = copy[u]
      /\ busPc[BusRadio] = from
      /\ \/ /\ Bus!Goes(BusRadio, from, from)
            /\ port' = port /\ copy'[BusRadio] = port' \cap Bus!PortF
         \/ /\ Bus!Goes(BusRadio, from, to)
            /\ "ce" \in port' <=> high
            /\ copy'[BusRadio] = Bus!NoCopy
  BY CeWritten
<1>2. /\ from \in SendPcs \ CommandPcs /\ to \in SendPcs \ CommandPcs
      /\ from \notin {"idle", "yielded"} /\ to \notin {"idle", "yielded"}
  BY DEF SendPcs, CommandPcs
<1>3. busHalter' = BusRadio
  BY <1>1, <1>2, SenderHalts
<1>4. phase' \in {"none", "tx", "wait", "rx"}
  BY DEF BusInv, BusTypes, Bus!BusTypeOK
<1>5. phase \in {"tx", "rx"}
  BY <1>1 DEF BusInv, BusPhase
<1>6. from # "standby" \/ phase = "rx" => busHolder["spi"] = Nobody
  BY <1>1, <1>5 DEF BusInv, BusPhase
<1>7. ASSUME NEW u \in BusThread, u # BusRadio, copy'[u] # Bus!NoCopy
      PROVE  /\ from = "standby" /\ phase = "tx" /\ phase' = "tx"
             /\ busPc[u] \in {"select", "deselect"}
             /\ copy'[u] \ {"ce"} = (port' \cap Bus!PortF) \ {"ce"}
  <2>1. copy[u] # Bus!NoCopy /\ copy'[u] = copy[u]
    BY <1>1, <1>7
  <2>2. from = "standby" /\ phase = "tx"
    BY <1>5, <1>6, <1>7, <2>1, NoCopies
  <2>3. /\ busPc[u] \in {"select", "deselect"}
        /\ copy[u] \ {"ce"} = (port \cap Bus!PortF) \ {"ce"}
    BY <1>7, <2>1 DEF BusInv, BusCopies
  <2>4. (port' \cap Bus!PortF) \ {"ce"} = (port \cap Bus!PortF) \ {"ce"}
    BY <1>1
  <2> QED BY <2>1, <2>2, <2>3, <2>4
<1>8. CASE /\ Bus!Goes(BusRadio, from, from)
           /\ port' = port /\ copy'[BusRadio] = port' \cap Bus!PortF
  <2>1. /\ BusTypes' /\ BusHalted' /\ BusLocked' /\ BusSelected' /\ BusQuiet'
        /\ busPc'[BusRadio] = from
        /\ \A u \in BusThread : u # BusRadio => busPc'[u] = busPc[u]
    BY <1>1, <1>2, <1>3, <1>4, <1>8, SendStep
  <2>2. phase' = phase
    BY <2>1
  <2>3. BusPhase'
    BY <1>1, <1>8, <2>1, <2>2 DEF BusInv, BusPhase
  <2>4. BusCopies'
    BY <1>5, <1>7, <1>8, <2>1, <2>2 DEF BusCopies
  <2> QED BY <2>1, <2>3, <2>4 DEF BusInv
<1>9. CASE /\ Bus!Goes(BusRadio, from, to)
           /\ "ce" \in port' <=> high
           /\ copy'[BusRadio] = Bus!NoCopy
  <2>1. /\ BusTypes' /\ BusHalted' /\ BusLocked' /\ BusSelected' /\ BusQuiet'
        /\ busPc'[BusRadio] = to
        /\ \A u \in BusThread : u # BusRadio => busPc'[u] = busPc[u]
    BY <1>1, <1>2, <1>3, <1>4, <1>9, SendStep
  <2>2. BusPhase'
    <3>1. CASE from = "standby"
      BY <1>5, <1>9, <2>1, <3>1 DEF BusPhase
    <3>2. CASE from = "sending"
      BY <1>5, <1>6, <1>9, <2>1, <3>2 DEF BusPhase
    <3>3. CASE from = "started"
      BY <1>9, <2>1, <3>3 DEF BusPhase
    <3> QED BY <3>1, <3>2, <3>3
  <2>3. BusCopies'
    BY <1>7, <1>9, <2>1 DEF BusCopies
  <2> QED BY <2>1, <2>2, <2>3 DEF BusInv
<1> QED BY <1>1, <1>8, <1>9

LEMMA CeKeeps ==
  ASSUME BusInv,
         \/ Bus!LeaveReceiveMode \/ Bus!StartTransmission \/ Bus!EndPulse
         \/ Bus!ReceiveAgain
  PROVE  BusInv'
<1>1. CASE Bus!LeaveReceiveMode
  <2> DEFINE from == "standby"
  <2>1. /\ Bus!WritesPin(BusRadio, from, "ce", FALSE, "acquire")
        /\ UNCHANGED <<busHalter, busHolder, divider, admux, target, ready,
                       input, phase>>
    BY <1>1, Zenon DEF Bus!LeaveReceiveMode, Bus!busCalls
  <2>2. from = "standby" /\ from # "sending" /\ from # "started"
    OBVIOUS
  <2> HIDE DEF from
  <2> QED BY <2>1, <2>2, CeSteps
<1>2. CASE Bus!StartTransmission
  <2> DEFINE from == "sending"
  <2>1. /\ Bus!WritesPin(BusRadio, from, "ce", TRUE, "started")
        /\ phase = "tx"
        /\ UNCHANGED <<busHalter, busHolder, divider, admux, target, ready,
                       input, phase>>
    BY <1>2, Zenon DEF Bus!StartTransmission, Bus!busCalls
  <2>2. from # "standby" /\ from = "sending" /\ from # "started"
    OBVIOUS
  <2> HIDE DEF from
  <2> QED BY <2>1, <2>2, CeSteps
<1>3. CASE Bus!EndPulse
  <2> DEFINE from == "started"
  <2>1. /\ Bus!WritesPin(BusRadio, from, "ce", FALSE, "acquire")
        /\ phase = "tx"
        /\ phase' = IF busPc'[BusRadio] = "acquire" THEN "wait" ELSE phase
        /\ UNCHANGED <<busHalter, busHolder, divider, admux, target, ready,
                       input>>
    BY <1>3 DEF Bus!EndPulse
  <2>2. from # "standby" /\ from # "sending" /\ from = "started"
    OBVIOUS
  <2> HIDE DEF from
  <2> QED BY <2>1, <2>2, CeSteps
<1>4. CASE Bus!ReceiveAgain
  <2> DEFINE from == "sending"
  <2>1. /\ Bus!WritesPin(BusRadio, from, "ce", TRUE, "sent")
        /\ phase = "rx"
        /\ UNCHANGED <<busHalter, busHolder, divider, admux, target, ready,
                       input, phase>>
    BY <1>4, Zenon DEF Bus!ReceiveAgain, Bus!busCalls
  <2>2. from # "standby" /\ from = "sending" /\ from # "started"
    OBVIOUS
  <2> HIDE DEF from
  <2> QED BY <2>1, <2>2, CeSteps
<1> QED BY <1>1, <1>2, <1>3, <1>4

LEMMA SendKeeps ==
  ASSUME BusInv,
         \/ Bus!BeginSend \/ Bus!NextRegister \/ Bus!WaitForTransmission
         \/ Bus!Transmission \/ Bus!EndSend
  PROVE  BusInv'
<1> USE BusConstants
<1>1. /\ UNCHANGED <<busHolder, port, copy, divider, admux, target, ready,
                     input>>
  BY DEF Bus!BeginSend, Bus!NextRegister, Bus!WaitForTransmission,
         Bus!Transmission, Bus!EndSend, Bus!busVars, Bus!busRegisters,
         Bus!busCalls
<1>2. PICK from \in {"idle", "sending", "sent"},
           to \in {"idle", "standby", "acquire", "yielded"} :
        /\ Bus!Goes(BusRadio, from, to)
        /\ \/ /\ from = "idle" /\ to = "standby"
              /\ busHalter' = BusRadio /\ phase = "none" /\ phase' = "tx"
           \/ /\ from = "sending" /\ to = "acquire" /\ busHalter' = busHalter
              /\ phase \in {"tx", "rx"} /\ phase' = phase
              /\ copy[BusRadio] = Bus!NoCopy
           \/ /\ from = "sending" /\ to = "yielded" /\ busHalter' = Nobody
              /\ phase = "wait" /\ phase' = phase
           \/ /\ from = "sending" /\ to = "standby" /\ busHalter' = busHalter
              /\ phase = "wait" /\ phase' = "rx"
           \/ /\ from = "sent" /\ to = "idle" /\ busHalter' = Nobody
              /\ phase' = "none"
  <2>1. CASE Bus!BeginSend
    BY <2>1 DEF Bus!BeginSend, Bus!InterruptsOff
  <2>2. CASE Bus!NextRegister
    BY <2>2 DEF Bus!NextRegister, Bus!busVars, Bus!busCalls
  <2>3. CASE Bus!WaitForTransmission
    BY <2>3 DEF Bus!WaitForTransmission, Bus!busVars, Bus!busCalls
  <2>4. CASE Bus!Transmission
    BY <2>4 DEF Bus!Transmission
  <2>5. CASE Bus!EndSend
    BY <2>5 DEF Bus!EndSend
  <2> QED BY <2>1, <2>2, <2>3, <2>4, <2>5
<1>3. busPc[BusRadio] = from
  BY <1>2 DEF Bus!Goes
<1>4. /\ from \in SendPcs \ CommandPcs /\ to \in SendPcs \ CommandPcs
  BY DEF SendPcs, CommandPcs
<1>5. busHalter' = IF to \in {"idle", "yielded"} THEN Nobody ELSE BusRadio
  BY <1>2, <1>3, SenderHalts
<1>6. /\ phase' \in {"none", "tx", "wait", "rx"}
      /\ port' \subseteq Bus!Chip \cup {"ce"}
      /\ copy' \in [BusThread -> (SUBSET Bus!PortF) \cup {Bus!NoCopy}]
  BY <1>1, <1>2 DEF BusInv, BusTypes, Bus!BusTypeOK
<1>7. /\ BusTypes' /\ BusHalted' /\ BusLocked' /\ BusSelected' /\ BusQuiet'
      /\ busPc'[BusRadio] = to
      /\ \A u \in BusThread : u # BusRadio => busPc'[u] = busPc[u]
  BY <1>1, <1>2, <1>4, <1>5, <1>6, SendStep
<1>8. BusPhase'
  BY <1>1, <1>2, <1>3, <1>7 DEF BusInv, BusPhase
<1>9. BusCopies'
  <2>1. phase' # "tx" => phase # "tx"
    BY <1>2, <1>3 DEF BusInv, BusPhase
  <2>2. ASSUME copy[BusRadio] # Bus!NoCopy
        PROVE  to = "standby" /\ phase' # "wait"
    <3>1. busPc[BusRadio] = "sending" /\ phase # "wait"
      BY <1>2, <1>3, <2>2 DEF BusInv, BusCopies
    <3> QED BY <1>2, <1>3, <2>2, <3>1
  <2> QED BY <1>1, <1>7, <2>1, <2>2 DEF BusInv, BusCopies
<1> QED BY <1>7, <1>8, <1>9 DEF BusInv

-----------------------------------------------------------------------------

LEMMA BusNextKeeps == BusInv /\ [Bus!BusNext]_busVars => BusInv'
<1> SUFFICES ASSUME BusInv, [Bus!BusNext]_busVars
             PROVE  BusInv'
  OBVIOUS
<1>1. CASE UNCHANGED busVars
  BY <1>1 DEF busVars, BusInv, BusTypes, Bus!BusTypeOK, BusHalted, BusLocked,
              BusSelected, BusQuiet, NobodyTransfers, Bus!Selected, BusPhase,
              BusCopies
<1>2. ASSUME NEW t \in BusThread,
             \/ Bus!ReadMotorChip(t) \/ Bus!RadioCommand(t)
             \/ Bus!FlashCommand(t)
             \/ \E sensor \in {15, 16} : Bus!ReadSensor(t, sensor)
             \/ Bus!AcquireBus(t) \/ Bus!ResumeRadio(t) \/ Bus!SetMaster(t)
             \/ Bus!SelectChip(t) \/ Bus!TransferByte(t)
             \/ Bus!DeselectChip(t) \/ Bus!ReleaseBus(t)
             \/ \E i \in Bus!Inputs : Bus!AskAdc(t, i)
             \/ Bus!AcquireAdc(t) \/ Bus!StartAdc(t) \/ Bus!ReadAdc(t)
      PROVE  BusInv'
  BY <1>2, BeginsKeeps, AcquireBusKeeps, ResumeKeeps, SetMasterKeeps,
     SelectKeeps, TransferKeeps, DeselectKeeps, ReleaseKeeps, AdcKeeps
<1>3. CASE \/ Bus!BeginSend \/ Bus!LeaveReceiveMode \/ Bus!NextRegister
           \/ Bus!StartTransmission \/ Bus!EndPulse
           \/ Bus!WaitForTransmission \/ Bus!Transmission
           \/ Bus!ReceiveAgain \/ Bus!EndSend
  BY <1>3, CeKeeps, SendKeeps
<1> QED BY <1>1, <1>2, <1>3 DEF Bus!BusNext

LEMMA BusSteps ==
  [Next]_vars =>
    part' = part /\ IF part = "bus" THEN [Bus!BusNext]_busVars
                                    ELSE UNCHANGED busVars
BY DEF Next, vars

LEMMA BusInvariant == Spec => [](part = "bus" => BusInv)
<1>1. Init => (part = "bus" => BusInv)
  BY BusStart DEF Init
<1>2. (part = "bus" => BusInv) /\ [Next]_vars => (part = "bus" => BusInv)'
  BY BusSteps, BusNextKeeps
<1> QED BY <1>1, <1>2, PTL DEF Spec

\* spi_acquire() keeps commands apart: a byte goes to one chip, the one it is
\* meant for, at its clock; RF_CE follows what rf_send_packet() waits for,
\* though it is written without the lock next to select lines that are
\* written with it; and the processor's converter samples the input asked for.
THEOREM BusIsShared == Spec => []BusIsOurs
<1>1. (part = "bus" => BusInv) => BusIsOurs
  <2> SUFFICES ASSUME BusInv
               PROVE  /\ Bus!OneChipHears /\ Bus!ReceiverFollows
                      /\ Bus!AdcSamplesInput
    BY DEF BusIsOurs
  <2>1. Bus!OneChipHears
    BY DEF BusInv, BusSelected, Bus!OneChipHears
  <2>2. Bus!ReceiverFollows
    BY DEF BusInv, BusPhase, Bus!ReceiverFollows
  <2>3. Bus!AdcSamplesInput
    BY DEF BusInv, BusLocked, Bus!AdcSamplesInput
  <2> QED BY <2>1, <2>2, <2>3
<1> QED BY <1>1, BusInvariant, PTL

-----------------------------------------------------------------------------
(* Gyro: the clock *)

ClockTypes ==
  /\ global_time \in Nat /\ begun \in Nat
  /\ tcnt \in 0 .. Top - 1
  /\ ticks \in Nat /\ gyrLost \in Nat
  /\ pending \in BOOLEAN

Behind == IF pending THEN Top ELSE 0

\* The time before it is reduced modulo 2^w.
ClockRight ==
  global_time * Gyr!MsTicks + tcnt - Expire
    = begun * Gyr!MsTicks + ticks - gyrLost - Behind

ClockInv == ClockTypes /\ ClockRight

LEMMA ClockConstants ==
  /\ Top \in Nat /\ Expire \in Nat /\ Gyr!MsTicks \in Nat
  /\ Expire >= 1 /\ Expire < Top /\ Gyr!MsTicks = Top - Expire
  /\ StartTimes \subseteq Nat
BY DriversAssumption DEF Gyr!GyroAssumption, Gyr!MsTicks

LEMMA ClockInit == Gyr!GyroInit => ClockInv
<1> SUFFICES ASSUME Gyr!GyroInit PROVE ClockInv
  OBVIOUS
<1>1. /\ begun = global_time /\ global_time \in Nat /\ tcnt = Expire
      /\ pending = FALSE /\ ticks = 0 /\ gyrLost = 0
  BY ClockConstants DEF Gyr!GyroInit
<1>2. ClockTypes
  <2>1. pending \in BOOLEAN
    BY <1>1, Zenon
  <2>2. /\ tcnt \in 0 .. Top - 1 /\ ticks \in Nat /\ gyrLost \in Nat
        /\ global_time \in Nat /\ begun \in Nat
    BY <1>1, ClockConstants
  <2> QED BY <2>1, <2>2 DEF ClockTypes
<1>3. begun * Gyr!MsTicks \in Int
  BY <1>1, ClockConstants
<1>4. ClockRight
  BY <1>1, <1>3, ClockConstants DEF ClockRight, Behind
<1> QED BY <1>2, <1>4 DEF ClockInv

LEMMA TickKeeps ==
  ASSUME ClockInv, Gyr!Tick
  PROVE  ClockInv'
<1> DEFINE time == global_time * Gyr!MsTicks
           start == begun * Gyr!MsTicks
<1>1. /\ ticks' = ticks + 1 /\ tcnt' = (tcnt + 1) % Top
      /\ global_time' = global_time /\ begun' = begun /\ gyrLost' = gyrLost
      /\ pending => tcnt < Top - 1
      /\ pending' = (pending \/ tcnt = Top - 1)
  BY DEF Gyr!Tick
<1>2. /\ tcnt \in 0 .. Top - 1 /\ ticks \in Nat /\ gyrLost \in Nat
      /\ global_time \in Nat /\ begun \in Nat /\ pending \in BOOLEAN
  BY DEF ClockInv, ClockTypes
<1>3. time \in Int /\ start \in Int
  BY <1>2, ClockConstants
<1>4. /\ time' = time /\ start' = start
  BY <1>1
<1> HIDE DEF time, start
<1>5. time + tcnt - Expire = start + ticks - gyrLost - Behind
  BY DEF ClockInv, ClockRight, time, start
<1>6. CASE tcnt < Top - 1
  <2>1. tcnt' = tcnt + 1
    BY <1>1, <1>2, <1>6, ClockConstants
  <2>2. pending' = pending
    BY <1>1, <1>2, <1>6, ClockConstants
  <2>3. Behind' = Behind /\ Behind \in Int
    BY <2>2, ClockConstants DEF Behind
  <2>4. time' + tcnt' - Expire = start' + ticks' - gyrLost' - Behind'
    BY <1>1, <1>2, <1>3, <1>4, <1>5, <2>1, <2>3, ClockConstants
  <2>5. ClockTypes'
    BY <1>1, <1>2, <1>6, <2>1, <2>2, ClockConstants DEF ClockTypes
  <2> QED BY <2>4, <2>5 DEF ClockInv, ClockRight, time, start
<1>7. CASE tcnt = Top - 1
  <2>1. tcnt' = 0
    BY <1>1, <1>7, ClockConstants
  <2>2. pending' = TRUE /\ pending = FALSE
    <3>1. ~(tcnt < Top - 1)
      BY <1>7, ClockConstants
    <3>2. ~pending
      BY <1>1, <3>1
    <3>3. pending'
      BY <1>1, <1>7, Zenon
    <3> QED BY <1>1, <1>2, <3>2, <3>3, Zenon
  <2>3. Behind' = Top /\ Behind = 0
    BY <2>2, Zenon DEF Behind
  <2>4. time' + tcnt' - Expire = start' + ticks' - gyrLost' - Behind'
    BY <1>1, <1>2, <1>3, <1>4, <1>5, <1>7, <2>1, <2>3, ClockConstants
  <2>5. ClockTypes'
    BY <1>1, <1>2, <2>1, <2>2, ClockConstants DEF ClockTypes
  <2> QED BY <2>4, <2>5 DEF ClockInv, ClockRight, time, start
<1> QED BY <1>2, <1>6, <1>7, ClockConstants

LEMMA InterruptKeeps ==
  ASSUME ClockInv, Gyr!TimerInterrupt
  PROVE  ClockInv'
<1> DEFINE time == global_time * Gyr!MsTicks
           start == begun * Gyr!MsTicks
<1>1. /\ ticks' = ticks /\ tcnt' = Expire /\ begun' = begun
      /\ global_time' = global_time + 1 /\ gyrLost' = gyrLost + tcnt
      /\ pending /\ pending' = FALSE
  BY DEF Gyr!TimerInterrupt, Gyr!Reloaded
<1>2. /\ tcnt \in 0 .. Top - 1 /\ ticks \in Nat /\ gyrLost \in Nat
      /\ global_time \in Nat /\ begun \in Nat
  BY DEF ClockInv, ClockTypes
<1>3. time \in Int /\ start \in Int
  BY <1>2, ClockConstants
<1>4. time' = time + Gyr!MsTicks /\ start' = start
  BY <1>1, <1>2, ClockConstants
<1> HIDE DEF time, start
<1>5. time + tcnt - Expire = start + ticks - gyrLost - Behind
  BY DEF ClockInv, ClockRight, time, start
<1>6. Behind' = 0 /\ Behind = Top
  BY <1>1 DEF Behind
<1>7. time' + tcnt' - Expire = start' + ticks' - gyrLost' - Behind'
  BY <1>1, <1>2, <1>3, <1>4, <1>5, <1>6, ClockConstants
<1>8. ClockTypes'
  <2>1. pending' \in BOOLEAN
    BY <1>1, Zenon
  <2>2. /\ tcnt' \in 0 .. Top - 1 /\ ticks' \in Nat /\ gyrLost' \in Nat
        /\ global_time' \in Nat /\ begun' \in Nat
    BY <1>1, <1>2, ClockConstants
  <2> QED BY <2>1, <2>2 DEF ClockTypes
<1> QED BY <1>7, <1>8 DEF ClockInv, ClockRight, time, start

LEMMA ClockNextKeeps == ClockInv /\ [Gyr!GyroNext]_gyrVars => ClockInv'
<1> SUFFICES ASSUME ClockInv, [Gyr!GyroNext]_gyrVars PROVE ClockInv'
  OBVIOUS
<1>1. CASE Gyr!Tick
  BY <1>1, TickKeeps
<1>2. CASE Gyr!TimerInterrupt
  BY <1>2, InterruptKeeps
<1>3. CASE UNCHANGED <<global_time, tcnt, pending, ticks, begun, gyrLost>>
  BY <1>3 DEF ClockInv, ClockTypes, ClockRight, Behind
<1>4. \/ Gyr!Tick \/ Gyr!TimerInterrupt
      \/ UNCHANGED <<global_time, tcnt, pending, ticks, begun, gyrLost>>
  <2> USE DEF Gyr!clockVars, Gyr!gyroVars
  <2>1. CASE UNCHANGED gyrVars
    BY <2>1 DEF gyrVars
  <2>2. CASE \/ Gyr!BeginSection \/ Gyr!EndSection \/ Gyr!BeginCalibration
             \/ Gyr!EndCalibration
             \/ \E r \in Readings : Gyr!Calibrate(r) \/ Gyr!TakeSample(r)
    BY <2>2 DEF Gyr!BeginSection, Gyr!EndSection, Gyr!BeginCalibration,
                Gyr!EndCalibration, Gyr!Calibrate, Gyr!TakeSample
  <2>3. CASE \/ Gyr!UpdateBegins \/ Gyr!FirstTime \/ Gyr!MaskInterrupts
             \/ Gyr!NewTime \/ Gyr!LockTheta \/ Gyr!ApplyFix
             \/ Gyr!IntegrateTheta \/ Gyr!UnlockTheta
    BY <2>3 DEF Gyr!UpdateBegins, Gyr!FirstTime, Gyr!MaskInterrupts,
                Gyr!NewTime, Gyr!LockTheta, Gyr!ApplyFix,
                Gyr!IntegrateTheta, Gyr!UnlockTheta
  <2>4. CASE \/ Gyr!CallSetDegrees \/ (\E d \in Degrees : Gyr!SetDegrees(d))
             \/ Gyr!CallGetDegrees \/ Gyr!DegreesReturns
    BY <2>4 DEF Gyr!CallSetDegrees, Gyr!SetDegrees, Gyr!CallGetDegrees,
                Gyr!DegreesReturns
  <2> QED BY <2>1, <2>2, <2>3, <2>4 DEF Gyr!GyroNext
<1> QED BY <1>1, <1>2, <1>3, <1>4

LEMMA GyroSteps ==
  [Next]_vars =>
    part' = part /\ IF part = "gyro" THEN [Gyr!GyroNext]_gyrVars
                                     ELSE UNCHANGED gyrVars
BY DEF Next, vars

LEMMA ClockInvariant == Spec => [](part = "gyro" => ClockInv)
<1>1. Init => (part = "gyro" => ClockInv)
  BY ClockInit DEF Init
<1>2. (part = "gyro" => ClockInv) /\ [Next]_vars
        => (part = "gyro" => ClockInv)'
  BY GyroSteps, ClockNextKeeps
<1> QED BY <1>1, <1>2, PTL DEF Spec

\* get_time_us() tells every tick of the timer, at whichever time the
\* interrupt comes, but for those that passed while it was held up: the second
\* half of GyroIsTrue, for a timer and a calibration of any length.
THEOREM TimeIsTold == Spec => [](part = "gyro" => Gyr!TimeTold)
<1>1. ClockInv => Gyr!TimeTold
  BY DEF ClockInv, ClockRight, Behind, Gyr!TimeTold, Gyr!TimeUs
<1> QED BY <1>1, ClockInvariant, PTL

LEMMA SmallModulo ==
  ASSUME NEW c \in Nat \ {0}, NEW p \in 0 .. c - 1
  PROVE  p % c = p
OBVIOUS

LEMMA GoesRound ==
  ASSUME NEW c \in Nat \ {0}, NEW p \in c .. 2 * c - 1
  PROVE  p % c = p - c
OBVIOUS

LEMMA WrapsOnce ==
  ASSUME NEW c \in Nat \ {0}, NEW p \in Int, NEW q \in Int,
         NEW r \in 0 .. c - 1, p = q * c + r
  PROVE  p % c = r
OBVIOUS

-----------------------------------------------------------------------------
(* Gyro: the heading *)

GyroPcs == {"idle", "first", "sample", "mask", "time", "lock", "fix", "theta",
            "unlock"}
UserPcs == {"idle", "section", "calibrate", "setDegrees", "degreesDone"}

HeadTypes ==
  /\ gyrPc \in [GyrThread -> GyroPcs \cup UserPcs]
  /\ gyrHolder \in [{"gyro"} -> GyrThread \cup {Nobody}]
  /\ samples \in Nat /\ sum \in Int
  /\ _theta \in Int /\ _theta_fix \in Int /\ area \in Int /\ dtheta \in Int
  /\ reading \in Int /\ time_us \in Int /\ new_time_us \in Int
  /\ gyrSince \in Int \X Int

\* The angle is read, set and integrated under the lock.
HeadTurn ==
  /\ gyrPc[GyroThread] \in {"fix", "theta", "unlock"} =>
       gyrHolder["gyro"] = GyroThread
  /\ gyrPc[User] \in {"setDegrees", "degreesDone"} =>
       gyrHolder["gyro"] = User /\ samples > 0

\* Nothing is integrated before the average is known.
NotYet ==
  samples = 0 \/ gyrPc[User] = "calibrate" =>
    /\ gyrPc[GyroThread] = "idle"
    /\ _theta = 0 /\ _theta_fix = 0 /\ area = 0 /\ gyrSince = <<0, 0>>

\* How far the angle has come, in units of the remainder.
Come(theta, fix) == samples * (theta - gyrSince[1]) + (fix - gyrSince[2])

\* With the remainder applied the angle is about to follow.
HeadRight ==
  IF gyrPc[GyroThread] = "theta"
  THEN Come(_theta - dtheta, _theta_fix)
         = -(area + (samples * reading - sum) * Gyr!Signed32(Gyr!Delta))
  ELSE Come(_theta, _theta_fix) = -area

HeadInv == HeadTypes /\ HeadTurn /\ NotYet /\ HeadRight

\* Where the driver multiplies, the products are numbers of 32 bits: the time
\* since the sample before is short enough.
ProductsFit ==
  part = "gyro" /\ gyrPc[GyroThread] = "fix" =>
    LET half == Modulus32 \div 2
        passed == Gyr!Signed32(Gyr!Delta)
    IN /\ (reading - Gyr!_offset) * passed \in -half .. half - 1
       /\ Gyr!_offset_fix * passed \in -half .. half - 1

LEMMA GyroConstants ==
  /\ Nobody \notin GyrThread
  /\ GyroThread \in GyrThread /\ User \in GyrThread /\ User # GyroThread
  /\ Modulus32 \in Nat \ {0} /\ Modulus32 % 2 = 0
  /\ Readings \subseteq Int /\ Degrees \subseteq Int
  /\ Top \in Nat /\ Expire \in Nat /\ Gyr!MsTicks \in Int
BY DriversAssumption
   DEF Gyr!GyroAssumption, Gyr!NobodyAssumption, Gyr!MsTicks

LEMMA HalfModulus ==
  /\ Modulus32 \div 2 \in Nat \ {0} /\ Modulus32 = 2 * (Modulus32 \div 2)
BY GyroConstants

LEMMA TimeUsIsInt == ClockTypes => Gyr!TimeUs \in Int
<1> SUFFICES ASSUME ClockTypes PROVE Gyr!TimeUs \in Int
  OBVIOUS
<1>1. global_time * Gyr!MsTicks \in Int
  BY GyroConstants DEF ClockTypes
<1>2. global_time * Gyr!MsTicks + tcnt - Expire \in Int
  BY <1>1, GyroConstants DEF ClockTypes
<1> QED
  BY <1>2, GyroConstants DEF Gyr!TimeUs

LEMMA SignedIsInt ==
  ASSUME NEW n \in Int
  PROVE  Gyr!Signed32(n) \in Int
<1> DEFINE half == Modulus32 \div 2
<1>1. half \in Nat \ {0}
  BY HalfModulus
<1> HIDE DEF half
<1>2. (n + half) % Modulus32 \in Int
  BY <1>1, GyroConstants
<1> QED
  BY <1>1, <1>2 DEF Gyr!Signed32, half

LEMMA Distributes ==
  ASSUME NEW a \in Int, NEW n \in Int, NEW k \in Int
  PROVE  a * (n - k) = a * n - a * k /\ a * n \in Int /\ a * k \in Int
OBVIOUS

\* A number less than the modulus is itself or one modulus more than what it
\* is as a signed number.
LEMMA SignedDelta ==
  ASSUME NEW n \in 0 .. Modulus32 - 1
  PROVE  \/ Gyr!Signed32(n) = n
         \/ Gyr!Signed32(n) = n - Modulus32
<1> DEFINE half == Modulus32 \div 2
<1>1. half \in Nat \ {0} /\ Modulus32 = 2 * half
  BY HalfModulus
<1> HIDE DEF half
<1>2. CASE n < half
  <2>1. n + half \in 0 .. Modulus32 - 1
    BY <1>1, <1>2
  <2>2. (n + half) % Modulus32 = n + half
    BY <2>1, SmallModulo, GyroConstants
  <2> QED
    BY <1>1, <2>2 DEF Gyr!Signed32, half
<1>3. CASE n >= half
  <2>1. n + half \in Modulus32 .. 2 * Modulus32 - 1
    BY <1>1, <1>3
  <2>2. (n + half) % Modulus32 = (n + half) - Modulus32
    BY <2>1, GoesRound, GyroConstants
  <2>3. Gyr!Signed32(n) = ((n + half) - Modulus32) - half
    BY <2>2 DEF Gyr!Signed32, half
  <2> QED
    BY <1>1, <2>3
<1> QED
  BY <1>1, <1>2, <1>3

\* A product that fits is what 32 bits make of it, also where a time that went
\* back is taken for a long one.
LEMMA ProductFits ==
  ASSUME NEW a \in Int, NEW n \in 0 .. Modulus32 - 1,
         a * Gyr!Signed32(n)
           \in -(Modulus32 \div 2) .. (Modulus32 \div 2) - 1
  PROVE  Gyr!Signed32(a * n) = a * Gyr!Signed32(n)
<1> DEFINE half == Modulus32 \div 2
           passed == Gyr!Signed32(n)
           product == a * passed
<1>1. half \in Nat \ {0} /\ Modulus32 = 2 * half
  BY HalfModulus
<1>2. passed \in Int /\ n \in Int
  BY SignedIsInt, GyroConstants
<1>3. passed = n \/ passed = n - Modulus32
  BY SignedDelta
<1>4. product \in Int /\ product \in -half .. half - 1
  BY <1>2
<1>5. \E q \in Int : a * n = product + q * Modulus32
  <2>1. CASE passed = n
    <3>1. a * n = product + 0 * Modulus32
      BY <1>2, <2>1, GyroConstants
    <3> QED
      BY <3>1
  <2>2. CASE passed = n - Modulus32
    <3>1. product = a * (n - Modulus32)
      BY <2>2
    <3>2. a * (n - Modulus32) = a * n - a * Modulus32 /\ a * n \in Int
          /\ a * Modulus32 \in Int
      BY <1>2, GyroConstants, Distributes
    <3>3. a * n = product + a * Modulus32
      BY <3>1, <3>2
    <3> QED
      BY <3>3
  <2> QED
    BY <1>3, <2>1, <2>2
<1> HIDE DEF half, passed, product
<1>6. PICK q \in Int : a * n = product + q * Modulus32
  BY <1>5
<1>7. /\ a * n + half = q * Modulus32 + (product + half)
      /\ product + half \in 0 .. Modulus32 - 1
      /\ a * n + half \in Int
  <2>1. q * Modulus32 \in Int
    BY GyroConstants
  <2> QED
    BY <1>1, <1>4, <1>6, <2>1
<1>8. (a * n + half) % Modulus32 = product + half
  BY <1>7, WrapsOnce, GyroConstants, Zenon
<1>9. Gyr!Signed32(a * n) = (product + half) - half
  BY <1>8 DEF Gyr!Signed32, half
<1> QED
  BY <1>1, <1>4, <1>9 DEF product, passed

\* The offset is the average, and what is left of it is accumulated.
LEMMA OffsetIsAverage ==
  ASSUME samples \in Nat \ {0}, sum \in Int
  PROVE  /\ Gyr!_offset \in Int /\ Gyr!_offset_fix \in Int
         /\ sum = samples * Gyr!_offset + Gyr!_offset_fix
BY DEF Gyr!_offset, Gyr!_offset_fix

LEMMA QuotientIsInt ==
  ASSUME samples \in Nat \ {0}, NEW n \in Int
  PROVE  Gyr!Quotient(n, samples) \in Int
BY DEF Gyr!Quotient

\* The fraction of the offset goes where the angle does not.
LEMMA FixIsExact ==
  ASSUME NEW s \in Int, NEW theta \in Int, NEW fix \in Int, NEW s1 \in Int,
         NEW s2 \in Int, NEW x \in Int, NEW o \in Int, NEW f \in Int,
         NEW d \in Int, NEW q \in Int, NEW a \in Int,
         s * (theta - s1) + (fix - s2) = -a
  PROVE  s * ((theta - ((x - o) * d - q)) - s1)
           + (((fix + f * d) - s * q) - s2)
         = -(a + (s * x - (s * o + f)) * d)
BY SMTT(30)

LEMMA HeadInit ==
  ASSUME Gyr!GyroInit, gyrHolder = [l \in {"gyro"} |-> Nobody],
         gyrPc = [t \in GyrThread |-> "idle"]
  PROVE  HeadInv
<1>1. /\ samples = 0 /\ sum = 0 /\ _theta = 0 /\ _theta_fix = 0 /\ area = 0
      /\ dtheta = 0 /\ reading = 0 /\ time_us = 0 /\ new_time_us = 0
      /\ gyrSince = <<0, 0>>
  BY DEF Gyr!GyroInit
<1>2. HeadTypes
  BY <1>1 DEF HeadTypes, GyroPcs
<1>3. HeadTurn /\ NotYet
  BY <1>1, GyroConstants DEF HeadTurn, NotYet
<1>4. HeadRight
  <2>1. gyrPc[GyroThread] # "theta"
    BY GyroConstants
  <2>2. Come(_theta, _theta_fix) = 0 * (0 - 0) + (0 - 0)
    BY <1>1 DEF Come
  <2> QED
    BY <1>1, <2>1, <2>2 DEF HeadRight
<1> QED
  BY <1>2, <1>3, <1>4 DEF HeadInv

-----------------------------------------------------------------------------
\* A step of one of the two threads.
LEMMA GyroGoes ==
  ASSUME HeadTypes, NEW t \in {User, GyroThread}, NEW from, NEW to,
         Gyr!Steps(t, from, to), to \in GyroPcs \cup UserPcs
  PROVE  /\ gyrPc[t] = from /\ gyrPc'[t] = to
         /\ gyrPc' \in [GyrThread -> GyroPcs \cup UserPcs]
         /\ \A u \in {User, GyroThread} \ {t} : gyrPc'[u] = gyrPc[u]
BY GyroConstants DEF HeadTypes, Gyr!Steps, Gyr!Goes

\* Steps that leave the angle and its calibration alone and, while the angle is
\* about to follow, the sample.
LEMMA HeadUnchanged ==
  ASSUME HeadInv, UNCHANGED <<samples, sum, _theta, _theta_fix, area, gyrSince>>,
         \/ gyrPc[GyroThread] # "theta" /\ gyrPc'[GyroThread] # "theta"
         \/ UNCHANGED <<gyrPc[GyroThread], dtheta, reading, time_us, new_time_us>>,
         HeadTypes', HeadTurn',
         samples = 0 \/ gyrPc'[User] = "calibrate" =>
           /\ gyrPc'[GyroThread] = gyrPc[GyroThread]
           /\ samples = 0 \/ gyrPc[User] = "calibrate"
  PROVE  HeadInv'
<1>1. NotYet'
  BY DEF HeadInv, NotYet
<1>2. HeadRight'
  BY DEF HeadInv, HeadRight, Come, Gyr!Signed32, Gyr!Delta
<1> QED
  BY <1>1, <1>2 DEF HeadInv

\* A step of the program that is not that of setting the angle.
LEMMA UserKeeps ==
  ASSUME HeadInv, NEW from, NEW to \in UserPcs, Gyr!Steps(User, from, to),
         UNCHANGED <<samples, sum, _theta, _theta_fix, area, gyrSince, dtheta,
                     reading, time_us, new_time_us>>,
         to = "calibrate" => samples = 0,
         \/ UNCHANGED gyrHolder /\ to \notin {"setDegrees", "degreesDone"}
         \/ Gyr!Takes(User, "gyro") /\ samples > 0
         \/ /\ Gyr!Gives(User, "gyro") /\ from = "degreesDone"
            /\ to \notin {"setDegrees", "degreesDone"}
  PROVE  HeadInv'
<1>1. /\ gyrPc[User] = from /\ gyrPc'[User] = to
      /\ gyrPc' \in [GyrThread -> GyroPcs \cup UserPcs]
      /\ gyrPc'[GyroThread] = gyrPc[GyroThread]
  BY GyroGoes, GyroConstants DEF HeadInv
<1>2. gyrHolder' \in [{"gyro"} -> GyrThread \cup {Nobody}]
  BY GyroConstants DEF HeadInv, HeadTypes, Gyr!Takes, Gyr!Gives
<1>3. HeadTypes'
  BY <1>1, <1>2 DEF HeadInv, HeadTypes
<1>4. HeadTurn'
  BY <1>1, GyroConstants DEF HeadInv, HeadTypes, HeadTurn, Gyr!Takes, Gyr!Gives
<1> QED
  BY <1>1, <1>3, <1>4, HeadUnchanged

\* A step of the gyro's thread that is not that of integrating.
LEMMA GyroKeeps ==
  ASSUME HeadInv, NEW from, NEW to \in GyroPcs, Gyr!Steps(GyroThread, from, to),
         UNCHANGED <<samples, sum, _theta, _theta_fix, area, gyrSince>>,
         dtheta' \in Int, reading' \in Int, time_us' \in Int,
         new_time_us' \in Int,
         from = "idle" => samples > 0 /\ gyrPc[User] # "calibrate",
         from # "theta", to # "theta",
         \/ UNCHANGED gyrHolder /\ to \notin {"fix", "theta", "unlock"}
         \/ Gyr!Takes(GyroThread, "gyro")
         \/ /\ Gyr!Gives(GyroThread, "gyro") /\ from = "unlock"
            /\ to \notin {"fix", "theta", "unlock"}
  PROVE  HeadInv'
<1>1. /\ gyrPc[GyroThread] = from /\ gyrPc'[GyroThread] = to
      /\ gyrPc' \in [GyrThread -> GyroPcs \cup UserPcs]
      /\ gyrPc'[User] = gyrPc[User]
  BY GyroGoes, GyroConstants DEF HeadInv
<1>2. gyrHolder' \in [{"gyro"} -> GyrThread \cup {Nobody}]
  BY GyroConstants DEF HeadInv, HeadTypes, Gyr!Takes, Gyr!Gives
<1>3. HeadTypes'
  BY <1>1, <1>2 DEF HeadInv, HeadTypes
<1>4. HeadTurn'
  BY <1>1, GyroConstants DEF HeadInv, HeadTypes, HeadTurn, Gyr!Takes, Gyr!Gives
<1>5. samples # 0 /\ gyrPc[User] # "calibrate"
  BY <1>1 DEF HeadInv, NotYet
<1> QED
  BY <1>1, <1>3, <1>4, <1>5, HeadUnchanged

LEMMA ApplyKeeps ==
  ASSUME HeadInv, ProductsFit, part = "gyro", Gyr!ApplyFix
  PROVE  HeadInv'
<1> DEFINE passed == Gyr!Signed32(Gyr!Delta)
           fix == _theta_fix + Gyr!_offset_fix * passed
           q == Gyr!Quotient(fix, samples)
<1>1. /\ samples \in Nat /\ sum \in Int /\ _theta \in Int /\ area \in Int
      /\ _theta_fix \in Int /\ reading \in Int /\ time_us \in Int
      /\ new_time_us \in Int /\ gyrSince \in Int \X Int
  BY DEF HeadInv, HeadTypes
<1>2. /\ gyrPc[GyroThread] = "fix" /\ gyrPc'[GyroThread] = "theta"
      /\ gyrPc' \in [GyrThread -> GyroPcs \cup UserPcs]
      /\ gyrPc'[User] = gyrPc[User]
  <2>1. Gyr!Steps(GyroThread, "fix", "theta") /\ "theta" \in GyroPcs \cup UserPcs
    BY DEF Gyr!ApplyFix, GyroPcs
  <2> QED
    BY <2>1, GyroGoes, GyroConstants DEF HeadInv
<1>3. samples \in Nat \ {0}
  BY <1>1, <1>2 DEF HeadInv, NotYet
<1>4. Gyr!Delta \in 0 .. Modulus32 - 1
  BY <1>1, GyroConstants DEF Gyr!Delta
<1>5. passed \in Int
  BY <1>4, SignedIsInt
<1>6. /\ Gyr!_offset \in Int /\ Gyr!_offset_fix \in Int
      /\ sum = samples * Gyr!_offset + Gyr!_offset_fix
  BY <1>1, <1>3, OffsetIsAverage
<1>7. /\ Gyr!Signed32((reading - Gyr!_offset) * Gyr!Delta)
           = (reading - Gyr!_offset) * passed
      /\ Gyr!Signed32(Gyr!_offset_fix * Gyr!Delta) = Gyr!_offset_fix * passed
  <2>1. /\ (reading - Gyr!_offset) * passed
             \in -(Modulus32 \div 2) .. (Modulus32 \div 2) - 1
        /\ Gyr!_offset_fix * passed
             \in -(Modulus32 \div 2) .. (Modulus32 \div 2) - 1
    BY <1>2 DEF ProductsFit
  <2>2. reading - Gyr!_offset \in Int
    BY <1>1, <1>6
  <2> QED
    BY <1>4, <1>6, <2>1, <2>2, ProductFits
<1>8. fix \in Int
  <2>1. Gyr!_offset_fix * passed \in Int
    BY <1>5, <1>6
  <2> QED
    BY <1>1, <2>1
<1>9. q \in Int
  BY <1>3, <1>8, QuotientIsInt
<1>10. /\ dtheta' = (reading - Gyr!_offset) * passed - q
       /\ _theta_fix' = fix - samples * q
       /\ UNCHANGED <<gyrHolder, samples, sum, _theta, area, gyrSince, time_us,
                      new_time_us, reading>>
  BY <1>7 DEF Gyr!ApplyFix, Gyr!FixLeft, Gyr!calibration
<1>11. (samples * (_theta - gyrSince[1]) + (_theta_fix - gyrSince[2])) = -area
  BY <1>2 DEF HeadInv, HeadRight, Come
<1>12. Gyr!Signed32(Gyr!Delta)' = passed
  BY <1>10 DEF Gyr!Signed32, Gyr!Delta
<1>13. dtheta' \in Int /\ _theta_fix' \in Int
  <2>1. (reading - Gyr!_offset) * passed \in Int /\ samples * q \in Int
    BY <1>1, <1>5, <1>6, <1>9
  <2> QED
    BY <1>8, <1>9, <1>10, <2>1
<1>14. HeadRight'
  <2> DEFINE o == Gyr!_offset
             f == Gyr!_offset_fix
             s1 == gyrSince[1]
             s2 == gyrSince[2]
  <2>1. s1 \in Int /\ s2 \in Int /\ o \in Int /\ f \in Int
    BY <1>1, <1>6
  <2>2. samples * (_theta - s1) + (_theta_fix - s2) = -area
    BY <1>11
  <2>3. Come(_theta - dtheta, _theta_fix)'
          = samples * ((_theta - ((reading - o) * passed - q)) - s1)
              + (((_theta_fix + f * passed) - samples * q) - s2)
    BY <1>10 DEF Come
  <2>4. (area + (samples * reading - sum) * Gyr!Signed32(Gyr!Delta))'
          = area + (samples * reading - (samples * o + f)) * passed
    BY <1>6, <1>10, <1>12
  <2> HIDE DEF o, f, s1, s2, passed, q
  <2>5. samples * ((_theta - ((reading - o) * passed - q)) - s1)
              + (((_theta_fix + f * passed) - samples * q) - s2)
          = -(area + (samples * reading - (samples * o + f)) * passed)
    BY <1>1, <1>5, <1>9, <2>1, <2>2, FixIsExact
  <2> QED
    BY <1>2, <2>3, <2>4, <2>5 DEF HeadRight
<1>15. HeadTypes'
  BY <1>1, <1>2, <1>10, <1>13 DEF HeadInv, HeadTypes
<1>16. HeadTurn' /\ NotYet'
  BY <1>2, <1>3, <1>10 DEF HeadInv, HeadTurn, NotYet
<1> QED
  BY <1>14, <1>15, <1>16 DEF HeadInv

LEMMA IntegrateKeeps ==
  ASSUME HeadInv, Gyr!IntegrateTheta
  PROVE  HeadInv'
<1> DEFINE turned == (samples * reading - sum) * Gyr!Signed32(Gyr!Delta)
<1>1. /\ samples \in Nat /\ sum \in Int /\ _theta \in Int /\ area \in Int
      /\ _theta_fix \in Int /\ reading \in Int /\ time_us \in Int
      /\ new_time_us \in Int /\ gyrSince \in Int \X Int /\ dtheta \in Int
  BY DEF HeadInv, HeadTypes
<1>2. /\ gyrPc[GyroThread] = "theta" /\ gyrPc'[GyroThread] = "unlock"
      /\ gyrPc' \in [GyrThread -> GyroPcs \cup UserPcs]
      /\ gyrPc'[User] = gyrPc[User]
  <2>1. /\ Gyr!Steps(GyroThread, "theta", "unlock")
        /\ "unlock" \in GyroPcs \cup UserPcs
    BY DEF Gyr!IntegrateTheta, GyroPcs
  <2> QED
    BY <2>1, GyroGoes, GyroConstants DEF HeadInv
<1>3. /\ _theta' = _theta - dtheta /\ area' = area + turned
      /\ UNCHANGED <<gyrHolder, samples, sum, _theta_fix, gyrSince, time_us,
                     new_time_us, reading, dtheta>>
  BY DEF Gyr!IntegrateTheta, Gyr!calibration, Gyr!update
<1>4. turned \in Int
  <2>1. Gyr!Delta \in Int
    BY <1>1, GyroConstants DEF Gyr!Delta
  <2>2. Gyr!Signed32(Gyr!Delta) \in Int
    BY <2>1, SignedIsInt
  <2>3. samples * reading - sum \in Int
    BY <1>1
  <2> QED
    BY <2>2, <2>3
<1>5. HeadRight'
  <2>1. Come(_theta - dtheta, _theta_fix) = -(area + turned)
    BY <1>2 DEF HeadInv, HeadRight
  <2>2. Come(_theta, _theta_fix)' = Come(_theta - dtheta, _theta_fix)
    BY <1>3 DEF Come
  <2>3. -(area + turned) = -area'
    BY <1>3
  <2> QED
    BY <1>2, <2>1, <2>2, <2>3 DEF HeadRight
<1>6. HeadTypes'
  <2>1. _theta' \in Int /\ area' \in Int
    BY <1>1, <1>3, <1>4
  <2> QED
    BY <1>1, <1>2, <1>3, <2>1 DEF HeadInv, HeadTypes
<1>7. HeadTurn' /\ NotYet'
  BY <1>2, <1>3 DEF HeadInv, HeadTurn, NotYet
<1> QED
  BY <1>5, <1>6, <1>7 DEF HeadInv

LEMMA CalibrateKeeps ==
  ASSUME HeadInv, NEW r \in Readings, Gyr!Calibrate(r)
  PROVE  HeadInv'
<1>1. Gyr!Steps(User, "calibrate", "calibrate") /\ "calibrate" \in UserPcs
  BY DEF Gyr!Calibrate, UserPcs
<1>2. /\ gyrPc[User] = "calibrate" /\ gyrPc'[User] = "calibrate"
      /\ gyrPc' \in [GyrThread -> GyroPcs \cup UserPcs]
      /\ gyrPc'[GyroThread] = gyrPc[GyroThread]
  BY <1>1, GyroGoes, GyroConstants DEF HeadInv
<1>3. /\ samples' = samples + 1 /\ sum' = sum + r
      /\ UNCHANGED <<gyrHolder, _theta, _theta_fix, area, gyrSince, dtheta,
                     reading, time_us, new_time_us>>
  BY DEF Gyr!Calibrate, Gyr!angle, Gyr!update
<1>4. HeadTypes'
  BY <1>2, <1>3, GyroConstants DEF HeadInv, HeadTypes
<1>5. HeadTurn'
  BY <1>2, <1>3 DEF HeadInv, HeadTypes, HeadTurn
<1>6. /\ gyrPc[GyroThread] = "idle" /\ _theta = 0 /\ _theta_fix = 0 /\ area = 0
      /\ gyrSince = <<0, 0>>
  BY <1>2 DEF HeadInv, NotYet
<1>7. NotYet'
  BY <1>2, <1>3, <1>6 DEF NotYet
<1>8. HeadRight'
  <2>1. Come(_theta, _theta_fix)' = samples' * (0 - 0) + (0 - 0)
    BY <1>3, <1>6 DEF Come
  <2>2. samples' \in Int
    BY <1>4 DEF HeadTypes
  <2> QED
    BY <1>2, <1>3, <1>6, <2>1, <2>2 DEF HeadRight
<1> QED
  BY <1>4, <1>5, <1>7, <1>8 DEF HeadInv

LEMMA Negated == \A x \in Int : -x = 0 - x
  OBVIOUS

LEMMA SetDegreesKeeps ==
  ASSUME HeadInv, NEW d \in Degrees, Gyr!SetDegrees(d)
  PROVE  HeadInv'
<1>1. Gyr!Steps(User, "setDegrees", "degreesDone") /\ "degreesDone" \in UserPcs
  BY DEF Gyr!SetDegrees, UserPcs
<1>2. /\ gyrPc[User] = "setDegrees" /\ gyrPc'[User] = "degreesDone"
      /\ gyrPc' \in [GyrThread -> GyroPcs \cup UserPcs]
      /\ gyrPc'[GyroThread] = gyrPc[GyroThread]
  BY <1>1, GyroGoes, GyroConstants DEF HeadInv
<1>3. /\ _theta' = d /\ gyrSince' = <<d, _theta_fix>> /\ area' = 0
      /\ UNCHANGED <<gyrHolder, samples, sum, _theta_fix, dtheta, reading,
                     time_us, new_time_us>>
  BY DEF Gyr!SetDegrees, Gyr!calibration, Gyr!update
<1>4. /\ d \in Int /\ samples \in Nat /\ _theta_fix \in Int
  BY GyroConstants DEF HeadInv, HeadTypes
<1>5. HeadTypes'
  BY <1>2, <1>3, <1>4 DEF HeadInv, HeadTypes
<1>6. HeadTurn'
  BY <1>2, <1>3 DEF HeadInv, HeadTurn
<1>7. samples # 0 /\ gyrPc'[GyroThread] # "theta"
  BY <1>2, <1>4, GyroConstants DEF HeadInv, HeadTurn
<1>8. NotYet'
  BY <1>2, <1>3, <1>7 DEF NotYet
<1>9. HeadRight'
  <2>1. gyrSince'[1] = d /\ gyrSince'[2] = _theta_fix
    BY <1>3
  <2>2. Come(_theta, _theta_fix)'
          = samples * (d - d) + (_theta_fix - _theta_fix)
    BY <1>3, <2>1 DEF Come
  <2>3. Come(_theta, _theta_fix)' = 0
    BY <1>4, <2>2
  <2>4. area' \in Int /\ 0 - area' = 0
    BY <1>3
  <2>5. -area' = 0
    BY <2>4, Negated, Zenon
  <2> QED
    BY <1>7, <2>3, <2>5, Zenon DEF HeadRight
<1> QED
  BY <1>5, <1>6, <1>8, <1>9 DEF HeadInv

LEMMA ClockStepKeeps ==
  ASSUME HeadInv,
         UNCHANGED <<gyrPc, gyrHolder, samples, sum, _theta, _theta_fix, area,
                     gyrSince, dtheta, reading, time_us, new_time_us>>
  PROVE  HeadInv'
<1>1. HeadTypes' /\ HeadTurn' /\ NotYet'
  BY DEF HeadInv, HeadTypes, HeadTurn, NotYet
<1>2. HeadRight'
  BY DEF HeadInv, HeadRight, Come, Gyr!Signed32, Gyr!Delta
<1> QED
  BY <1>1, <1>2 DEF HeadInv

LEMMA HeadNextKeeps ==
  ASSUME ClockTypes, HeadInv, ProductsFit, part = "gyro",
         [Gyr!GyroNext]_gyrVars
  PROVE  HeadInv'
<1> USE DEF Gyr!gyroVars, Gyr!clockVars, Gyr!calibration, Gyr!angle, Gyr!update
<1>1. CASE Gyr!Tick \/ Gyr!TimerInterrupt \/ UNCHANGED gyrVars
  BY <1>1, ClockStepKeeps DEF Gyr!Tick, Gyr!TimerInterrupt, gyrVars
<1>2. CASE \/ Gyr!BeginSection \/ Gyr!EndSection \/ Gyr!BeginCalibration
           \/ Gyr!EndCalibration \/ Gyr!CallSetDegrees \/ Gyr!CallGetDegrees
           \/ Gyr!DegreesReturns
  <2>1. PICK from \in UserPcs, to \in UserPcs :
          /\ Gyr!Steps(User, from, to)
          /\ UNCHANGED <<samples, sum, _theta, _theta_fix, area, gyrSince,
                         dtheta, reading, time_us, new_time_us>>
          /\ to = "calibrate" => samples = 0
          /\ \/ UNCHANGED gyrHolder /\ to \notin {"setDegrees", "degreesDone"}
             \/ Gyr!Takes(User, "gyro") /\ samples > 0
             \/ /\ Gyr!Gives(User, "gyro") /\ from = "degreesDone"
                /\ to \notin {"setDegrees", "degreesDone"}
    <3>1. {"idle", "section", "calibrate", "setDegrees", "degreesDone"} = UserPcs
      BY DEF UserPcs
    <3>2. CASE Gyr!BeginSection
      BY <3>1, <3>2 DEF Gyr!BeginSection
    <3>3. CASE Gyr!EndSection
      BY <3>1, <3>3 DEF Gyr!EndSection
    <3>4. CASE Gyr!BeginCalibration
      BY <3>1, <3>4 DEF Gyr!BeginCalibration
    <3>5. CASE Gyr!EndCalibration
      BY <3>1, <3>5 DEF Gyr!EndCalibration
    <3>6. CASE Gyr!CallSetDegrees
      BY <3>1, <3>6 DEF Gyr!CallSetDegrees
    <3>7. CASE Gyr!CallGetDegrees
      BY <3>1, <3>7 DEF Gyr!CallGetDegrees
    <3>8. CASE Gyr!DegreesReturns
      BY <3>1, <3>8 DEF Gyr!DegreesReturns
    <3> QED
      BY <1>2, <3>2, <3>3, <3>4, <3>5, <3>6, <3>7, <3>8
  <2> QED
    BY <2>1, UserKeeps
<1>3. CASE \/ Gyr!UpdateBegins \/ Gyr!FirstTime \/ Gyr!MaskInterrupts
           \/ Gyr!NewTime \/ Gyr!LockTheta \/ Gyr!UnlockTheta
           \/ \E r \in Readings : Gyr!TakeSample(r)
  <2>1. /\ Gyr!TimeUs \in Int /\ dtheta \in Int /\ reading \in Int
        /\ time_us \in Int /\ new_time_us \in Int /\ 0 \in Int
    BY TimeUsIsInt DEF HeadInv, HeadTypes
  <2>2. PICK from \in GyroPcs, to \in GyroPcs :
          /\ Gyr!Steps(GyroThread, from, to)
          /\ UNCHANGED <<samples, sum, _theta, _theta_fix, area, gyrSince>>
          /\ dtheta' \in Int /\ reading' \in Int /\ time_us' \in Int
          /\ new_time_us' \in Int
          /\ from = "idle" => samples > 0 /\ gyrPc[User] # "calibrate"
          /\ from # "theta" /\ to # "theta"
          /\ \/ UNCHANGED gyrHolder /\ to \notin {"fix", "theta", "unlock"}
             \/ Gyr!Takes(GyroThread, "gyro")
             \/ /\ Gyr!Gives(GyroThread, "gyro") /\ from = "unlock"
                /\ to \notin {"fix", "theta", "unlock"}
    <3>1. {"idle", "first", "sample", "mask", "time", "lock", "fix", "theta",
           "unlock"} = GyroPcs
      BY DEF GyroPcs
    <3>2. CASE Gyr!UpdateBegins
      BY <2>1, <3>1, <3>2 DEF Gyr!UpdateBegins
    <3>3. CASE Gyr!FirstTime
      BY <2>1, <3>1, <3>3 DEF Gyr!FirstTime
    <3>4. CASE Gyr!MaskInterrupts
      BY <2>1, <3>1, <3>4 DEF Gyr!MaskInterrupts
    <3>5. CASE Gyr!NewTime
      BY <2>1, <3>1, <3>5 DEF Gyr!NewTime
    <3>6. CASE Gyr!LockTheta
      BY <2>1, <3>1, <3>6 DEF Gyr!LockTheta
    <3>7. CASE Gyr!UnlockTheta
      BY <2>1, <3>1, <3>7 DEF Gyr!UnlockTheta
    <3>8. CASE \E r \in Readings : Gyr!TakeSample(r)
      BY <2>1, <3>1, <3>8, GyroConstants DEF Gyr!TakeSample
    <3> QED
      BY <1>3, <3>2, <3>3, <3>4, <3>5, <3>6, <3>7, <3>8
  <2> QED
    BY <2>2, GyroKeeps
<1>4. CASE Gyr!ApplyFix
  BY <1>4, ApplyKeeps
<1>5. CASE Gyr!IntegrateTheta
  BY <1>5, IntegrateKeeps
<1>6. CASE \E r \in Readings : Gyr!Calibrate(r)
  BY <1>6, CalibrateKeeps
<1>7. CASE \E d \in Degrees : Gyr!SetDegrees(d)
  BY <1>7, SetDegreesKeeps
<1> QED
  BY <1>1, <1>2, <1>3, <1>4, <1>5, <1>6, <1>7 DEF Gyr!GyroNext

\* Where every product fits, the heading is the integral of the readings less
\* their average, remainder included, over the time the clock told: GyroIsTrue
\* for any readings, any average and any order of updates, sets and interrupts
\* (gyro_update(), gyro_set_degrees(), get_time_us()).
THEOREM HeadingIsTrue == Spec /\ []ProductsFit => []GyroIsTrue
<1>1. Init => (part = "gyro" => HeadInv)
  BY HeadInit DEF Init
<1>2. /\ part = "gyro" => ClockInv
      /\ part = "gyro" => HeadInv
      /\ ProductsFit /\ [Next]_vars
      => (part = "gyro" => HeadInv)'
  BY GyroSteps, HeadNextKeeps DEF ClockInv
<1>3. (part = "gyro" => HeadInv) /\ (part = "gyro" => Gyr!TimeTold)
        => GyroIsTrue
  <2>1. HeadInv => Gyr!HeadingIsIntegral
    <3> SUFFICES ASSUME HeadInv, gyrPc[GyroThread] # "theta"
                 PROVE  samples * (_theta - gyrSince[1])
                          + (_theta_fix - gyrSince[2]) = -area
      BY DEF Gyr!HeadingIsIntegral
    <3> QED
      BY DEF HeadInv, HeadRight, Come
  <2> QED
    BY <2>1 DEF GyroIsTrue
<1>4. Spec => [](part = "gyro" => Gyr!TimeTold)
  BY TimeIsTold
<1>5. Spec => [](part = "gyro" => ClockInv)
  BY ClockInvariant
<1> QED
  BY <1>1, <1>2, <1>3, <1>4, <1>5, PTL DEF Spec
=============================================================================
