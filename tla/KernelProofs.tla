---------------------------- MODULE KernelProofs ----------------------------
(***************************************************************************)
(* Proofs about kern/ring.c (Ring), kern/board.c and kern/main.c           *)
(* (BringUp) and the way of a position from the radio to the program       *)
(* (PositionData) in Drivers, for buffers of any size, any number of       *)
(* packets, of readers and of threads that print, and any use of GO.       *)
(***************************************************************************)
EXTENDS Drivers, SequenceTheorems, TLAPS

BootStages == {"reset", "config", "shown", "fpga", "main", "kernel", "failed"}
MainPcs == {"idle", "new", "saying usetup", "usetup", "vps", "waiting",
            "released", "saying umain", "umain"}
RoundPcs == {"idle", "ending", "saying end", "ended"}
PrinterPcs == {"idle", "printing"}

UpTypes ==
  /\ boot \in BootStages
  /\ upRobotId \in {NoId, OurId}
  /\ upPc \in [UpThread -> MainPcs \cup RoundPcs \cup PrinterPcs]
  /\ upPc[Main] \in MainPcs
  /\ upPc[UpRf] \in RoundPcs

\* What board_init() has found out so far.
UpChecked ==
  /\ boot \in {"shown", "fpga", "main", "kernel"} => configGood
  /\ boot \in {"fpga", "main", "kernel"} => batteryGood \/ overridden
  /\ boot \in {"main", "kernel"} => fpgaGood
  /\ boot # "kernel" => upPc[Main] = "idle"

\* What robot_monitor() and the receive thread know is what the referee said
\* to this robot, or what the GO switch said.
UpTold ==
  /\ rf_start => told /\ upRobotId = OurId
  /\ upPc[Main] \in {"released", "saying umain", "umain"} => told \/ pressed
  /\ pressed => upPc[Main] \in {"released", "saying umain", "umain"}
  /\ upPc[UpRf] # "idle" => stopped
  /\ upHalter # Nobody => stopped

UpInv == UpTypes /\ UpChecked /\ UpTold

-----------------------------------------------------------------------------

LEMMA UpConstants ==
  /\ Main \in UpThread /\ UpRf \in UpThread /\ UpDaemon \in UpThread
  /\ Main # UpRf /\ Main # UpDaemon /\ UpRf # UpDaemon
  /\ NoId # OurId /\ Nobody \notin UpThread
BY DriversAssumption DEF Up!NobodyAssumption, Up!BringUpAssumption

LEMMA UpInit ==
  Up!BringUpInit /\ upHalter = Nobody /\ upPc = [t \in UpThread |-> "idle"]
    => UpInv
BY UpConstants
   DEF Up!BringUpInit, UpInv, UpTypes, UpChecked, UpTold, BootStages, MainPcs,
       RoundPcs, PrinterPcs

LEMMA BootKeeps ==
  ASSUME UpInv,
         \/ Up!InitDrivers \/ Up!CheckConfig \/ Up!CheckBattery
         \/ Up!InitFpga \/ Up!StartKernel \/ Up!GoChanges
  PROVE  UpInv'
<1> USE UpConstants
    DEF UpInv, UpTypes, UpChecked, UpTold, BootStages, MainPcs, RoundPcs,
        PrinterPcs, Up!flashVars, Up!batteryVars, Up!roundVars, Up!goVars,
        Up!bringUpVars, Up!bootVars
<1>1. CASE Up!InitDrivers
  BY <1>1, Zenon DEF Up!InitDrivers, Up!Boots
<1>2. CASE Up!CheckConfig
  <2>1. CASE configGood /\ Up!Boots("config", "shown")
    BY <1>2, <2>1, Zenon DEF Up!CheckConfig, Up!Boots
  <2>2. CASE Up!board_fail("config")
    BY <1>2, <2>2, Zenon DEF Up!CheckConfig, Up!Boots, Up!board_fail
  <2> QED BY <1>2, <2>1, <2>2 DEF Up!CheckConfig
<1>3. CASE Up!CheckBattery
  <2>1. CASE /\ batteryGood' \/ overridden'
             /\ Up!Boots("shown", "fpga")
    BY <2>1, Zenon DEF Up!Boots
  <2>2. CASE Up!board_fail("shown")
    BY <2>2, Zenon DEF Up!Boots, Up!board_fail
  <2>3. PICK enough \in BOOLEAN :
          /\ batteryGood' = enough /\ overridden' = goDown
          /\ \/ Up!Passes(enough) /\ Up!Boots("shown", "fpga")
             \/ ~Up!Passes(enough) /\ Up!board_fail("shown")
    BY <1>3, Zenon DEF Up!CheckBattery
  <2>4. Up!Passes(enough) => batteryGood' \/ overridden'
    BY <2>3, Zenon DEF Up!Passes
  <2> QED BY <2>1, <2>2, <2>3, <2>4
<1>4. CASE Up!InitFpga
  <2>1. CASE Up!FpgaStarts /\ Up!Boots("fpga", "main")
    BY <1>4, <2>1, Zenon DEF Up!InitFpga, Up!FpgaStarts, Up!Boots
  <2>2. CASE Up!board_fail("fpga")
    BY <1>4, <2>2, Zenon DEF Up!InitFpga, Up!Boots, Up!board_fail
  <2> QED BY <1>4, <2>1, <2>2 DEF Up!InitFpga
<1>5. CASE Up!StartKernel
  BY <1>5, Zenon DEF Up!StartKernel
<1>6. CASE Up!GoChanges
  BY <1>6, ZenonT(60) DEF Up!GoChanges
<1> HIDE DEF UpInv
<1> QED BY <1>1, <1>2, <1>3, <1>4, <1>5, <1>6

LEMMA DaemonKeeps ==
  ASSUME UpInv,
         Up!DaemonPrints \/ Up!DaemonPrinted
  PROVE  UpInv'
<1> USE UpConstants
    DEF UpInv, UpTypes, UpChecked, UpTold, BootStages, MainPcs, RoundPcs,
        PrinterPcs, Up!flashVars, Up!batteryVars, Up!roundVars, Up!goVars,
        Up!bringUpVars, Up!bootVars
<1>1. CASE Up!DaemonPrints
  BY <1>1, Zenon DEF Up!DaemonPrints, Up!Prints, Up!Advances, Up!Goes
<1>2. CASE Up!DaemonPrinted
  BY <1>2, Zenon DEF Up!DaemonPrinted, Up!Printed, Up!Advances, Up!Goes
<1> HIDE DEF UpInv
<1> QED BY <1>1, <1>2

LEMMA MainKeeps ==
  ASSUME UpInv,
         Up!MainStep
  PROVE  UpInv'
<1> USE UpConstants
    DEF UpInv, UpTypes, UpChecked, UpTold, BootStages, MainPcs, RoundPcs,
        PrinterPcs, Up!flashVars, Up!batteryVars, Up!roundVars, Up!goVars,
        Up!bringUpVars, Up!bootVars
<1>1. CASE Up!SaysUsetup
  BY <1>1, Zenon DEF Up!SaysUsetup, Up!Prints, Up!Advances, Up!Goes
<1>2. CASE Up!SaidUsetup
  BY <1>2, Zenon DEF Up!SaidUsetup, Up!Printed, Up!Advances, Up!Goes
<1>3. CASE Up!NamesRobot
  BY <1>3, Zenon DEF Up!NamesRobot, Up!Advances, Up!Goes
<1>4. CASE Up!EndsUsetup
  BY <1>4, Zenon DEF Up!EndsUsetup, Up!Advances, Up!Goes
<1>5. CASE Up!Released
  BY <1>5, Zenon DEF Up!Released, Up!Advances, Up!Goes
<1>6. CASE Up!SaysUmain
  BY <1>6, Zenon DEF Up!SaysUmain, Up!Prints, Up!Advances, Up!Goes
<1>7. CASE Up!SaidUmain
  BY <1>7, Zenon DEF Up!SaidUmain, Up!Printed, Up!Advances, Up!Goes
<1> HIDE DEF UpInv
<1> QED BY <1>1, <1>2, <1>3, <1>4, <1>5, <1>6, <1>7 DEF Up!MainStep

LEMMA RefereeKeeps ==
  ASSUME UpInv,
         NEW id \in {OurId, OtherId},
         Up!StartPacket(id) \/ Up!StopPacket(id)
  PROVE  UpInv'
<1> USE UpConstants
    DEF UpInv, UpTypes, UpChecked, UpTold, BootStages, MainPcs, RoundPcs,
        PrinterPcs, Up!flashVars, Up!batteryVars, Up!roundVars, Up!goVars,
        Up!bringUpVars, Up!bootVars
<1>1. CASE Up!StartPacket(id)
  BY <1>1, Zenon DEF Up!StartPacket, Up!Packet, Up!Starts, Up!Named
<1>2. CASE Up!StopPacket(id)
  BY <1>2, Zenon DEF Up!StopPacket, Up!Packet, Up!Stops, Up!Named
<1> HIDE DEF UpInv
<1> QED BY <1>1, <1>2

LEMMA RfThreadKeeps ==
  ASSUME UpInv,
         Up!PositionPacket \/ Up!SaysEnd \/ Up!SaidEnd
  PROVE  UpInv'
<1> USE UpConstants
    DEF UpInv, UpTypes, UpChecked, UpTold, BootStages, MainPcs, RoundPcs,
        PrinterPcs, Up!flashVars, Up!batteryVars, Up!roundVars, Up!goVars,
        Up!bringUpVars, Up!bootVars
<1>1. CASE Up!PositionPacket
  BY <1>1, Zenon DEF Up!PositionPacket
<1>2. CASE Up!SaysEnd
  BY <1>2, Zenon DEF Up!SaysEnd, Up!Prints, Up!Advances, Up!Goes
<1>3. CASE Up!SaidEnd
  BY <1>3, Zenon DEF Up!SaidEnd, Up!Printed, Up!HaltsBoard, Up!Advances, Up!Goes
<1> HIDE DEF UpInv
<1> QED BY <1>1, <1>2, <1>3

LEMMA UpNextKeeps == UpInv /\ [Up!BringUpNext]_upVars => UpInv'
<1> SUFFICES ASSUME UpInv, [Up!BringUpNext]_upVars
             PROVE  UpInv'
  OBVIOUS
<1>1. CASE UNCHANGED upVars
  BY <1>1, Zenon DEF upVars, UpInv, UpTypes, UpChecked, UpTold
<1>2. CASE Up!InitDrivers \/ Up!CheckConfig \/ Up!CheckBattery \/ Up!InitFpga
           \/ Up!StartKernel \/ Up!GoChanges
  BY <1>2, BootKeeps
<1>3. CASE Up!DaemonPrints \/ Up!DaemonPrinted
  BY <1>3, DaemonKeeps
<1>4. CASE Up!MainStep
  BY <1>4, MainKeeps
<1>5. ASSUME NEW id \in {OurId, OtherId},
             Up!StartPacket(id) \/ Up!StopPacket(id)
      PROVE  UpInv'
  BY <1>5, RefereeKeeps
<1>6. CASE Up!PositionPacket \/ Up!SaysEnd \/ Up!SaidEnd
  BY <1>6, RfThreadKeeps
<1> QED BY <1>1, <1>2, <1>3, <1>4, <1>5, <1>6 DEF Up!BringUpNext

LEMMA UpSteps ==
  [Next]_vars =>
    part' = part /\ IF part = "bringup" THEN [Up!BringUpNext]_upVars
                                        ELSE UNCHANGED upVars
BY DEF Next, vars

LEMMA UpInvariant == Spec => [](part = "bringup" => UpInv)
<1>1. Init => (part = "bringup" => UpInv)
  BY UpInit DEF Init
<1>2. (part = "bringup" => UpInv) /\ [Next]_vars
        => (part = "bringup" => UpInv)'
  BY UpSteps, UpNextKeeps
<1> QED BY <1>1, <1>2, PTL DEF Spec

\* No board whose configuration, battery or FPGA is bad runs threads, unless
\* GO was down at the battery's check; umain() is called only when the referee
\* said so to this robot or GO was down, and only a STOP for it halts it.
THEOREM BoardsStartSound == Spec => []StartsSoundAndTold
<1>1. (part = "bringup" => UpInv) => StartsSoundAndTold
  BY Zenon DEF UpInv, UpChecked, UpTold, StartsSoundAndTold, Up!OnlySoundBoardsRun,
         Up!OnlyWhenTold
<1> QED BY <1>1, UpInvariant, PTL
-----------------------------------------------------------------------------
(* The ring buffer: a queue of bytes *)

\* Where a position less than a buffer before or behind it really is.
Slot(p) == IF p < 0 THEN p + Capacity
                    ELSE IF p < Capacity THEN p ELSE p - Capacity

LEMMA RingConstants ==
  /\ Capacity \in Nat \ {0} /\ MaxCount \in Nat /\ Word \in Nat
  /\ Word >= 2 * Capacity /\ Word > MaxCount
BY DriversAssumption DEF Ring!RingAssumption

LEMMA SmallModulo ==
  ASSUME NEW c \in Nat \ {0}, NEW p \in 0 .. c - 1
  PROVE  p % c = p
OBVIOUS

LEMMA WrapsOnce ==
  ASSUME NEW c \in Nat \ {0}, NEW p \in Int, NEW q \in Int,
         NEW r \in 0 .. c - 1, p = q * c + r
  PROVE  p % c = r
OBVIOUS

LEMMA SlotIsModulo ==
  ASSUME NEW p \in -Capacity .. 2 * Capacity - 1
  PROVE  p % Capacity = Slot(p) /\ Slot(p) \in 0 .. Capacity - 1
<1> USE RingConstants
<1>1. CASE p < 0
  <2>1. p = (-1) * Capacity + (p + Capacity) /\ p + Capacity \in 0 .. Capacity - 1
    BY <1>1
  <2> QED BY <1>1, <2>1, WrapsOnce DEF Slot
<1>2. CASE p \in 0 .. Capacity - 1
  BY <1>2, SmallModulo DEF Slot
<1>3. CASE p >= Capacity
  <2>1. p = 1 * Capacity + (p - Capacity) /\ p - Capacity \in 0 .. Capacity - 1
    BY <1>3
  <2> QED BY <1>3, <2>1, WrapsOnce DEF Slot
<1> QED BY <1>1, <1>2, <1>3

\* The type invariant of the ring is all the refinement needs: size and
\* contents are functions of the positions.
RingTypes ==
  /\ buf \in [0 .. Capacity - 1 -> RingByte]
  /\ read \in 0 .. Capacity
  /\ write \in 0 .. Capacity - 1
  /\ ringCount \in 0 .. Capacity
  /\ out \in Seq(RingByte)

\* ring_size() is the way from one position to the other, or all of it.
SizeRight ==
  /\ Ring!Size \in 0 .. Capacity
  /\ read = Capacity => Ring!Size = 0
  /\ read # Capacity => /\ Ring!Size >= 1
                       /\ write = Slot(read + Ring!Size)
                       /\ \A n \in 1 .. Capacity :
                            write = Slot(read + n) => Ring!Size = n

\* The contents are the bytes from the reading position on.
ContentsRight ==
  /\ Ring!Contents \in Seq(RingByte)
  /\ Len(Ring!Contents) = Ring!Size
  /\ \A i \in 1 .. Ring!Size : Ring!Contents[i] = buf[Slot(read + i - 1)]

LEMMA RingSize == RingTypes => SizeRight
<1> SUFFICES ASSUME RingTypes PROVE SizeRight
  OBVIOUS
<1> USE RingConstants DEF RingTypes
<1>1. CASE read = Capacity
  BY <1>1 DEF Ring!Size, SizeRight
<1>2. CASE read # Capacity
  <2>1. write - read + Capacity - 1 \in -Capacity .. 2 * Capacity - 1
    BY <1>2
  <2>2. Ring!Size = Slot(write - read + Capacity - 1) + 1
    BY <1>2, <2>1, SlotIsModulo DEF Ring!Size
  <2>3. /\ Ring!Size \in 1 .. Capacity
        /\ write = Slot(read + Ring!Size)
    BY <1>2, <2>2 DEF Slot
  <2>4. ASSUME NEW n \in 1 .. Capacity, write = Slot(read + n)
        PROVE  Ring!Size = n
    BY <1>2, <2>2, <2>4 DEF Slot
  <2> QED BY <1>2, <2>3, <2>4 DEF SizeRight
<1> QED BY <1>1, <1>2

LEMMA RingContents == RingTypes => ContentsRight
<1> SUFFICES ASSUME RingTypes PROVE ContentsRight
  OBVIOUS
<1> USE RingConstants
<1>1. Ring!Size \in 0 .. Capacity /\ (read = Capacity => Ring!Size = 0)
  BY RingSize DEF SizeRight
<1>2. ASSUME NEW i \in 1 .. Ring!Size
      PROVE  /\ (read + i - 1) % Capacity = Slot(read + i - 1)
             /\ Slot(read + i - 1) \in 0 .. Capacity - 1
  <2>1. read + i - 1 \in -Capacity .. 2 * Capacity - 1
    BY <1>1 DEF RingTypes
  <2> QED BY <2>1, SlotIsModulo
<1>3. \A i \in 1 .. Ring!Size : buf[Slot(read + i - 1)] \in RingByte
  BY <1>2 DEF RingTypes
<1>4. Ring!Contents = [i \in 1 .. Ring!Size |-> buf[Slot(read + i - 1)]]
  BY <1>2 DEF Ring!Contents
<1>5. Ring!Contents \in [1 .. Ring!Size -> RingByte]
  BY <1>3, <1>4
<1> QED BY <1>1, <1>4, <1>5 DEF ContentsRight

\* The same after a step.
LEMMA RingNextRight == RingTypes' => SizeRight' /\ ContentsRight'
BY RingSize, RingContents, PTL

LEMMA RingInit ==
  Ring!Init => RingTypes /\ Ring!Queue!Init
<1> SUFFICES ASSUME Ring!Init PROVE RingTypes /\ Ring!Queue!Init
  OBVIOUS
<1> USE RingConstants DEF Ring!Init
<1>1. RingTypes
  BY DEF RingTypes, Ring!Index
<1>2. Ring!Contents \in Seq(RingByte) /\ Len(Ring!Contents) = 0
  BY <1>1, RingSize, RingContents DEF SizeRight, ContentsRight
<1>3. Ring!Contents = <<>>
  BY <1>2, EmptySeq
<1> QED BY <1>1, <1>3 DEF Ring!Queue!Init

LEMMA RingWrites ==
  ASSUME RingTypes, NEW bytes \in Seq(RingByte), Ring!ring_write(bytes)
  PROVE  RingTypes' /\ Ring!Queue!Write(bytes)
<1> USE RingConstants
<1> DEFINE size == Ring!Size
           n == IF Len(bytes) <= Capacity - size THEN Len(bytes)
                                                 ELSE Capacity - size
<1>1. /\ size \in 0 .. Capacity
      /\ read = Capacity => size = 0
      /\ read # Capacity => size >= 1 /\ write = Slot(read + size)
  BY RingSize DEF SizeRight
<1>2. Len(bytes) \in Nat /\ \A i \in 1 .. Len(bytes) : bytes[i] \in RingByte
  BY LenProperties, ElementOfSeq
<1>3. n \in 0 .. Capacity /\ size + n <= Capacity /\ n <= Len(bytes)
  BY <1>1, <1>2
<1>4. n = Ring!Least(Len(bytes), Capacity - Ring!Size)
  BY DEF Ring!Least
<1>5. ASSUME NEW i \in 0 .. Capacity - 1
      PROVE  /\ (i - write) % Capacity = Slot(i - write)
             /\ Slot(i - write) \in 0 .. Capacity - 1
  <2>1. i - write \in -Capacity .. 2 * Capacity - 1
    BY DEF RingTypes
  <2> QED BY <2>1, SlotIsModulo
<1>6. /\ buf' = [i \in 0 .. Capacity - 1 |->
                  IF Slot(i - write) < n THEN bytes[Slot(i - write) + 1]
                                         ELSE buf[i]]
      /\ ringCount' = n /\ out' = <<>>
      /\ write' = Ring!Advanced(write, n)
      /\ read' = IF size + Len(bytes) > 0 /\ read = Capacity
                 THEN write ELSE read
  BY <1>4, <1>5 DEF Ring!ring_write, Ring!Index
<1>7. write' = Slot(write + n) /\ write' \in 0 .. Capacity - 1
  <2>1. write + n \in -Capacity .. 2 * Capacity - 1
    BY <1>3 DEF RingTypes
  <2> QED BY <1>6, <2>1, SlotIsModulo DEF Ring!Advanced
<1> HIDE DEF n, size
<1>8. RingTypes'
  <2>1. ASSUME NEW i \in 0 .. Capacity - 1 PROVE buf'[i] \in RingByte
    <3>1. CASE Slot(i - write) < n
      <4>1. Slot(i - write) + 1 \in 1 .. Len(bytes)
        BY <1>2, <1>3, <1>5, <3>1, SMTT(40)
      <4> QED BY <1>2, <1>6, <3>1, <4>1
    <3>2. CASE ~(Slot(i - write) < n)
      BY <1>6, <3>2 DEF RingTypes
    <3> QED BY <3>1, <3>2
  <2>2. buf' \in [0 .. Capacity - 1 -> RingByte]
    BY <1>6, <2>1
  <2>3. out' \in Seq(RingByte)
    BY <1>6
  <2>4. read' \in 0 .. Capacity /\ ringCount' \in 0 .. Capacity
    BY <1>3, <1>6 DEF RingTypes
  <2> QED BY <1>7, <2>2, <2>3, <2>4 DEF RingTypes
<1>9. Ring!Size' = size + n /\ (size + n > 0 => read' # Capacity)
  <2>1. CASE size + Len(bytes) = 0
    <3>1. size = 0 /\ n = 0 /\ read = Capacity /\ read' = Capacity
      BY <1>1, <1>2, <1>3, <1>6, <2>1
    <3> QED BY <1>8, <3>1, RingNextRight DEF SizeRight
  <2>2. CASE size + Len(bytes) > 0
    <3>1. n + size \in 1 .. Capacity
      BY <1>1, <1>2, <1>3, <2>2 DEF n
    <3>2. read' # Capacity /\ write' = Slot(read' + (size + n))
      BY <1>1, <1>2, <1>3, <1>6, <1>7, <2>2 DEF RingTypes, Slot
    <3>3. size + n \in 1 .. Capacity
      BY <1>1, <1>3, <3>1
    <3> QED BY <1>8, <3>2, <3>3, RingNextRight DEF SizeRight
  <2> QED BY <1>1, <1>2, <2>1, <2>2
<1>10. /\ Ring!Contents \in Seq(RingByte) /\ Len(Ring!Contents) = size
       /\ \A i \in 1 .. size : Ring!Contents[i] = buf[Slot(read + i - 1)]
  BY RingContents DEF size, ContentsRight
<1>11. /\ Ring!Contents' \in Seq(RingByte) /\ Len(Ring!Contents') = size + n
       /\ \A i \in 1 .. size + n :
            Ring!Contents'[i] = buf'[Slot(read' + i - 1)]
  BY <1>8, <1>9, RingNextRight DEF ContentsRight
<1>12. /\ SubSeq(bytes, 1, n) \in Seq(RingByte)
       /\ Len(SubSeq(bytes, 1, n)) = n
       /\ \A i \in 1 .. n : SubSeq(bytes, 1, n)[i] = bytes[i]
  <2>1. \A i \in 1 .. n : bytes[i] \in RingByte
    BY <1>2, <1>3
  <2> QED BY <1>3, <2>1, SubSeqProperties
<1>13. ASSUME NEW i \in 1 .. size
       PROVE  Ring!Contents'[i] = Ring!Contents[i]
  <2>1. read # Capacity /\ read' = read
    BY <1>1, <1>6
  <2>2. Slot(read + i - 1) \in 0 .. Capacity - 1
    BY <1>1, <2>1 DEF RingTypes, Slot
  <2>3. Slot(Slot(read + i - 1) - write) >= n
    BY <1>1, <1>3, <2>1 DEF RingTypes, Slot
  <2>4. buf'[Slot(read + i - 1)] = buf[Slot(read + i - 1)]
    BY <1>3, <1>5, <1>6, <2>2, <2>3
  <2> QED BY <1>1, <1>3, <1>10, <1>11, <2>1, <2>4
<1>14. ASSUME NEW i \in 1 .. n
       PROVE  Ring!Contents'[size + i] = bytes[i]
  <2>1. read' # Capacity /\ read' \in 0 .. Capacity
    BY <1>1, <1>3, <1>8, <1>9 DEF RingTypes
  <2>2. Slot(read' + (size + i) - 1) = Slot(write + i - 1)
    <3>1. CASE read = Capacity
      <4>1. size = 0 /\ size + Len(bytes) > 0
        BY <1>1, <1>2, <1>3, <3>1
      <4>2. read' = write
        BY <1>6, <3>1, <4>1
      <4> QED BY <4>1, <4>2 DEF RingTypes
    <3>2. CASE read # Capacity
      <4>1. read' = read /\ write = Slot(read + size)
        BY <1>1, <1>6, <3>2
      <4>2. i + size <= Capacity /\ i >= 1 /\ size \in 1 .. Capacity
        BY <1>1, <1>3, <3>2
      <4> QED BY <3>2, <4>1, <4>2 DEF RingTypes, Slot
    <3> QED BY <3>1, <3>2
  <2>3. /\ Slot(write + i - 1) \in 0 .. Capacity - 1
        /\ Slot(Slot(write + i - 1) - write) = i - 1
    BY <1>3 DEF RingTypes, Slot
  <2>4. buf'[Slot(write + i - 1)] = bytes[i]
    BY <1>3, <1>6, <2>3
  <2>5. size + i \in 1 .. size + n
    BY <1>1, <1>3
  <2>6. Ring!Contents'[size + i] = buf'[Slot(read' + (size + i) - 1)]
    BY <1>11, <2>5
  <2> QED BY <2>2, <2>4, <2>6
<1>15. Ring!Contents' = Ring!Contents \o SubSeq(bytes, 1, n)
  <2> DEFINE whole == Ring!Contents \o SubSeq(bytes, 1, n)
  <2>1. /\ whole \in Seq(RingByte) /\ Len(whole) = size + n
        /\ \A i \in 1 .. size + n :
             whole[i] = IF i <= size THEN Ring!Contents[i]
                                     ELSE SubSeq(bytes, 1, n)[i - size]
    <3>1. /\ whole \in Seq(RingByte)
          /\ Len(whole) = Len(Ring!Contents) + Len(SubSeq(bytes, 1, n))
          /\ \A i \in 1 .. Len(Ring!Contents) + Len(SubSeq(bytes, 1, n)) :
               whole[i] = IF i <= Len(Ring!Contents) THEN Ring!Contents[i]
                          ELSE SubSeq(bytes, 1, n)[i - Len(Ring!Contents)]
      BY <1>10, <1>12, ConcatProperties
    <3>2. /\ Len(Ring!Contents) = size
          /\ Len(SubSeq(bytes, 1, n)) = n
      BY <1>10, <1>12
    <3> HIDE DEF whole
    <3> QED BY <3>1, <3>2
  <2>2. ASSUME NEW i \in 1 .. size + n
        PROVE  Ring!Contents'[i] = whole[i]
    <3> HIDE DEF whole
    <3>1. CASE i <= size
      <4>1. i \in 1 .. size
        BY <1>1, <1>3, <3>1
      <4> QED BY <1>13, <2>1, <3>1, <4>1
    <3>2. CASE i > size
      <4>1. i - size \in 1 .. n /\ size + (i - size) = i
        BY <1>1, <1>3, <3>2
      <4>2. Ring!Contents'[size + (i - size)] = bytes[i - size]
        BY <1>14, <4>1
      <4>3. whole[i] = SubSeq(bytes, 1, n)[i - size]
        BY <1>1, <1>3, <2>1, <3>2, SMTT(40)
      <4> QED BY <1>12, <4>1, <4>2, <4>3
    <3> QED BY <1>1, <1>3, <3>1, <3>2
  <2> HIDE DEF whole
  <2> QED BY <1>11, <2>1, <2>2, SeqEqual DEF whole
<1>16. n = Ring!Queue!Least(Len(bytes), Capacity - Len(Ring!Contents))
  BY <1>10 DEF n, Ring!Queue!Least
<1> QED BY <1>6, <1>8, <1>15, <1>16 DEF Ring!Queue!Write

LEMMA RingReads ==
  ASSUME RingTypes, NEW asked \in 0 .. MaxCount, asked <= Ring!Size,
         Ring!ring_read(asked)
  PROVE  RingTypes' /\ Ring!Queue!Read(asked)
<1> USE RingConstants
<1> DEFINE size == Ring!Size
<1>1. /\ size \in 0 .. Capacity
      /\ read = Capacity => size = 0
      /\ read # Capacity => size >= 1 /\ write = Slot(read + size)
  BY RingSize DEF SizeRight
<1>2. asked \in 0 .. size
  OBVIOUS
<1>3. asked = Ring!Least(asked, Ring!Size)
  BY DEF Ring!Least
<1>4. Ring!Empties(size, asked) <=> asked = size
  <2>1. size - asked \in 0 .. Word - 1
    BY <1>1, <1>2
  <2>2. (size - asked) % Word = size - asked
    BY <2>1, SmallModulo
  <2> QED BY <1>1, <1>2, <2>2 DEF Ring!Empties
<1>5. /\ Ring!Contents \in Seq(RingByte) /\ Len(Ring!Contents) = size
      /\ \A i \in 1 .. size : Ring!Contents[i] = buf[Slot(read + i - 1)]
  BY RingContents DEF size, ContentsRight
<1>6. /\ ringCount' = asked /\ buf' = buf /\ write' = write
      /\ out' = [j \in 1 .. asked |-> buf[(read + j - 1) % Capacity]]
      /\ read' = IF asked = size THEN Capacity
                 ELSE IF asked > 0 THEN Ring!Advanced(read, asked)
                                    ELSE read
  BY <1>3, <1>4 DEF Ring!ring_read
<1> HIDE DEF size
<1>7. asked # size => read' = Slot(read + asked) /\ read' # Capacity
  <2> SUFFICES ASSUME asked # size
               PROVE  read' = Slot(read + asked) /\ read' # Capacity
    OBVIOUS
  <2>1. read # Capacity
    BY <1>1, <1>2
  <2>2. read + asked \in -Capacity .. 2 * Capacity - 1
    BY <1>1, <1>2 DEF RingTypes
  <2>3. /\ Ring!Advanced(read, asked) = Slot(read + asked)
        /\ Slot(read + asked) \in 0 .. Capacity - 1
    BY <2>2, SlotIsModulo DEF Ring!Advanced
  <2>4. asked = 0 => Slot(read + asked) = read
    BY <2>1 DEF Slot, RingTypes
  <2> QED BY <1>1, <1>2, <1>6, <2>1, <2>3, <2>4
<1>8. out' = [j \in 1 .. asked |-> Ring!Contents[j]]
  <2>1. ASSUME NEW j \in 1 .. asked
        PROVE  buf[(read + j - 1) % Capacity] = Ring!Contents[j]
    <3>1. read + j - 1 \in -Capacity .. 2 * Capacity - 1 /\ j \in 1 .. size
      BY <1>1, <1>2 DEF RingTypes
    <3> QED BY <1>5, <3>1, SlotIsModulo
  <2> QED BY <1>6, <2>1
<1>9. \A j \in 1 .. size : Ring!Contents[j] \in RingByte
  BY <1>5, ElementOfSeq
<1>10. out' \in Seq(RingByte) /\ Len(out') = asked
  <2>1. out' \in [1 .. asked -> RingByte]
    BY <1>1, <1>2, <1>8, <1>9
  <2> QED BY <1>8, <2>1
<1>11. RingTypes'
  <2>1. read' \in 0 .. Capacity
    BY <1>1, <1>2, <1>6, <1>7 DEF RingTypes, Slot
  <2> QED BY <1>1, <1>2, <1>6, <1>10, <2>1 DEF RingTypes
<1>12. Ring!Size' = size - asked
  <2>1. CASE asked = size
    BY <1>1, <1>6, <1>11, <2>1, RingNextRight DEF SizeRight
  <2>2. CASE asked # size
    <3>1. size - asked \in 1 .. Capacity
      BY <1>1, <1>2, <2>2
    <3>2. /\ write' = Slot(read + size) /\ read' = Slot(read + asked)
          /\ read # Capacity
      BY <1>1, <1>2, <1>6, <1>7, <2>2
    <3>3. write' = Slot(read' + (size - asked))
      BY <1>1, <1>2, <3>1, <3>2 DEF RingTypes, Slot
    <3> QED BY <1>7, <1>11, <2>2, <3>1, <3>3, RingNextRight DEF SizeRight
  <2> QED BY <2>1, <2>2
<1>13. /\ Ring!Contents' \in Seq(RingByte) /\ Len(Ring!Contents') = size - asked
       /\ \A i \in 1 .. size - asked :
            Ring!Contents'[i] = buf'[Slot(read' + i - 1)]
  BY <1>11, <1>12, RingNextRight DEF ContentsRight
<1>14. out' = SubSeq(Ring!Contents, 1, asked)
  <2>1. \A i \in 1 .. asked : Ring!Contents[i] \in RingByte
    BY <1>1, <1>2, <1>9
  <2>2. /\ SubSeq(Ring!Contents, 1, asked) \in Seq(RingByte)
        /\ Len(SubSeq(Ring!Contents, 1, asked)) = asked
        /\ \A i \in 1 .. asked :
             SubSeq(Ring!Contents, 1, asked)[i] = Ring!Contents[i]
    BY <1>1, <1>2, <2>1, SubSeqProperties
  <2>3. \A i \in 1 .. asked : out'[i] = Ring!Contents[i]
    BY <1>8
  <2> QED BY <1>10, <2>2, <2>3, SeqEqual
<1>15. Ring!Contents' = SubSeq(Ring!Contents, asked + 1, size)
  <2> DEFINE rest == SubSeq(Ring!Contents, asked + 1, size)
  <2>1. \A i \in asked + 1 .. size : Ring!Contents[i] \in RingByte
    BY <1>1, <1>2, <1>9
  <2>2. /\ rest \in Seq(RingByte)
        /\ Len(rest) = IF asked + 1 <= size THEN size - (asked + 1) + 1 ELSE 0
        /\ \A i \in 1 .. size - (asked + 1) + 1 :
             rest[i] = Ring!Contents[(asked + 1) + i - 1]
    BY <1>1, <1>2, <2>1, SubSeqProperties
  <2>3. Len(rest) = size - asked
    BY <1>1, <1>2, <2>2
  <2>4. ASSUME NEW i \in 1 .. size - asked
        PROVE  Ring!Contents'[i] = rest[i]
    <3>1. asked # size /\ asked + i \in 1 .. size /\ read # Capacity
      BY <1>1, <1>2
    <3>2. Slot(read' + i - 1) = Slot(read + (asked + i) - 1)
      BY <1>1, <1>2, <1>7, <3>1 DEF RingTypes, Slot
    <3>3. rest[i] = Ring!Contents[asked + i]
      BY <1>1, <1>2, <2>2
    <3> QED BY <1>5, <1>6, <1>13, <3>1, <3>2, <3>3, ZenonT(60)
  <2> HIDE DEF rest
  <2> QED BY <1>13, <2>2, <2>3, <2>4, SeqEqual DEF rest
<1>16. asked = Ring!Queue!Least(asked, Len(Ring!Contents))
  BY <1>1, <1>2, <1>5 DEF Ring!Queue!Least
<1> QED BY <1>5, <1>6, <1>11, <1>14, <1>15, <1>16 DEF Ring!Queue!Read

LEMMA BoundedSeqs ==
  ASSUME NEW bytes \in Ring!BoundedSeq(RingByte, MaxCount)
  PROVE  /\ bytes \in Seq(RingByte)
         /\ bytes \in Ring!Queue!BoundedSeq(RingByte, MaxCount)
BY RingConstants DEF Ring!BoundedSeq, Ring!SeqOf, Ring!Queue!BoundedSeq,
                     Ring!Queue!SeqOf

LEMMA RingNext ==
  RingTypes /\ [Ring!Next]_ringVars
    => RingTypes' /\ [Ring!Queue!Next]_<<Ring!Contents, ringCount, out>>
<1> SUFFICES ASSUME RingTypes, [Ring!Next]_ringVars
             PROVE  /\ RingTypes'
                    /\ [Ring!Queue!Next]_<<Ring!Contents, ringCount, out>>
  OBVIOUS
<1>1. CASE UNCHANGED ringVars
  BY <1>1 DEF ringVars, RingTypes, Ring!Contents, Ring!Size
<1>2. ASSUME NEW bytes \in Ring!BoundedSeq(RingByte, MaxCount),
             Ring!ring_write(bytes)
      PROVE  RingTypes' /\ Ring!Queue!Next
  BY <1>2, BoundedSeqs, RingWrites DEF Ring!Queue!Next
<1>3. ASSUME NEW asked \in 0 .. MaxCount, asked <= Ring!Size,
             Ring!ring_read(asked)
      PROVE  RingTypes' /\ Ring!Queue!Next
  BY <1>3, RingReads DEF Ring!Queue!Next
<1> QED BY <1>1, <1>2, <1>3 DEF Ring!Next

LEMMA RingSteps ==
  [Next]_vars =>
    part' = part /\ IF part = "ring" THEN [Ring!Next]_ringVars
                                     ELSE UNCHANGED ringVars
BY DEF Next, vars

\* Bytes leave a ring in the order they came in, once each, a write takes as
\* many as fit, and a full ring is told from an empty one: it is a ByteQueue.
THEOREM RingsAreQueues == Spec => ImplementsQueue
<1>1. Init => RingTypes /\ Ring!Queue!Init
  BY RingInit DEF Init
<1>2. RingTypes /\ [Next]_vars
        => RingTypes' /\ [Ring!Queue!Next]_<<Ring!Contents, ringCount, out>>
  <2>1. RingTypes /\ [Next]_vars => [Ring!Next]_ringVars
    BY RingSteps
  <2> QED BY <2>1, RingNext
<1> QED
  BY <1>1, <1>2, PTL
     DEF Spec, ImplementsQueue, Ring!ImplementsQueue, Ring!Queue!Spec

-----------------------------------------------------------------------------
(* Positions: whole packets, in order, with the program's own first *)

RfPcs == {"idle", "lock", "copy0", "copy1", "unlock"}
DaemonPcs == {"idle", "lock_data", "lock_objects", "copy0", "copy1",
              "unlock_objects", "publish", "publish_y", "publish_them",
              "unlock_data"}
ReaderPcs == {"idle", "lock", "x", "y", "unlock"}
Place == [x : 0 .. PosPackets, y : 0 .. PosPackets, them : 0 .. PosPackets]

PosTypes ==
  /\ Pos!TypeOK
  /\ posHolder \in [{"objects", "data"} -> PosThread \cup {Nobody}]
  /\ posPc \in [PosThread -> RfPcs \cup DaemonPcs \cup ReaderPcs]
  /\ posPc[PosRf] \in RfPcs
  /\ posPc[PosDaemon] \in DaemonPcs
  /\ \A t \in Pos!Reader : posPc[t] \in ReaderPcs
  /\ posSent \in 0 .. PosPackets
  /\ vps_daemon_has_recvd \in BOOLEAN
  /\ got \in [Pos!Reader -> Place]

PosLocked ==
  /\ posPc[PosRf] \in {"copy0", "copy1", "unlock"}
       => posHolder["objects"] = PosRf
  /\ posPc[PosDaemon] \in {"copy0", "copy1", "unlock_objects"}
       => posHolder["objects"] = PosDaemon
  /\ posPc[PosDaemon] \notin {"idle", "lock_data"}
       => posHolder["data"] = PosDaemon
  /\ \A t \in Pos!Reader :
       posPc[t] \in {"x", "y", "unlock"} => posHolder["data"] = t

\* Our own position comes first wherever a packet is kept.
PosOurs ==
  /\ locked_game[1] # Pos!Blank => locked_game[1].id = Us
  /\ locked_game[2].id # Us
  /\ posPc[PosRf] # "idle" => rx[2].id # Us
  /\ posPc[PosRf] \in {"copy0", "copy1"} /\ rx[1] # Pos!Blank => rx[1].id = Us

\* Packets are numbered as they are sent, and nothing kept is younger than
\* what it is replaced with.
PosOrder ==
  /\ \A i \in 1 .. 2 :
       /\ locked_game[i].n <= posSent
       /\ posPc[PosRf] = "lock" => locked_game[i].n < rx[i].n
       /\ rx[i].n <= posSent
  /\ posPc[PosRf] = "lock" => rx[1].n = rx[2].n
  /\ posPc[PosRf] = "copy0" => locked_game[1].n <= rx[1].n
  /\ posPc[PosRf] = "copy1" => locked_game[1] = rx[1]
  /\ game[1].n <= locked_game[1].n
  /\ posPc[PosDaemon] = "copy1" => game[1] = locked_game[1]

\* What the accessors return is whole but while the daemon publishes, and has
\* been there from the first packet on.
PosPublished ==
  /\ posPc[PosDaemon] # "publish_y" => vps.x = vps.y
  /\ posPc[PosDaemon] \in {"publish_y", "publish_them"}
       => vps.x = game[1].n /\ game[1].n # 0
  /\ vps_daemon_has_recvd => vps.x # 0 /\ vps.y # 0 /\ game[1].n # 0
  /\ \A t \in Pos!Reader :
       /\ posPc[t] # "idle" => vps_daemon_has_recvd
       /\ posPc[t] = "y" => got[t].x = vps.x
       /\ posPc[t] = "unlock" => got[t].x = got[t].y /\ got[t].x # 0

PosInv == PosTypes /\ PosLocked /\ PosOurs /\ PosOrder /\ PosPublished

-----------------------------------------------------------------------------

LEMMA PosConstants ==
  /\ PosRf \in PosThread /\ PosDaemon \in PosThread /\ PosRf # PosDaemon
  /\ PosRf \notin Pos!Reader /\ PosDaemon \notin Pos!Reader
  /\ Pos!Reader \subseteq PosThread /\ Nobody \notin PosThread
  /\ Us # Them /\ Us # PosNone /\ Them # PosNone
  /\ PosPackets \in Nat
BY DriversAssumption
   DEF Pos!NobodyAssumption, Pos!PositionDataAssumption, Pos!Reader

LEMMA PosInit == Pos!Init => PosInv
<1> SUFFICES ASSUME Pos!Init PROVE PosInv
  OBVIOUS
<1> USE PosConstants DEF Pos!Init
<1>1. Pos!Blank \in Pos!Coord /\ Pos!Blank.n = 0 /\ Pos!Blank.id = PosNone
  BY DEF Pos!Blank, Pos!Coord
<1>2. PosTypes
  <2>1. Pos!TypeOK
    BY <1>1 DEF Pos!TypeOK, Pos!Start
  <2>2. /\ posHolder \in [{"objects", "data"} -> PosThread \cup {Nobody}]
        /\ posPc \in [PosThread -> RfPcs \cup DaemonPcs \cup ReaderPcs]
    BY DEF RfPcs
  <2>3. /\ posPc[PosRf] \in RfPcs
        /\ posPc[PosDaemon] \in DaemonPcs
        /\ \A t \in Pos!Reader : posPc[t] \in ReaderPcs
    BY DEF RfPcs, DaemonPcs, ReaderPcs
  <2>4. got \in [Pos!Reader -> Place]
    BY DEF Pos!Start, Place
  <2>5. posSent = 0 /\ 0 \in 0 .. PosPackets
    OBVIOUS
  <2>6. vps_daemon_has_recvd \in BOOLEAN
    OBVIOUS
  <2> HIDE DEF Pos!Init
  <2> QED BY <2>1, <2>2, <2>3, <2>4, <2>5, <2>6 DEF PosTypes
<1>3. PosLocked
  BY DEF PosLocked
<1>4. PosOurs
  BY <1>1 DEF PosOurs
<1>5. PosOrder
  BY <1>1 DEF PosOrder
<1>6. PosPublished
  BY <1>1 DEF PosPublished, Pos!Start
<1> QED BY <1>2, <1>3, <1>4, <1>5, <1>6 DEF PosInv

LEMMA SetRobotIdKeeps ==
  ASSUME PosInv, Pos!SetRobotId
  PROVE  PosInv'
<1> USE PosConstants
    DEF Pos!SetRobotId, Pos!Goes, Pos!Takes, Pos!Gives, PosInv
<1>1. PosTypes'
  BY DEF PosTypes, Pos!TypeOK, RfPcs, DaemonPcs, ReaderPcs, Place, Pos!Coord
<1>2. PosLocked'
  BY DEF PosTypes, PosLocked
<1>3. PosOurs'
  BY DEF PosTypes, Pos!TypeOK, PosLocked, PosOurs
<1>4. PosOrder'
  BY DEF PosTypes, Pos!TypeOK, Pos!Coord, PosLocked, PosOrder
<1>5. PosPublished'
  BY DEF PosTypes, Pos!TypeOK, PosLocked, PosOrder, PosPublished, Place
<1> QED BY <1>1, <1>2, <1>3, <1>4, <1>5

LEMMA RfLockKeeps ==
  ASSUME PosInv, Pos!RfLock
  PROVE  PosInv'
<1> USE PosConstants
    DEF Pos!RfLock, Pos!Restored, Pos!Goes, Pos!Takes, Pos!Gives, PosInv
<1>1. PosTypes'
  BY DEF PosTypes, Pos!TypeOK, RfPcs, DaemonPcs, ReaderPcs, Place, Pos!Coord
<1>2. PosLocked'
  BY DEF PosTypes, PosLocked
<1>3. PosOurs'
  BY DEF PosTypes, Pos!TypeOK, PosLocked, PosOurs
<1>4. PosOrder'
  BY DEF PosTypes, Pos!TypeOK, Pos!Coord, PosLocked, PosOrder
<1>5. PosPublished'
  BY DEF PosTypes, Pos!TypeOK, PosLocked, PosOrder, PosPublished, Place
<1> QED BY <1>1, <1>2, <1>3, <1>4, <1>5

LEMMA RfCopy0Keeps ==
  ASSUME PosInv, Pos!RfCopy(1, "copy0", "copy1")
  PROVE  PosInv'
<1> USE PosConstants
    DEF Pos!RfCopy, Pos!Goes, Pos!Takes, Pos!Gives, PosInv
<1>1. PosTypes'
  BY DEF PosTypes, Pos!TypeOK, RfPcs, DaemonPcs, ReaderPcs, Place, Pos!Coord
<1>2. PosLocked'
  BY DEF PosTypes, PosLocked
<1>3. PosOurs'
  BY DEF PosTypes, Pos!TypeOK, PosLocked, PosOurs
<1>4. PosOrder'
  BY DEF PosTypes, Pos!TypeOK, Pos!Coord, PosLocked, PosOrder
<1>5. PosPublished'
  BY DEF PosTypes, Pos!TypeOK, PosLocked, PosOrder, PosPublished, Place
<1> QED BY <1>1, <1>2, <1>3, <1>4, <1>5

LEMMA RfCopy1Keeps ==
  ASSUME PosInv, Pos!RfCopy(2, "copy1", "unlock")
  PROVE  PosInv'
<1> USE PosConstants
    DEF Pos!RfCopy, Pos!Goes, Pos!Takes, Pos!Gives, PosInv
<1>1. PosTypes'
  BY DEF PosTypes, Pos!TypeOK, RfPcs, DaemonPcs, ReaderPcs, Place, Pos!Coord
<1>2. PosLocked'
  BY DEF PosTypes, PosLocked
<1>3. PosOurs'
  BY DEF PosTypes, Pos!TypeOK, PosLocked, PosOurs
<1>4. PosOrder'
  BY DEF PosTypes, Pos!TypeOK, Pos!Coord, PosLocked, PosOrder
<1>5. PosPublished'
  BY DEF PosTypes, Pos!TypeOK, PosLocked, PosOrder, PosPublished, Place
<1> QED BY <1>1, <1>2, <1>3, <1>4, <1>5

LEMMA RfUnlockKeeps ==
  ASSUME PosInv, Pos!RfUnlock
  PROVE  PosInv'
<1> USE PosConstants
    DEF Pos!RfUnlock, Pos!Blank, Pos!Goes, Pos!Takes, Pos!Gives, PosInv
<1>1. PosTypes'
  BY DEF PosTypes, Pos!TypeOK, RfPcs, DaemonPcs, ReaderPcs, Place, Pos!Coord
<1>2. PosLocked'
  BY DEF PosTypes, PosLocked
<1>3. PosOurs'
  BY DEF PosTypes, Pos!TypeOK, PosLocked, PosOurs
<1>4. PosOrder'
  BY DEF PosTypes, Pos!TypeOK, Pos!Coord, PosLocked, PosOrder
<1>5. PosPublished'
  BY DEF PosTypes, Pos!TypeOK, PosLocked, PosOrder, PosPublished, Place
<1> QED BY <1>1, <1>2, <1>3, <1>4, <1>5

LEMMA DaemonWakesKeeps ==
  ASSUME PosInv, Pos!DaemonWakes
  PROVE  PosInv'
<1> USE PosConstants
    DEF Pos!DaemonWakes, Pos!Goes, Pos!Takes, Pos!Gives, PosInv
<1>1. PosTypes'
  BY DEF PosTypes, Pos!TypeOK, RfPcs, DaemonPcs, ReaderPcs, Place, Pos!Coord
<1>2. PosLocked'
  BY DEF PosTypes, PosLocked
<1>3. PosOurs'
  BY DEF PosTypes, Pos!TypeOK, PosLocked, PosOurs
<1>4. PosOrder'
  BY DEF PosTypes, Pos!TypeOK, Pos!Coord, PosLocked, PosOrder
<1>5. PosPublished'
  BY DEF PosTypes, Pos!TypeOK, PosLocked, PosOrder, PosPublished, Place
<1> QED BY <1>1, <1>2, <1>3, <1>4, <1>5

LEMMA LockDataKeeps ==
  ASSUME PosInv, Pos!DaemonLocks("data", "lock_data", "lock_objects")
  PROVE  PosInv'
<1> USE PosConstants
    DEF Pos!DaemonLocks, Pos!Goes, Pos!Takes, Pos!Gives, PosInv
<1>1. PosTypes'
  BY DEF PosTypes, Pos!TypeOK, RfPcs, DaemonPcs, ReaderPcs, Place, Pos!Coord
<1>2. PosLocked'
  BY DEF PosTypes, PosLocked
<1>3. PosOurs'
  BY DEF PosTypes, Pos!TypeOK, PosLocked, PosOurs
<1>4. PosOrder'
  BY DEF PosTypes, Pos!TypeOK, Pos!Coord, PosLocked, PosOrder
<1>5. PosPublished'
  BY DEF PosTypes, Pos!TypeOK, PosLocked, PosOrder, PosPublished, Place
<1> QED BY <1>1, <1>2, <1>3, <1>4, <1>5

LEMMA LockObjectsKeeps ==
  ASSUME PosInv, Pos!DaemonLocks("objects", "lock_objects", "copy0")
  PROVE  PosInv'
<1> USE PosConstants
    DEF Pos!DaemonLocks, Pos!Goes, Pos!Takes, Pos!Gives, PosInv
<1>1. PosTypes'
  BY DEF PosTypes, Pos!TypeOK, RfPcs, DaemonPcs, ReaderPcs, Place, Pos!Coord
<1>2. PosLocked'
  BY DEF PosTypes, PosLocked
<1>3. PosOurs'
  BY DEF PosTypes, Pos!TypeOK, PosLocked, PosOurs
<1>4. PosOrder'
  BY DEF PosTypes, Pos!TypeOK, Pos!Coord, PosLocked, PosOrder
<1>5. PosPublished'
  BY DEF PosTypes, Pos!TypeOK, PosLocked, PosOrder, PosPublished, Place
<1> QED BY <1>1, <1>2, <1>3, <1>4, <1>5

LEMMA DaemonCopy0Keeps ==
  ASSUME PosInv, Pos!DaemonCopy(1, "copy0", "copy1")
  PROVE  PosInv'
<1> USE PosConstants
    DEF Pos!DaemonCopy, Pos!Goes, Pos!Takes, Pos!Gives, PosInv
<1>1. PosTypes'
  BY DEF PosTypes, Pos!TypeOK, RfPcs, DaemonPcs, ReaderPcs, Place, Pos!Coord
<1>2. PosLocked'
  BY DEF PosTypes, PosLocked
<1>3. PosOurs'
  BY DEF PosTypes, Pos!TypeOK, PosLocked, PosOurs
<1>4. PosOrder'
  BY DEF PosTypes, Pos!TypeOK, Pos!Coord, PosLocked, PosOrder
<1>5. PosPublished'
  BY DEF PosTypes, Pos!TypeOK, Pos!Coord, PosLocked, PosOrder,
         PosPublished, Place
<1> QED BY <1>1, <1>2, <1>3, <1>4, <1>5

LEMMA DaemonCopy1Keeps ==
  ASSUME PosInv, Pos!DaemonCopy(2, "copy1", "unlock_objects")
  PROVE  PosInv'
<1> USE PosConstants
    DEF Pos!DaemonCopy, Pos!Goes, Pos!Takes, Pos!Gives, PosInv
<1>1. PosTypes'
  BY DEF PosTypes, Pos!TypeOK, RfPcs, DaemonPcs, ReaderPcs, Place, Pos!Coord
<1>2. PosLocked'
  BY DEF PosTypes, PosLocked
<1>3. PosOurs'
  BY DEF PosTypes, Pos!TypeOK, PosLocked, PosOurs
<1>4. PosOrder'
  BY DEF PosTypes, Pos!TypeOK, Pos!Coord, PosLocked, PosOrder
<1>5. PosPublished'
  BY DEF PosTypes, Pos!TypeOK, PosLocked, PosOrder, PosPublished, Place
<1> QED BY <1>1, <1>2, <1>3, <1>4, <1>5

LEMMA UnlockObjectsKeeps ==
  ASSUME PosInv, Pos!DaemonUnlocks("objects", "unlock_objects", "publish")
  PROVE  PosInv'
<1> USE PosConstants
    DEF Pos!DaemonUnlocks, Pos!Goes, Pos!Takes, Pos!Gives, PosInv
<1>1. PosTypes'
  BY DEF PosTypes, Pos!TypeOK, RfPcs, DaemonPcs, ReaderPcs, Place, Pos!Coord
<1>2. PosLocked'
  BY DEF PosTypes, PosLocked
<1>3. PosOurs'
  BY DEF PosTypes, Pos!TypeOK, PosLocked, PosOurs
<1>4. PosOrder'
  BY DEF PosTypes, Pos!TypeOK, Pos!Coord, PosLocked, PosOrder
<1>5. PosPublished'
  BY DEF PosTypes, Pos!TypeOK, PosLocked, PosOrder, PosPublished, Place
<1> QED BY <1>1, <1>2, <1>3, <1>4, <1>5

LEMMA PublishXKeeps ==
  ASSUME PosInv, Pos!PublishX
  PROVE  PosInv'
<1> USE PosConstants
    DEF Pos!PublishX, Pos!Real, Pos!Goes, Pos!Takes, Pos!Gives, PosInv
<1>1. PosTypes'
  BY DEF PosTypes, Pos!TypeOK, RfPcs, DaemonPcs, ReaderPcs, Place, Pos!Coord
<1>2. PosLocked'
  BY DEF PosTypes, PosLocked
<1>3. PosOurs'
  BY DEF PosTypes, Pos!TypeOK, PosLocked, PosOurs
<1>4. PosOrder'
  BY DEF PosTypes, Pos!TypeOK, Pos!Coord, PosLocked, PosOrder
<1>5. PosPublished'
  BY DEF PosTypes, Pos!TypeOK, PosLocked, PosOrder, PosPublished, Place
<1> QED BY <1>1, <1>2, <1>3, <1>4, <1>5

LEMMA PublishYKeeps ==
  ASSUME PosInv, Pos!PublishY
  PROVE  PosInv'
<1> USE PosConstants
    DEF Pos!PublishY, Pos!Goes, Pos!Takes, Pos!Gives, PosInv
<1>1. PosTypes'
  BY DEF PosTypes, Pos!TypeOK, RfPcs, DaemonPcs, ReaderPcs, Place, Pos!Coord
<1>2. PosLocked'
  BY DEF PosTypes, PosLocked
<1>3. PosOurs'
  BY DEF PosTypes, Pos!TypeOK, PosLocked, PosOurs
<1>4. PosOrder'
  BY DEF PosTypes, Pos!TypeOK, Pos!Coord, PosLocked, PosOrder
<1>5. PosPublished'
  BY DEF PosTypes, Pos!TypeOK, PosLocked, PosOrder, PosPublished, Place
<1> QED BY <1>1, <1>2, <1>3, <1>4, <1>5

LEMMA PublishThemKeeps ==
  ASSUME PosInv, Pos!PublishThem
  PROVE  PosInv'
<1> USE PosConstants
    DEF Pos!PublishThem, Pos!Goes, Pos!Takes, Pos!Gives, PosInv
<1>1. PosTypes'
  BY DEF PosTypes, Pos!TypeOK, RfPcs, DaemonPcs, ReaderPcs, Place, Pos!Coord
<1>2. PosLocked'
  BY DEF PosTypes, PosLocked
<1>3. PosOurs'
  BY DEF PosTypes, Pos!TypeOK, PosLocked, PosOurs
<1>4. PosOrder'
  BY DEF PosTypes, Pos!TypeOK, Pos!Coord, PosLocked, PosOrder
<1>5. PosPublished'
  BY DEF PosTypes, Pos!TypeOK, PosLocked, PosOrder, PosPublished, Place
<1> QED BY <1>1, <1>2, <1>3, <1>4, <1>5

LEMMA UnlockDataKeeps ==
  ASSUME PosInv, Pos!DaemonUnlocks("data", "unlock_data", "idle")
  PROVE  PosInv'
<1> USE PosConstants
    DEF Pos!DaemonUnlocks, Pos!Goes, Pos!Takes, Pos!Gives, PosInv
<1>1. PosTypes'
  BY DEF PosTypes, Pos!TypeOK, RfPcs, DaemonPcs, ReaderPcs, Place, Pos!Coord
<1>2. PosLocked'
  BY DEF PosTypes, PosLocked
<1>3. PosOurs'
  BY DEF PosTypes, Pos!TypeOK, PosLocked, PosOurs
<1>4. PosOrder'
  BY DEF PosTypes, Pos!TypeOK, Pos!Coord, PosLocked, PosOrder
<1>5. PosPublished'
  BY DEF PosTypes, Pos!TypeOK, PosLocked, PosOrder, PosPublished, Place
<1> QED BY <1>1, <1>2, <1>3, <1>4, <1>5

LEMMA ReaderCallsKeeps ==
  ASSUME PosInv, NEW t \in Pos!Reader, Pos!ReaderCalls(t)
  PROVE  PosInv'
<1> USE PosConstants
    DEF Pos!ReaderCalls, Pos!Goes, Pos!Takes, Pos!Gives, PosInv
<1>1. PosTypes'
  BY DEF PosTypes, Pos!TypeOK, RfPcs, DaemonPcs, ReaderPcs, Place, Pos!Coord
<1>2. PosLocked'
  BY DEF PosTypes, PosLocked
<1>3. PosOurs'
  BY DEF PosTypes, Pos!TypeOK, PosLocked, PosOurs
<1>4. PosOrder'
  BY DEF PosTypes, Pos!TypeOK, Pos!Coord, PosLocked, PosOrder
<1>5. PosPublished'
  BY DEF PosTypes, Pos!TypeOK, PosLocked, PosOrder, PosPublished, Place
<1> QED BY <1>1, <1>2, <1>3, <1>4, <1>5

LEMMA ReaderLocksKeeps ==
  ASSUME PosInv, NEW t \in Pos!Reader, Pos!ReaderLocks(t)
  PROVE  PosInv'
<1> USE PosConstants
    DEF Pos!ReaderLocks, Pos!Goes, Pos!Takes, Pos!Gives, PosInv
<1>1. PosTypes'
  BY DEF PosTypes, Pos!TypeOK, RfPcs, DaemonPcs, ReaderPcs, Place, Pos!Coord
<1>2. PosLocked'
  BY DEF PosTypes, PosLocked
<1>3. PosOurs'
  BY DEF PosTypes, Pos!TypeOK, PosLocked, PosOurs
<1>4. PosOrder'
  BY DEF PosTypes, Pos!TypeOK, Pos!Coord, PosLocked, PosOrder
<1>5. PosPublished'
  BY DEF PosTypes, Pos!TypeOK, PosLocked, PosOrder, PosPublished, Place
<1> QED BY <1>1, <1>2, <1>3, <1>4, <1>5

LEMMA ReaderReadsXKeeps ==
  ASSUME PosInv, NEW t \in Pos!Reader, Pos!ReaderReads(t, "x", "x", "y")
  PROVE  PosInv'
<1> USE PosConstants
    DEF Pos!ReaderReads, Pos!Goes, Pos!Takes, Pos!Gives, PosInv
<1>1. PosTypes'
  BY DEF PosTypes, Pos!TypeOK, RfPcs, DaemonPcs, ReaderPcs, Place, Pos!Coord
<1>2. PosLocked'
  BY DEF PosTypes, PosLocked
<1>3. PosOurs'
  BY DEF PosTypes, Pos!TypeOK, PosLocked, PosOurs
<1>4. PosOrder'
  BY DEF PosTypes, Pos!TypeOK, Pos!Coord, PosLocked, PosOrder
<1>5. PosPublished'
  BY DEF PosTypes, Pos!TypeOK, PosLocked, PosOrder, PosPublished, Place
<1> QED BY <1>1, <1>2, <1>3, <1>4, <1>5

LEMMA ReaderReadsYKeeps ==
  ASSUME PosInv, NEW t \in Pos!Reader, Pos!ReaderReads(t, "y", "y", "unlock")
  PROVE  PosInv'
<1> USE PosConstants
    DEF Pos!ReaderReads, Pos!Goes, Pos!Takes, Pos!Gives, PosInv
<1>1. PosTypes'
  BY DEF PosTypes, Pos!TypeOK, RfPcs, DaemonPcs, ReaderPcs, Place, Pos!Coord
<1>2. PosLocked'
  BY DEF PosTypes, PosLocked
<1>3. PosOurs'
  BY DEF PosTypes, Pos!TypeOK, PosLocked, PosOurs
<1>4. PosOrder'
  BY DEF PosTypes, Pos!TypeOK, Pos!Coord, PosLocked, PosOrder
<1>5. PosPublished'
  BY DEF PosTypes, Pos!TypeOK, PosLocked, PosOrder, PosPublished, Place
<1> QED BY <1>1, <1>2, <1>3, <1>4, <1>5

LEMMA ReaderUnlocksKeeps ==
  ASSUME PosInv, NEW t \in Pos!Reader, Pos!ReaderUnlocks(t)
  PROVE  PosInv'
<1> USE PosConstants
    DEF Pos!ReaderUnlocks, Pos!Goes, Pos!Takes, Pos!Gives, PosInv
<1>1. PosTypes'
  BY DEF PosTypes, Pos!TypeOK, RfPcs, DaemonPcs, ReaderPcs, Place, Pos!Coord
<1>2. PosLocked'
  BY DEF PosTypes, PosLocked
<1>3. PosOurs'
  BY DEF PosTypes, Pos!TypeOK, PosLocked, PosOurs
<1>4. PosOrder'
  BY DEF PosTypes, Pos!TypeOK, Pos!Coord, PosLocked, PosOrder
<1>5. PosPublished'
  BY DEF PosTypes, Pos!TypeOK, PosLocked, PosOrder, PosPublished, Place
<1> QED BY <1>1, <1>2, <1>3, <1>4, <1>5

\* A packet carries one number, larger than all before.
LEMMA PacketKeeps ==
  ASSUME PosInv,
         NEW board \in Board, NEW a \in {Us, Them, PosNone},
         NEW b \in {Us, Them, PosNone}, a = b => a = PosNone,
         Pos!Packet(board, <<[id |-> a, n |-> posSent + 1],
                             [id |-> b, n |-> posSent + 1]>>)
  PROVE  PosInv'
<1> DEFINE c == <<[id |-> a, n |-> posSent + 1], [id |-> b, n |-> posSent + 1]>>
           mine == Pos!Swapped(c)
<1> USE PosConstants DEF PosInv
<1>1. /\ mine \in Pos!Coord' \X Pos!Coord'
      /\ mine[1].n = posSent + 1 /\ mine[2].n = posSent + 1
      /\ mine[2].id # Us
  BY DEF Pos!Packet, PosTypes, Pos!Swapped, Pos!Coord
<1>2. /\ posPc[PosRf] = "idle"
      /\ posSent' = posSent + 1 /\ posSent < PosPackets
      /\ UNCHANGED <<posHalter, posHolder, robot_id, locked_game, game, vps,
                     vps_daemon_has_recvd, got>>
      /\ \/ rx' = mine /\ posPc' = [posPc EXCEPT ![PosRf] = "lock"]
         \/ rx' = rx /\ posPc' = [posPc EXCEPT ![PosRf] = "idle"]
      /\ rf_which_board' \in {board, rf_which_board}
  BY DEF Pos!Packet, Pos!Goes, Pos!WhichBoard
<1> HIDE DEF mine
<1>3. PosTypes'
  BY <1>1, <1>2
     DEF PosTypes, Pos!TypeOK, RfPcs, DaemonPcs, ReaderPcs, Place, Pos!Coord
<1>4. PosLocked'
  BY <1>2 DEF PosTypes, PosLocked
<1>5. PosOurs'
  BY <1>1, <1>2 DEF PosTypes, Pos!TypeOK, PosLocked, PosOurs
<1>6. PosOrder'
  BY <1>1, <1>2 DEF PosTypes, Pos!TypeOK, Pos!Coord, PosLocked, PosOrder
<1>7. PosPublished'
  BY <1>2 DEF PosTypes, Pos!TypeOK, PosPublished, Place
<1> QED BY <1>3, <1>4, <1>5, <1>6, <1>7

LEMMA PosNextKeeps == PosInv /\ [Pos!Next]_posVars => PosInv'
<1> SUFFICES ASSUME PosInv, [Pos!Next]_posVars
             PROVE  PosInv'
  OBVIOUS
<1>1. CASE UNCHANGED posVars
  BY <1>1 DEF posVars, PosInv, PosTypes, Pos!TypeOK, PosLocked, PosOurs,
              PosOrder, PosPublished
<1>2. CASE Pos!Next
  <2>1. ASSUME NEW board \in Board, NEW a \in {Us, Them, PosNone},
               NEW b \in {Us, Them, PosNone}, a = b => a = PosNone,
               Pos!Packet(board, <<[id |-> a, n |-> posSent + 1],
                                   [id |-> b, n |-> posSent + 1]>>)
        PROVE  PosInv'
    BY <2>1, PacketKeeps
  <2>2. ASSUME NEW t \in Pos!Reader,
               \/ Pos!ReaderCalls(t)
               \/ Pos!ReaderLocks(t)
               \/ Pos!ReaderReads(t, "x", "x", "y")
               \/ Pos!ReaderReads(t, "y", "y", "unlock")
               \/ Pos!ReaderUnlocks(t)
        PROVE  PosInv'
    BY <2>2, ReaderCallsKeeps, ReaderLocksKeeps, ReaderReadsXKeeps,
       ReaderReadsYKeeps, ReaderUnlocksKeeps
  <2> QED
    BY <1>2, <2>1, <2>2, SetRobotIdKeeps, RfLockKeeps, RfCopy0Keeps,
       RfCopy1Keeps, RfUnlockKeeps, DaemonWakesKeeps, LockDataKeeps,
       LockObjectsKeeps, DaemonCopy0Keeps, DaemonCopy1Keeps,
       UnlockObjectsKeeps, PublishXKeeps, PublishYKeeps, PublishThemKeeps,
       UnlockDataKeeps, Zenon
       DEF Pos!Next
<1> QED BY <1>1, <1>2

LEMMA PosSteps ==
  [Next]_vars =>
    part' = part /\ IF part = "position" THEN [Pos!Next]_posVars
                                         ELSE UNCHANGED posVars
BY DEF Next, vars

LEMMA PosInvariant == Spec => [](part = "position" => PosInv)
<1>1. Init => (part = "position" => PosInv)
  BY PosInit DEF Init
<1>2. (part = "position" => PosInv) /\ [Next]_vars
        => (part = "position" => PosInv)'
  BY PosSteps, PosNextKeeps
<1> QED BY <1>1, <1>2, PTL DEF Spec

\* The position stored as ours is ours and the other's is not, and an accessor
\* of the daemon returns x and y of one packet, after the first.
THEOREM PositionsAreRight == Spec => []PositionsAreWhole
<1>1. (part = "position" => PosInv) => PositionsAreWhole
  BY DEF PosInv, PosOurs, PosPublished, PositionsAreWhole, Pos!OursIsOurs,
         Pos!AccessorsAreWhole
<1> QED BY <1>1, PosInvariant, PTL

-----------------------------------------------------------------------------
(* The refinement of PositionFeed *)

\* What the mapping of ImplementsFeed makes of the state.
Latest == IF posPc[PosRf] \in {"copy0", "copy1"}
          THEN Pos!Numbers(rx) ELSE Pos!Numbers(locked_game)
Copied == IF posPc[PosDaemon] \in {"copy0", "copy1"}
          THEN Pos!Numbers(locked_game) ELSE Pos!Numbers(game)
Seen == IF posPc[PosDaemon] \in {"publish_y", "publish_them"}
        THEN Pos!Numbers(game) ELSE [us |-> vps.x, them |-> vps.them]

LEMMA FeedInit == Pos!Init => Pos!Feed!Init
BY PosConstants, SMTT(40)
   DEF Pos!Init, Pos!Feed!Init, Pos!Feed!Nothing, Pos!Numbers, Pos!Blank,
       Pos!Start

\* Everything the feed does not tell apart leaves what it sees as it is.
LEMMA FeedStutters ==
  ASSUME PosInv,
         \/ Pos!SetRobotId
         \/ Pos!RfCopy(1, "copy0", "copy1")
         \/ Pos!RfCopy(2, "copy1", "unlock")
         \/ Pos!RfUnlock
         \/ Pos!DaemonWakes
         \/ Pos!DaemonLocks("data", "lock_data", "lock_objects")
         \/ Pos!DaemonCopy(1, "copy0", "copy1")
         \/ Pos!DaemonCopy(2, "copy1", "unlock_objects")
         \/ Pos!DaemonUnlocks("objects", "unlock_objects", "publish")
         \/ Pos!PublishY
         \/ Pos!PublishThem
         \/ Pos!DaemonUnlocks("data", "unlock_data", "idle")
  PROVE  UNCHANGED <<Latest, Copied, Seen>>
<1> USE PosConstants
    DEF PosInv, PosTypes, Pos!TypeOK, Pos!Coord, Latest, Copied, Seen,
        Pos!Numbers, Pos!Goes, Pos!Takes, Pos!Gives
<1>1. CASE Pos!SetRobotId
  BY <1>1 DEF Pos!SetRobotId, PosLocked, PosOrder, PosPublished
<1>2. CASE Pos!RfCopy(1, "copy0", "copy1")
  BY <1>2 DEF Pos!RfCopy, PosLocked, PosOrder, PosPublished
<1>3. CASE Pos!RfCopy(2, "copy1", "unlock")
  BY <1>3 DEF Pos!RfCopy, PosLocked, PosOrder, PosPublished
<1>4. CASE Pos!RfUnlock
  BY <1>4 DEF Pos!RfUnlock, PosLocked, PosOrder, PosPublished
<1>5. CASE Pos!DaemonWakes
  BY <1>5 DEF Pos!DaemonWakes, PosLocked, PosOrder, PosPublished
<1>6. CASE Pos!DaemonLocks("data", "lock_data", "lock_objects")
  BY <1>6 DEF Pos!DaemonLocks, PosLocked, PosOrder, PosPublished
<1>7. CASE Pos!DaemonCopy(1, "copy0", "copy1")
  BY <1>7 DEF Pos!DaemonCopy, PosLocked, PosOrder, PosPublished
<1>8. CASE Pos!DaemonCopy(2, "copy1", "unlock_objects")
  BY <1>8 DEF Pos!DaemonCopy, PosLocked, PosOrder, PosPublished
<1>9. CASE Pos!DaemonUnlocks("objects", "unlock_objects", "publish")
  BY <1>9 DEF Pos!DaemonUnlocks, PosLocked, PosOrder, PosPublished
<1>10. CASE Pos!PublishY
  BY <1>10, SMTT(40) DEF Pos!PublishY, PosLocked, PosOrder, PosPublished
<1>11. CASE Pos!PublishThem
  BY <1>11 DEF Pos!PublishThem, PosLocked, PosOrder, PosPublished
<1>12. CASE Pos!DaemonUnlocks("data", "unlock_data", "idle")
  BY <1>12 DEF Pos!DaemonUnlocks, PosLocked, PosOrder, PosPublished
<1> QED BY <1>1, <1>2, <1>3, <1>4, <1>5, <1>6, <1>7,
           <1>8, <1>9, <1>10, <1>11, <1>12

LEMMA ReadersStutter ==
  ASSUME PosInv, NEW t \in Pos!Reader,
         \/ Pos!ReaderCalls(t)
         \/ Pos!ReaderLocks(t)
         \/ Pos!ReaderReads(t, "x", "x", "y")
         \/ Pos!ReaderReads(t, "y", "y", "unlock")
         \/ Pos!ReaderUnlocks(t)
  PROVE  UNCHANGED <<Latest, Copied, Seen>>
<1>1. /\ UNCHANGED <<rx, locked_game, game, vps>>
      /\ posPc'[PosRf] = posPc[PosRf] /\ posPc'[PosDaemon] = posPc[PosDaemon]
  BY PosConstants
     DEF PosInv, PosTypes, Pos!ReaderCalls, Pos!ReaderLocks, Pos!ReaderReads,
         Pos!ReaderUnlocks, Pos!Goes
<1> QED BY <1>1 DEF Latest, Copied, Seen, Pos!Numbers

LEMMA PacketStutters ==
  ASSUME PosInv, NEW board \in Board, NEW c, Pos!Packet(board, c)
  PROVE  UNCHANGED <<Latest, Copied, Seen>>
<1>1. /\ UNCHANGED <<locked_game, game, vps>>
      /\ posPc[PosRf] = "idle" /\ posPc'[PosRf] \in {"idle", "lock"}
      /\ posPc'[PosDaemon] = posPc[PosDaemon]
  BY PosConstants DEF PosInv, PosTypes, Pos!Packet, Pos!Goes
<1> QED BY <1>1 DEF Latest, Copied, Seen, Pos!Numbers

\* The step at which the radio thread decides what to store is the one at
\* which a packet is accepted.
LEMMA AcceptStep ==
  ASSUME PosInv, Pos!RfLock
  PROVE  Pos!Feed!Accept
<1>1. /\ Latest = Pos!Numbers(locked_game) /\ Latest' = Pos!Numbers(rx')
      /\ rx' = Pos!Restored(rx)
  BY PosConstants
     DEF Pos!RfLock, Pos!Goes, PosInv, PosTypes, Latest, Pos!Numbers
<1>2. /\ rx[1] \in Pos!Coord /\ rx[2] \in Pos!Coord
      /\ locked_game[1] \in Pos!Coord
      /\ locked_game[1].n < rx[1].n /\ locked_game[2].n < rx[2].n
      /\ rx[1].n = rx[2].n
  BY DEF PosInv, PosTypes, Pos!TypeOK, PosOrder, Pos!RfLock, Pos!Goes
<1>3. /\ rx'[1].n \in Nat /\ rx'[2].n \in Nat
      /\ rx'[1].n >= locked_game[1].n /\ rx'[2].n > locked_game[2].n
  BY <1>1, <1>2, PosConstants DEF Pos!Restored, Pos!Coord
<1>4. /\ Latest' \in [us : Nat, them : Nat]
      /\ Latest'.us >= Latest.us /\ Latest'.them > Latest.them
  BY <1>1, <1>3 DEF Pos!Numbers
<1>5. UNCHANGED <<Copied, Seen>>
  BY PosConstants
     DEF Pos!RfLock, Pos!Goes, PosInv, PosTypes, Copied, Seen, Pos!Numbers
<1> QED BY <1>4, <1>5 DEF Pos!Feed!Accept, Latest, Copied, Seen

\* The step at which the daemon locks the radio's copy is the one at which it
\* takes its own.
LEMMA CopyStep ==
  ASSUME PosInv, Pos!DaemonLocks("objects", "lock_objects", "copy0")
  PROVE  Pos!Feed!Copy
<1>1. /\ UNCHANGED <<rx, locked_game, game, vps>>
      /\ posPc[PosDaemon] = "lock_objects" /\ posPc'[PosDaemon] = "copy0"
      /\ posPc'[PosRf] = posPc[PosRf]
      /\ posPc[PosRf] \notin {"copy0", "copy1"}
  BY PosConstants
     DEF Pos!DaemonLocks, Pos!Goes, Pos!Takes, PosInv, PosTypes, PosLocked
<1>2. Copied' = Latest /\ UNCHANGED <<Latest, Seen>>
  BY <1>1 DEF Latest, Copied, Seen, Pos!Numbers
<1> QED BY <1>2 DEF Pos!Feed!Copy, Latest, Copied, Seen

\* The step at which the daemon writes the first coordinate is the one at
\* which all of the position shows.
LEMMA PublishStep ==
  ASSUME PosInv, Pos!PublishX
  PROVE  Pos!Feed!Publish \/ UNCHANGED <<Latest, Copied, Seen>>
<1>1. /\ UNCHANGED <<rx, locked_game, game>>
      /\ posPc[PosDaemon] = "publish" /\ posPc'[PosRf] = posPc[PosRf]
  BY PosConstants DEF Pos!PublishX, Pos!Goes, PosInv, PosTypes
<1>2. CASE Pos!Real
  <2>1. posPc'[PosDaemon] = "publish_y"
    BY <1>2, PosConstants DEF Pos!PublishX, Pos!Goes, PosInv, PosTypes
  <2>2. Seen' = Copied /\ UNCHANGED <<Latest, Copied>>
    BY <1>1, <2>1 DEF Latest, Copied, Seen, Pos!Numbers
  <2> QED BY <2>2 DEF Pos!Feed!Publish, Latest, Copied, Seen
<1>3. CASE ~Pos!Real
  <2>1. posPc'[PosDaemon] = "unlock_data" /\ vps' = vps
    BY <1>3, PosConstants DEF Pos!PublishX, Pos!Goes, PosInv, PosTypes
  <2> QED BY <1>1, <2>1 DEF Latest, Copied, Seen, Pos!Numbers
<1> QED BY <1>2, <1>3

LEMMA FeedSteps ==
  ASSUME PosInv, [Pos!Next]_posVars
  PROVE  [Pos!Feed!Next]_<<Latest, Copied, Seen>>
<1>1. CASE UNCHANGED posVars
  BY <1>1 DEF posVars, Latest, Copied, Seen, Pos!Numbers
<1>2. CASE Pos!Next
  <2>1. ASSUME NEW board \in Board, NEW c, Pos!Packet(board, c)
        PROVE  UNCHANGED <<Latest, Copied, Seen>>
    BY <2>1, PacketStutters
  <2>2. ASSUME NEW t \in Pos!Reader,
               \/ Pos!ReaderCalls(t)
               \/ Pos!ReaderLocks(t)
               \/ Pos!ReaderReads(t, "x", "x", "y")
               \/ Pos!ReaderReads(t, "y", "y", "unlock")
               \/ Pos!ReaderUnlocks(t)
        PROVE  UNCHANGED <<Latest, Copied, Seen>>
    BY <2>2, ReadersStutter
  <2>3. \/ UNCHANGED <<Latest, Copied, Seen>>
        \/ Pos!Feed!Accept \/ Pos!Feed!Copy \/ Pos!Feed!Publish
    BY <1>2, <2>1, <2>2, FeedStutters, AcceptStep, CopyStep, PublishStep
       DEF Pos!Next
  <2> QED BY <2>3 DEF Pos!Feed!Next
<1> QED BY <1>1, <1>2

\* What the program sees are whole packets in the order they were sent, though
\* three threads copy them one coordinate at a time.
THEOREM PositionsImplementFeed == Spec => ImplementsFeed
<1>1. Init => Pos!Feed!Init
  BY FeedInit DEF Init
<1>2. (part = "position" => PosInv) /\ [Next]_vars
        => [Pos!Feed!Next]_<<Latest, Copied, Seen>>
  <2> SUFFICES ASSUME part = "position" => PosInv, [Next]_vars
               PROVE  [Pos!Feed!Next]_<<Latest, Copied, Seen>>
    OBVIOUS
  <2>1. CASE part = "position"
    BY <2>1, PosSteps, FeedSteps
  <2>2. CASE part # "position"
    BY <2>2, PosSteps DEF posVars, Latest, Copied, Seen, Pos!Numbers
  <2> QED BY <2>1, <2>2
<1> QED BY <1>1, <1>2, PosInvariant, PTL
        DEF Spec, ImplementsFeed, Pos!ImplementsFeed, Pos!Feed!Spec, Latest,
            Copied, Seen
=============================================================================
