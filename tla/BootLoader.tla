----------------------------- MODULE BootLoader -----------------------------
(***************************************************************************)
(* The boot loader, boot/hboot.c, and the programmer at the other end of   *)
(* its serial line.  The loader takes the bytes of a command one by one;   *)
(* the last byte has to be a space, or it does not answer (and, but for    *)
(* the parameters it has stored, does nothing).  The programmer sets the   *)
(* address before every block, waits for the answer, and when none comes   *)
(* sends the command that only asks for an answer.                         *)
(***************************************************************************)
EXTENDS Sequences, Integers

CONSTANTS
  Page,          \* word addresses of the pages programmed, below 2^16
  PageWords,     \* PAGE_SIZE, words in a page (128)
  Block,         \* the blocks the programmer writes, sequences of bytes
  Memories,      \* the memory types it writes: of F (70), E (69) and X (88)
  MaxCommands,   \* bound: number of commands sent
  MaxLost        \* bound: number of bytes lost on the line

UINT8_MAX == 255
UINT16_MAX == 65535
uint8 == 0 .. UINT8_MAX
uint16 == 0 .. UINT16_MAX

BootLoaderAssumption ==
  /\ PageWords \in Nat \ {0} /\ 2 * PageWords <= UINT16_MAX
  /\ \A p \in Page : p \in uint16 /\ p % PageWords = 0
  /\ Block \subseteq Seq(uint8)
  /\ \A b \in Block : Len(b) \in 1 .. 2 * PageWords
  /\ Memories \subseteq {69, 70, 88}
  /\ MaxCommands \in Nat /\ MaxLost \in Nat

VARIABLES
  line,        \* bytes sent and not yet received
  received,    \* the bytes of the command the loader is receiving
  address,     \* its address register, 16 bits
  buff,        \* its buffer, one page
  extflash,    \* flags.extflash
  flash,       \* program flash, by byte
  eeprom,
  app,         \* the application has been started
  answer,      \* what the loader has answered, <<>> nothing
  sent,        \* the command the programmer waits for an answer to
  clean,       \* nothing was lost since the loader was last known in step
  at,          \* the page the programmer has set the address to, or -1
  believed,    \* history: the memory as the programmer knows it; -1: unknown
  used,        \* history: the memory types of the blocks sent
  commands, lost   \* counters of the bounds

loaderVars == <<received, address, buff, extflash, flash, eeprom, app>>
hostVars == <<sent, clean, at, believed, used, commands, lost>>
bootVars == <<line, answer, loaderVars, hostVars>>

SPACE == 32
INSYNC == 20
OK == 16
STK_SYNC == 48
STK_BOARD == 64
STK_ADDRESS == 85
STK_WRITE == 100
STK_READ == 116
EEPROM == 69
EXTERNAL == 88

BuffSize == 2 * PageWords
Erased == 255
FlashByte == {2 * p + i : p \in Page, i \in 0 .. BuffSize - 1}
EepromByte == {(p + i) % 65536 : p \in Page, i \in 0 .. BuffSize - 1}

BootTypeOK ==
  /\ line \in Seq(uint8)
  /\ address \in uint16
  /\ buff \in [0 .. BuffSize - 1 -> uint8]
  /\ flash \in [FlashByte -> uint8]
  /\ eeprom \in [EepromByte -> uint8]
  /\ believed.flash \in [FlashByte -> uint8 \cup {-1}]
  /\ at \in Page \cup {-1}

\* The processor is reset: an application is there already, or flash is empty.
BootInit ==
  /\ line = <<>> /\ answer = <<>> /\ received = <<>>
  /\ address = 0
  /\ buff = [i \in 0 .. BuffSize - 1 |-> 0]
  /\ extflash = FALSE
  /\ flash \in {[a \in FlashByte |-> b] : b \in {1, Erased}}
  /\ eeprom = [a \in EepromByte |-> Erased]
  /\ app = FALSE
  /\ sent = <<>> /\ clean = TRUE /\ at = -1 /\ used = {}
  /\ believed = [flash |-> [a \in FlashByte |-> -1],
                 eeprom |-> [a \in EepromByte |-> -1]]
  /\ commands = 0 /\ lost = 0

-----------------------------------------------------------------------------
(* The loader *)

\* Reset with an application in flash and STOP not pressed.
AppBoot ==
  /\ commands = 0 /\ line = <<>>
  /\ ~app /\ 0 \in FlashByte /\ flash[0] # Erased
  /\ app' = TRUE
  /\ UNCHANGED <<line, answer, received, address, buff, extflash, flash,
                 eeprom, hostVars>>

BoardLength(c) == IF Len(c) > 1 /\ c[2] > 133 THEN 4 ELSE 3

WriteLength(c) == IF Len(c) < 3 THEN 5 ELSE 5 + 256 * c[2] + c[3]

\* How many bytes the command that begins with c has, with its last one.
Length(c) ==
  CASE c[1] \in {STK_SYNC, 49, 80, 81, 82, 117, 118} -> 2
    [] c[1] = STK_BOARD -> BoardLength(c)
    [] c[1] = 65 -> 3
    [] c[1] = 66 -> 22
    [] c[1] = 69 -> 7
    [] c[1] = 86 -> 6
    [] c[1] = STK_ADDRESS -> 4
    [] c[1] = STK_WRITE -> WriteLength(c)
    [] c[1] = STK_READ -> 5
    [] OTHER -> 1

Complete(c) == c # <<>> /\ Len(c) = Length(c)

\* More data than the buffer has room for overwrites what is behind it.
Overrun ==
  /\ Len(received) - 4 > BuffSize
  /\ received[1] = STK_WRITE /\ WriteLength(received) - 5 > BuffSize

Receive ==
  /\ ~app /\ ~Overrun /\ ~Complete(received) /\ line # <<>>
  /\ received' = Append(received, Head(line))
  /\ line' = Tail(line)
  /\ UNCHANGED <<answer, address, buff, extflash, flash, eeprom, app,
                 hostVars>>

\* Mutant: what comes last is not looked at.
AnyTerminator(c) == TRUE

Terminated(c) == c[Len(c)] = SPACE

Data(c) == SubSeq(c, 5, Len(c) - 1)

Filled(data) == [i \in 0 .. BuffSize - 1 |-> IF i < Len(data) THEN data[i + 1]
                                                              ELSE buff[i]]

\* address.word << 1
Doubled(word) == (2 * word) % 65536

\* Bytes from a word address of flash: a word is two bytes, and the upper half
\* of flash is reached through RAMPZ.
FlashAt(word) == Doubled(word) + (IF word > 32767 THEN 65536 ELSE 0)

\* An odd number of bytes is made even; the byte more is an old one.
Rounded(n) == n + (n % 2)

\* The page is erased, and written as far as there are bytes.
Programmed(data) ==
  LET from == FlashAt(address) IN
  [a \in FlashByte |->
     IF a - from \in 0 .. Rounded(Len(data)) - 1 THEN Filled(data)[a - from]
     ELSE IF a \div BuffSize = from \div BuffSize THEN Erased ELSE flash[a]]

EepromWritten(data) ==
  [a \in EepromByte |-> IF (a - address) % 65536 < Len(data)
                        THEN data[((a - address) % 65536) + 1] ELSE eeprom[a]]

Answer(data) == answer' = IF Terminated(received)
                          THEN <<INSYNC>> \o data \o <<OK>> ELSE <<>>

\* Commands without effect, answered with no, one or a few bytes.
OtherCommand ==
  /\ Complete(received)
  /\ received[1] \notin {STK_ADDRESS, STK_WRITE, STK_READ}
  /\ IF Len(received) = 1 THEN UNCHANGED answer ELSE Answer(<<>>)
  /\ received' = <<>>
  /\ UNCHANGED <<line, address, buff, extflash, flash, eeprom, app, hostVars>>

\* 'U'
SetAddress ==
  /\ Complete(received) /\ received[1] = STK_ADDRESS
  /\ address' = received[2] + 256 * received[3]
  /\ Answer(<<>>)
  /\ received' = <<>>
  /\ UNCHANGED <<line, buff, extflash, flash, eeprom, app, hostVars>>

\* flags.extflash is set, and never cleared.
ExtFlash(type) == extflash \/ type = EXTERNAL

\* 'd': into EEPROM, external flash (which is not looked at here) or flash.
WriteBlock ==
  LET data == Data(received)
      type == received[4]
      external == ExtFlash(type)
  IN
  /\ Complete(received) /\ received[1] = STK_WRITE /\ ~Overrun
  /\ buff' = Filled(data)
  /\ extflash' = external
  /\ Answer(<<>>)
  /\ eeprom' = IF Terminated(received) /\ type = EEPROM
               THEN EepromWritten(data) ELSE eeprom
  /\ flash' = IF Terminated(received) /\ type # EEPROM /\ ~external
              THEN Programmed(data) ELSE flash
  /\ address' = IF ~Terminated(received) THEN address
                ELSE IF type = EEPROM \/ external
                THEN (address + Len(data)) % 65536 ELSE Doubled(address)
  /\ received' = <<>>
  /\ UNCHANGED <<line, app, hostVars>>

ReadBytes(n) ==
  [i \in 1 .. n |->
     LET a == (address + i - 1) % 65536
         b == FlashAt(address) + i - 1
     IN IF received[4] = EEPROM
        THEN (IF a \in EepromByte THEN eeprom[a] ELSE Erased)
        ELSE (IF b \in FlashByte THEN flash[b] ELSE Erased)]

\* 't': from EEPROM or flash.
ReadBlock ==
  LET n == 256 * received[2] + received[3]
      first == IF received[4] = EEPROM THEN address ELSE Doubled(address)
  IN
  /\ Complete(received) /\ received[1] = STK_READ
  /\ Answer(IF Terminated(received) THEN ReadBytes(n) ELSE <<>>)
  /\ address' = (first + (IF Terminated(received) THEN n ELSE 0)) % 65536
  /\ received' = <<>>
  /\ UNCHANGED <<line, buff, extflash, flash, eeprom, app, hostVars>>

Loader == Receive \/ OtherCommand \/ SetAddress \/ WriteBlock \/ ReadBlock
-----------------------------------------------------------------------------
(* The programmer *)

Zeros(n) == [i \in 1 .. n |-> 0]

\* What it sends besides addresses and blocks: each with its terminator.
Greetings ==
  {<<STK_SYNC, SPACE>>, <<STK_BOARD, 133, SPACE>>, <<STK_BOARD, 134, 1, SPACE>>,
   <<66>> \o Zeros(20) \o <<SPACE>>}

AddressOf(p) == <<STK_ADDRESS, p % 256, p \div 256, SPACE>>
WriteOf(b, type) == <<STK_WRITE, Len(b) \div 256, Len(b) % 256, type>> \o b
                    \o <<SPACE>>
ReadOf(n, type) == <<STK_READ, n \div 256, n % 256, type, SPACE>>

Without(s, i) == SubSeq(s, 1, i - 1) \o SubSeq(s, i + 1, Len(s))

\* A command goes out, whole or with a byte lost on the way.
Send(command) ==
  /\ ~app /\ commands < MaxCommands
  /\ commands' = commands + 1
  /\ sent' = command
  /\ \/ line' = command /\ UNCHANGED <<lost, clean>>
     \/ /\ lost < MaxLost
        /\ lost' = lost + 1
        /\ clean' = FALSE
        /\ \E i \in DOMAIN command : line' = Without(command, i)
  /\ UNCHANGED <<loaderVars, answer>>

HostSends ==
  /\ sent = <<>>
  /\ \/ \E c \in Greetings : Send(c) /\ UNCHANGED <<at, believed, used>>
     \/ /\ at = -1
        /\ \E p \in Page : Send(AddressOf(p)) /\ at' = p
        /\ UNCHANGED <<believed, used>>
     \/ /\ at # -1
        /\ \E b \in Block, type \in Memories :
             Send(WriteOf(b, type)) /\ used' = used \cup {type}
        /\ UNCHANGED <<at, believed>>
     \/ /\ at # -1
        /\ \E type \in Memories \ {EXTERNAL} :
             Send(ReadOf(BuffSize, type))
        /\ UNCHANGED <<at, believed, used>>

\* What the programmer knows of the memory after a block was acknowledged.
BelievedAfter ==
  LET b == Data(sent) IN
  IF sent[1] # STK_WRITE \/ sent[4] = EXTERNAL THEN believed
  ELSE IF sent[4] = EEPROM
  THEN [believed EXCEPT !.eeprom =
          [a \in EepromByte |-> IF (a - at) % 65536 < Len(b)
                                THEN b[((a - at) % 65536) + 1] ELSE @[a]]]
  ELSE [believed EXCEPT !.flash =
          [a \in FlashByte |->
             IF a - 2 * at \in 0 .. Len(b) - 1 THEN b[a - 2 * at + 1]
             ELSE IF a - 2 * at \in 0 .. BuffSize - 1 THEN -1 ELSE @[a]]]

\* The answer has come.
HostReads ==
  /\ sent # <<>> /\ answer # <<>>
  /\ answer' = <<>> /\ sent' = <<>>
  /\ believed' = BelievedAfter
  /\ at' = IF sent[1] \in {STK_WRITE, STK_READ} THEN -1 ELSE at
  /\ clean' = TRUE
  /\ UNCHANGED <<line, loaderVars, used, commands, lost>>

\* No answer in time: ask for one.  The block the answer was to is in doubt.
HostTimesOut ==
  /\ sent # <<>> /\ answer = <<>> /\ line = <<>>
  /\ ~Complete(received)
  /\ Send(<<STK_SYNC, SPACE>>)
  /\ at' = -1
  /\ UNCHANGED <<believed, used>>

BootNext == AppBoot \/ Loader \/ HostSends \/ HostReads \/ HostTimesOut

BootSpec == BootInit /\ [][BootNext]_bootVars

-----------------------------------------------------------------------------
(* Properties *)

\* hboot.c keeps no checksum; what protects the memories is the space that has
\* to come last.  They change only by a block the programmer is sending and of
\* which no byte was lost.  That is so for every block while no byte is lost on
\* the line; once one was, the loader may look for a command among the bytes of
\* a block, and data like 48, 32 are one.
OnlyWholeBlocks ==
  [][flash' # flash \/ eeprom' # eeprom
       => clean /\ received = sent /\ received[1] = STK_WRITE]_bootVars

\* A block that was acknowledged is in the memory asked for, in both halves of
\* flash and for odd lengths, until its page is written again; unless external
\* flash was written before: from then on blocks for flash go there
\* (hboot.c:166).
BlocksArrive ==
  sent = <<>> =>
    /\ \A a \in EepromByte : believed.eeprom[a] \in {-1, eeprom[a]}
    /\ EXTERNAL \notin used =>
         \A a \in FlashByte : believed.flash[a] \in {-1, flash[a]}

\* What the loader takes for a command is the one the programmer sent, from its
\* first byte to its last: however long it is, the two do not lose step.
InStep ==
  clean /\ received # <<>> => /\ Len(received) <= Len(sent)
                             /\ received = SubSeq(sent, 1, Len(received))
                             /\ line = SubSeq(sent, Len(received) + 1, Len(sent))
=============================================================================
