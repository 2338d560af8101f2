----------------------------- MODULE Bitstream -----------------------------
(***************************************************************************)
(* How the FPGA gets its configuration.  tools/bittool compresses the      *)
(* bitstream by run lengths, puts a page with the board's configuration in *)
(* front and sends both to the boot loader, which stores them in the       *)
(* external flash, page by page (devices/at45db011.c).  At every start the *)
(* board reads the configuration, checks it, and has fpga_init() read the  *)
(* bitstream back, expand it and shift it into the FPGA.                   *)
(*                                                                         *)
(* A byte is a marker when its two top bits are set; the bits below count. *)
(* A cell of the first page stands for two bytes.                          *)
(***************************************************************************)
EXTENDS Integers, Sequences, Bitwise

CONSTANTS
  Raw,         \* the bitstreams, sequences of bytes
  Installed,   \* the bitstream that is in the flash of a used board
  MaxRun,      \* the longest run (63)
  BlockLimit,  \* the longest block of rleBlockEncode() (128)
  Pages,       \* pages in the flash
  PageSize,    \* AT45DB_PAGE_SIZE (256)
  Extra        \* PAGE_EXTRA_BYTES (8)

BitstreamAssumption ==
  /\ MaxRun + 1 \in {2^n : n \in 1 .. 6}
  /\ Raw \cup {Installed} \subseteq Seq(0 .. 4 * MaxRun + 3)
  /\ PageSize >= 4 /\ BlockLimit >= 4 /\ Extra \in Nat

VARIABLES
  raw,         \* the bitstream being installed
  stage,       \* what is going on
  uploaded,    \* how many cells the boot loader has acknowledged
  cells,       \* the flash: its pages, without their extra bytes, end to end
  pageBuffer,  \* the page buffer in the flash chip
  pointer,     \* the cell the chip gives next in a continuous read
  read_offset, \* where in a page the driver believes to be
  config,      \* board_config
  outSize,     \* how many bytes fpga_init() has read
  fed          \* the bytes shifted into the FPGA

flashVars == <<cells, pageBuffer, uploaded>>
readVars == <<pointer, read_offset, config, outSize, fed>>
bitVars == <<raw, stage, flashVars, readVars>>

Times(n, b) == [i \in 1 .. n |-> b]
Least(a, b) == IF a < b THEN a ELSE b

-----------------------------------------------------------------------------
(* rle.py *)

Marker == 3 * (MaxRun + 1)
IsMarker(b) == b >= Marker

\* The number of bytes from p that are equal to the one at p.
SameFrom(s, p) ==
  CHOOSE n \in 1 .. Len(s) - p + 1 :
    /\ \A i \in p .. p + n - 1 : s[i] = s[p]
    /\ p + n <= Len(s) => s[p + n] # s[p]

\* A run that ends the data may be one longer than the others.
RunFrom(s, p) ==
  LET same == SameFrom(s, p) IN
  IF p + same > Len(s) /\ same = MaxRun + 1 THEN same ELSE Least(same, MaxRun)

\* "0x3F & ch"
CountOf(b) == b % (MaxRun + 1)

\* n bytes b: "n | 0xC0", which has no room for n = MaxRun + 1.
Code(n, b) == IF n = 1 /\ ~IsMarker(b) THEN <<b>>
              ELSE <<Marker + CountOf(n), b>>

rleEncode(s) ==
  LET enc[p \in 1 .. Len(s) + 1] ==
        IF p > Len(s) THEN <<>>
        ELSE Code(RunFrom(s, p), s[p]) \o enc[p + RunFrom(s, p)]
  IN enc[1]

rleDecode(s) ==
  LET dec[p \in 1 .. Len(s) + 2] ==
        IF p > Len(s) THEN <<>>
        ELSE IF IsMarker(s[p])
        THEN Times(CountOf(s[p]), s[p + 1]) \o dec[p + 2]
        ELSE <<s[p]>> \o dec[p + 1]
  IN dec[1]

Closed(block) == <<Len(block) + 1>> \o block
                 \o (IF Len(block) + 2 = BlockLimit THEN <<0>> ELSE <<>>)

\* Blocks begin with their length; one short of the limit is filled up.
rleBlockEncode(s) ==
  LET enc[p \in 1 .. Len(s) + 1, block \in Seq(Nat)] ==
        IF p > Len(s) THEN (IF block = <<>> THEN <<>> ELSE Closed(block))
        ELSE LET n == RunFrom(s, p)
                 code == Code(n, s[p])
             IN IF Len(block) + Len(code) < BlockLimit
                THEN enc[p + n, block \o code]
                ELSE Closed(block) \o enc[p + n, code]
  IN enc[1, <<>>]

rleBlockDecode(s) ==
  LET dec[p \in 1 .. Len(s) + 2] ==
        IF p > Len(s) THEN <<>>
        ELSE rleDecode(SubSeq(s, p + 1, p + s[p] - 1))
             \o dec[p + s[p] + (IF s[p] = BlockLimit - 1 THEN 1 ELSE 0)]
  IN dec[1]

-----------------------------------------------------------------------------
(* bittool.py *)

\* One bit of crc16_update(), which cuts to 16 bits only at the end.
ToolBit(crc) == IF (crc \div 32768) % 2 = 1 THEN (2 * crc) ^^ 4129 ELSE 2 * crc

Eight(step(_), crc) ==
  step(step(step(step(step(step(step(step(crc))))))))

crc16_update(crc, byte) == Eight(ToolBit, crc ^^ (byte * 256)) % 65536

\* The bytes of a word in the order the tool takes them.
ToolBytes(word) == <<word % 256, word \div 256>>

crc16_update_arr16(words) ==
  LET crc[n \in 0 .. Len(words)] ==
        IF n = 0 THEN 0
        ELSE crc16_update(crc16_update(crc[n - 1], ToolBytes(words[n])[1]),
                          ToolBytes(words[n])[2])
  IN crc[Len(words)]

\* The words of the configuration: board, its number, FPGA version, length.
Words(version, length) == <<769, 1234, version, length>>

\* The file: a page with version, length and checksum, then the code.
File(version, s) ==
  LET code == rleEncode(s) IN
  <<version, Len(code), crc16_update_arr16(Words(version, Len(code)))>>
    \o Times(PageSize - 3, 255) \o code

OldVersion == 256
NewVersion == 257

Blank == [i \in 0 .. Pages * PageSize - 1 |-> 255]
Holding(file) ==
  [i \in DOMAIN Blank |-> IF i < Len(file) THEN file[i + 1] ELSE 255]

BitInit ==
  /\ raw \in Raw
  /\ stage = "upload"
  /\ uploaded = 0
  /\ cells \in {Blank, Holding(File(OldVersion, Installed))}
  /\ pageBuffer = Times(PageSize, 255)
  /\ pointer = 0 /\ read_offset = 0 /\ outSize = 0
  /\ config = <<255, 255, 255>>
  /\ fed = <<>>

BitTypeOK ==
  /\ stage \in {"upload", "boot", "fpga", "up", "badConfig", "fpgaFailure"}
  /\ cells \in [0 .. Pages * PageSize - 1 -> 0 .. 65535]
  /\ Len(pageBuffer) = PageSize
  /\ read_offset \in 0 .. PageSize - 1
  /\ config \in Seq(0 .. 65535)
  /\ fed \in Seq(0 .. 255)

NewFile == File(NewVersion, raw)

-----------------------------------------------------------------------------
(* upload() and, in the boot loader, the driver of the flash *)

\* at45db_fill_buffer(): the rest of the page keeps what was there.
FilledBuffer(offset, data) ==
  [i \in 1 .. PageSize |-> IF i - offset \in 1 .. Len(data)
                           THEN data[i - offset] ELSE pageBuffer[i]]

\* at45db_store_buffer()
Programmed45(page, buffer) ==
  [i \in DOMAIN cells |-> IF i \div PageSize = page
                          THEN buffer[(i % PageSize) + 1] ELSE cells[i]]

\* The tool sends a block and gets its acknowledgement.
UploadBlock ==
  LET n == Least(PageSize, Len(NewFile) - uploaded) IN
  /\ stage = "upload" /\ uploaded < Len(NewFile)
  /\ pageBuffer' = FilledBuffer(uploaded % PageSize,
                                SubSeq(NewFile, uploaded + 1, uploaded + n))
  /\ cells' = Programmed45(uploaded \div PageSize, pageBuffer')
  /\ uploaded' = uploaded + n
  /\ UNCHANGED <<raw, stage, readVars>>

\* The upload is done, or is given up, and the board is switched on again.
SwitchOn ==
  /\ stage = "upload"
  /\ stage' = "boot"
  /\ UNCHANGED <<raw, flashVars, readVars>>

-----------------------------------------------------------------------------
(* Continuous reads of the flash *)

\* The cell the chip gives: pages are followed by their extra bytes.
CellAt(p) ==
  LET page == p \div (PageSize + Extra)
      offset == p % (PageSize + Extra)
  IN IF offset < PageSize /\ page < Pages THEN cells[page * PageSize + offset]
     ELSE 255

\* at45db_start_continuous_read(): where the chip starts.
StartAt(address) ==
  (address \div PageSize) * (PageSize + Extra) + (address % PageSize)

\* Mutant: the extra bytes are skipped after the first byte of the next page.
SkipLate(offset) == IF offset = 0 THEN Extra ELSE 0

\* at45db_get_next_byte(): the extra bytes it skips after a byte.
Skip(offset) == IF offset = PageSize - 1 THEN Extra ELSE 0

NextOffset(offset) == (offset + 1) % PageSize

-----------------------------------------------------------------------------
(* board_load_config() and fpga_init() *)

\* One bit of _crc_xmodem_update().
BoardBit(crc) ==
  IF crc >= 32768 THEN ((2 * crc) % 65536) ^^ 4129 ELSE 2 * crc

\* The checksum of the words as they lie in memory, low byte first.
BoardCrc(words) ==
  LET crc[n \in 0 .. 2 * Len(words)] ==
        IF n = 0 THEN 0
        ELSE LET word == words[(n + 1) \div 2]
                 byte == IF n % 2 = 1 THEN word % 256 ELSE word \div 256
             IN Eight(BoardBit, crc[n - 1] ^^ (byte * 256))
  IN crc[2 * Len(words)]

LoadConfig ==
  LET read == [i \in 1 .. 3 |-> CellAt(StartAt(0) + i - 1)] IN
  /\ stage = "boot"
  /\ config' = read
  /\ stage' = IF read[3] = BoardCrc(Words(read[1], read[2])) THEN "fpga"
              ELSE "badConfig"
  /\ pointer' = StartAt(PageSize)
  /\ read_offset' = 0
  /\ UNCHANGED <<raw, flashVars, outSize, fed>>

\* One round of the loop: a byte, or a marker with the byte it repeats.
ExpandRun ==
  LET first == CellAt(pointer)
      second == pointer + 1 + Skip(read_offset)
      value == CellAt(second)
      offset == NextOffset(read_offset)
  IN
  /\ stage = "fpga" /\ outSize < config[2]
  /\ IF IsMarker(first)
     THEN /\ fed' = fed \o Times(CountOf(first), value)
          /\ outSize' = outSize + 2
          /\ pointer' = second + 1 + Skip(offset)
          /\ read_offset' = NextOffset(offset)
     ELSE /\ fed' = Append(fed, first)
          /\ outSize' = outSize + 1
          /\ pointer' = second
          /\ read_offset' = offset
  /\ UNCHANGED <<raw, stage, flashVars, config>>

\* The FPGA itself checks the bitstream.
ConfigurationDone(s) == s \in {raw, Installed}

FpgaInitEnds ==
  /\ stage = "fpga" /\ outSize >= config[2]
  /\ stage' = IF ConfigurationDone(fed) THEN "up" ELSE "fpgaFailure"
  /\ UNCHANGED <<raw, flashVars, readVars>>

BitNext == UploadBlock \/ SwitchOn \/ LoadConfig \/ ExpandRun \/ FpgaInitEnds

-----------------------------------------------------------------------------
(* Properties *)

LastRun == SameFrom(raw, CHOOSE p \in DOMAIN raw :
             /\ \A i \in p .. Len(raw) : raw[i] = raw[p]
             /\ p > 1 => raw[p - 1] # raw[p])

\* After runs of the greatest length one byte more than that is left.
LastRunTooLong == LastRun > 1 /\ LastRun % MaxRun = 1

\* rle.py: decoding undoes encoding, in both formats.
DecodingUndoesEncoding ==
  stage = "upload" /\ ~LastRunTooLong =>
    rleDecode(rleEncode(raw)) = raw /\ rleBlockDecode(rleBlockEncode(raw)) = raw

\* A bitstream that was uploaded to the end is the one the FPGA gets: across
\* compression, pages with bytes to be skipped and a last page that is not full.
FpgaGetsBitstream ==
  stage \in {"up", "fpgaFailure"} /\ uploaded = Len(NewFile) /\ ~LastRunTooLong
    => fed = raw /\ stage = "up"

\* Tool and board compute the same checksum: a board refuses its configuration
\* only if none was ever stored, also when an upload was given up half way.
ConfigAccepted ==
  stage = "badConfig" => cells = Blank

\* bittool.py: "-d          Decompress .rle file", with the algorithm the file
\* was compressed with.  Decoding undoes encoding for every bitstream.
NoRunLost == stage = "upload" => rleDecode(rleEncode(raw)) = raw
=============================================================================
