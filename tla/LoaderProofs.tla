---------------------------- MODULE LoaderProofs ----------------------------
(***************************************************************************)
(* Proofs about the boot loader (BootLoader) in Drivers, for pages of any  *)
(* size, any blocks and any order of commands: what a command looks like   *)
(* at each of its bytes, that no buffer, address or memory leaves its      *)
(* bounds, and that blocks arrive in the memory they are for, whatever     *)
(* they hold, as long as no byte is lost.                                  *)
(***************************************************************************)
EXTENDS Drivers, SequenceTheorems, TLAPS

\* What the programmer sends.
Addresses == {Load!AddressOf(p) : p \in Page}
Writes == {Load!WriteOf(b, type) : b \in Block, type \in Memories}
Reads == {Load!ReadOf(Load!BuffSize, type) : type \in Memories \ {Load!EXTERNAL}}
HostCommands == Load!Greetings \cup Addresses \cup Writes \cup Reads

\* The beginning of a sequence, of a buffer too.
LEMMA Beginning ==
  ASSUME NEW S, NEW s \in Seq(S), NEW k \in 0 .. Len(s)
  PROVE  /\ SubSeq(s, 1, k) \in Seq(S)
         /\ Len(SubSeq(s, 1, k)) = k
         /\ \A j \in 1 .. k : SubSeq(s, 1, k)[j] = s[j]
  OBVIOUS

LEMMA WholeBeginning ==
  ASSUME NEW S, NEW s \in Seq(S)
  PROVE  SubSeq(s, 1, Len(s)) = s
<1> DEFINE b == SubSeq(s, 1, Len(s))
<1>1. b \in Seq(S) /\ Len(b) = Len(s) /\ \A j \in 1 .. Len(s) : b[j] = s[j]
  BY Beginning
<1> QED
  BY <1>1, SeqEqual

LEMMA BeginningGrows ==
  ASSUME NEW S, NEW s \in Seq(S), NEW k \in 1 .. Len(s)
  PROVE  Append(SubSeq(s, 1, k - 1), s[k]) = SubSeq(s, 1, k)
<1> DEFINE b == SubSeq(s, 1, k - 1)
           c == SubSeq(s, 1, k)
<1>1. b \in Seq(S) /\ Len(b) = k - 1 /\ \A j \in 1 .. k - 1 : b[j] = s[j]
  <2>1. k - 1 \in 0 .. Len(s)
    OBVIOUS
  <2> QED
    BY <2>1, Beginning
<1>2. c \in Seq(S) /\ Len(c) = k /\ \A j \in 1 .. k : c[j] = s[j]
  BY Beginning
<1>3. s[k] \in S
  OBVIOUS
<1> HIDE DEF b, c
<1>4. Append(b, s[k]) \in Seq(S) /\ Len(Append(b, s[k])) = k
  BY <1>1, <1>3
<1>5. \A j \in 1 .. k : Append(b, s[k])[j] = c[j]
  BY <1>1, <1>2, <1>3
<1>6. Append(b, s[k]) = c
  BY <1>2, <1>4, <1>5, SeqEqual
<1> QED
  BY <1>6 DEF b, c

LEMMA EmptyBeginning ==
  ASSUME NEW s
  PROVE  SubSeq(s, 1, 0) = <<>>
  OBVIOUS

LEMMA LoadAssumption == Load!BootLoaderAssumption
  BY DriversAssumption DEF DriversAssumption

LEMMA Widths ==
  /\ \A n : n \in Load!uint8 <=> n \in Nat /\ n < 256
  /\ \A n : n \in Load!uint16 <=> n \in Nat /\ n < 65536
<1>1. ASSUME NEW n, NEW k \in Nat PROVE n \in 0 .. k <=> n \in Nat /\ n <= k
  OBVIOUS
<1>2. Load!UINT8_MAX \in Nat /\ Load!UINT16_MAX \in Nat
  BY DEF Load!UINT8_MAX, Load!UINT16_MAX
<1>3. \A n \in Nat : /\ n <= Load!UINT8_MAX <=> n < 256
                     /\ n <= Load!UINT16_MAX <=> n < 65536
  BY DEF Load!UINT8_MAX, Load!UINT16_MAX
<1>4. /\ \A n : n \in Load!uint8 <=> n \in Nat /\ n <= Load!UINT8_MAX
      /\ \A n : n \in Load!uint16 <=> n \in Nat /\ n <= Load!UINT16_MAX
  BY <1>1, <1>2 DEF Load!uint8, Load!uint16
<1> QED
  BY <1>3, <1>4

LEMMA LoadConstants ==
  /\ PageWords \in Nat \ {0}
  /\ Load!BuffSize \in Nat \ {0} /\ Load!BuffSize = 2 * PageWords
  /\ Load!BuffSize < 65536
  /\ Block \subseteq Seq(Load!uint8)
  /\ \A b \in Block : Len(b) \in 1 .. Load!BuffSize
  /\ Memories \subseteq {69, 70, 88}
<1>1. PageWords \in Nat \ {0} /\ 2 * PageWords < 65536
  <2>1. PageWords \in Nat \ {0} /\ 2 * PageWords <= Load!UINT16_MAX
    BY LoadAssumption, Zenon DEF Load!BootLoaderAssumption
  <2> QED
    BY <2>1 DEF Load!UINT16_MAX
<1>2. /\ Block \subseteq Seq(Load!uint8)
      /\ \A b \in Block : Len(b) \in 1 .. 2 * PageWords
      /\ Memories \subseteq {69, 70, 88}
  BY LoadAssumption, Zenon DEF Load!BootLoaderAssumption
<1> QED
  BY <1>1, <1>2 DEF Load!BuffSize

LEMMA Multiple ==
  ASSUME NEW n \in Nat \ {0}, NEW a \in Nat, a % n = 0
  PROVE  \E i \in Nat : a = n * i
<1>1. a \div n \in Nat /\ a = n * (a \div n)
  BY SMTT(20)
<1> QED
  BY <1>1, Zenon

LEMMA PageAddress ==
  ASSUME NEW p \in Page
  PROVE  p \in Nat /\ p < 65536 /\ \E i \in Nat : p = PageWords * i
<1>1. p \in Load!uint16 /\ p % PageWords = 0
  BY LoadAssumption, Zenon DEF Load!BootLoaderAssumption
<1>2. p \in Nat /\ p < 65536
  BY <1>1, Widths
<1>3. \E i \in Nat : p = PageWords * i
  <2>1. PageWords \in Nat \ {0} /\ p \in Nat /\ p % PageWords = 0
    BY <1>1, <1>2, LoadConstants
  <2> QED
    BY <2>1, Multiple, Zenon
<1> QED
  BY <1>2, <1>3

LEMMA MultipleGrows ==
  ASSUME NEW n \in Nat, NEW i \in Nat, NEW j \in Nat, i <= j
  PROVE  n * i <= n * j
<1>1. PICK k \in Nat : j = i + k
  <2>1. j - i \in Nat /\ j = i + (j - i)
    OBVIOUS
  <2> QED
    BY <2>1
<1>2. n * j = n * i + n * k /\ n * k \in Nat /\ n * i \in Nat
  BY <1>1, SMTT(20)
<1> QED
  BY <1>2

LEMMA Quotient ==
  ASSUME NEW n \in Nat \ {0}, NEW a \in Nat
  PROVE  /\ a \div n \in Nat
         /\ n * (a \div n) <= a /\ a < n * (a \div n) + n
  BY SMTT(20)

\* A byte is in the page that begins at a page's address, or not.
LEMMA OtherPage ==
  ASSUME NEW p \in Page, NEW a \in Nat
  PROVE  a - 2 * p \in 0 .. Load!BuffSize - 1
           <=> a \div Load!BuffSize = (2 * p) \div Load!BuffSize
<1>1. PICK i \in Nat : p = PageWords * i
  BY PageAddress
<1>2. PICK n \in Nat \ {0} : n = Load!BuffSize /\ n = 2 * PageWords
  BY LoadConstants
<1>3. 2 * p = n * i
  <2>1. 2 * (PageWords * i) = (2 * PageWords) * i
    BY LoadConstants, SMTT(20)
  <2> QED
    BY <1>1, <1>2, <2>1
<1>4. (n * i) \div n = i
  <2>1. \A k \in Nat : n * k >= n * i => k >= i
    BY SMTT(20)
  <2> QED
    BY SMTT(20)
<1>5. PICK j \in Nat : j = a \div n /\ n * j <= a /\ a < n * j + n
  BY Quotient
<1>6. CASE j = i
  BY <1>2, <1>3, <1>4, <1>5, <1>6
<1>7. CASE j < i
  <2>1. n * (j + 1) <= n * i /\ n * (j + 1) = n * j + n
    BY <1>7, MultipleGrows, SMTT(20)
  <2> QED
    BY <1>2, <1>3, <1>4, <1>5, <1>7, <2>1
<1>8. CASE j > i
  <2>1. n * (i + 1) <= n * j /\ n * (i + 1) = n * i + n
    BY <1>8, MultipleGrows, SMTT(20)
  <2> QED
    BY <1>2, <1>3, <1>4, <1>5, <1>8, <2>1
<1> QED
  BY <1>6, <1>7, <1>8

-----------------------------------------------------------------------------
(* What is sent *)

\* A command as it is when it is whole: how long it is, and what comes last.
Whole(c) ==
  /\ c \in Seq(Load!uint8) /\ Len(c) > 1 /\ c[Len(c)] = 32
  /\ \/ c[1] = 48 /\ Len(c) = 2
     \/ c[1] = 64 /\ c[2] <= 133 /\ Len(c) = 3
     \/ c[1] = 64 /\ c[2] > 133 /\ Len(c) = 4
     \/ c[1] = 66 /\ Len(c) = 22
     \/ c[1] = 85 /\ Len(c) = 4
     \/ c[1] = 100 /\ Len(c) > 4 /\ Len(c) = 5 + 256 * c[2] + c[3]
     \/ c[1] = 116 /\ Len(c) = 5

LEMMA Octet ==
  /\ \A n \in Load!uint8 : n \in Nat
  /\ \A n \in Nat : n < 256 => n \in Load!uint8
  /\ 0 \in Load!uint16
  BY Widths

LEMMA Codes ==
  /\ Load!SPACE = 32 /\ Load!STK_SYNC = 48 /\ Load!STK_BOARD = 64
  /\ Load!STK_ADDRESS = 85 /\ Load!STK_WRITE = 100 /\ Load!STK_READ = 116
  /\ Load!EEPROM = 69 /\ Load!EXTERNAL = 88
  BY DEF Load!SPACE, Load!STK_SYNC, Load!STK_BOARD, Load!STK_ADDRESS,
         Load!STK_WRITE, Load!STK_READ, Load!EEPROM, Load!EXTERNAL

LEMMA Lengths ==
  ASSUME NEW p
  PROVE  /\ p[1] = 48 => Load!Length(p) = 2
         /\ p[1] = 64 => Load!Length(p) = Load!BoardLength(p)
         /\ p[1] = 66 => Load!Length(p) = 22
         /\ p[1] = 85 => Load!Length(p) = 4
         /\ p[1] = 100 => Load!Length(p) = Load!WriteLength(p)
         /\ p[1] = 116 => Load!Length(p) = 5
<1> USE DEF Load!Length, Load!SPACE, Load!STK_SYNC, Load!STK_BOARD,
            Load!STK_ADDRESS, Load!STK_WRITE, Load!STK_READ
<1>1. p[1] = 48 => Load!Length(p) = 2
  OBVIOUS
<1>2. p[1] = 64 => Load!Length(p) = Load!BoardLength(p)
  OBVIOUS
<1>3. p[1] = 66 => Load!Length(p) = 22
  OBVIOUS
<1>4. p[1] = 85 => Load!Length(p) = 4
  OBVIOUS
<1>5. p[1] = 100 => Load!Length(p) = Load!WriteLength(p)
  OBVIOUS
<1>6. p[1] = 116 => Load!Length(p) = 5
  OBVIOUS
<1> HIDE DEF Load!Length
<1> QED
  BY <1>1, <1>2, <1>3, <1>4, <1>5, <1>6

\* A number below 2^16 in two bytes.
LEMMA Halves ==
  ASSUME NEW n \in Nat, n < 65536
  PROVE  /\ n % 256 \in Load!uint8 /\ n \div 256 \in Load!uint8
         /\ n = 256 * (n \div 256) + (n % 256)
<1>1. /\ n % 256 \in Nat /\ n % 256 < 256
      /\ n \div 256 \in Nat /\ n \div 256 < 256
      /\ n = 256 * (n \div 256) + (n % 256)
  OBVIOUS
<1> QED
  BY <1>1, Octet

\* A sequence between two others.
LEMMA Between ==
  ASSUME NEW S, NEW f \in Seq(S), NEW s \in Seq(S), NEW g \in Seq(S)
  PROVE  LET c == f \o s \o g IN
         /\ c \in Seq(S) /\ Len(c) = Len(f) + Len(s) + Len(g)
         /\ \A i \in 1 .. Len(f) : c[i] = f[i]
         /\ \A i \in 1 .. Len(s) : c[Len(f) + i] = s[i]
         /\ \A i \in 1 .. Len(g) : c[Len(f) + Len(s) + i] = g[i]
<1> DEFINE h == f \o s
           c == f \o s \o g
<1>1. /\ h \in Seq(S) /\ Len(h) = Len(f) + Len(s)
      /\ \A i \in 1 .. Len(f) : h[i] = f[i]
      /\ \A i \in 1 .. Len(s) : h[Len(f) + i] = s[i]
  BY ConcatProperties
<1>2. c = h \o g
  OBVIOUS
<1> HIDE DEF h, c
<1> DEFINE d == h \o g
<1>3. d \in Seq(S) /\ Len(d) = Len(h) + Len(g)
  BY <1>1, ConcatProperties
<1>4. \A i \in 1 .. Len(h) : d[i] = h[i]
  BY <1>1, ConcatProperties
<1>5. \A i \in 1 .. Len(g) : d[Len(h) + i] = g[i]
  BY <1>1, ConcatProperties
<1>6. c = d
  BY <1>2
<1> HIDE DEF d
<1>7. \A i \in 1 .. Len(s) : c[Len(f) + i] = h[Len(f) + i]
  <2>1. \A i \in 1 .. Len(s) : Len(f) + i \in 1 .. Len(h)
    BY <1>1
  <2> QED
    BY <1>4, <1>6, <2>1
<1> QED
  BY <1>1, <1>3, <1>4, <1>5, <1>6, <1>7 DEF c

LEMMA ZerosAreBytes ==
  ASSUME NEW n \in Nat
  PROVE  Load!Zeros(n) \in Seq(Load!uint8) /\ Len(Load!Zeros(n)) = n
  BY Octet DEF Load!Zeros

LEMMA GreetingsAreWhole ==
  ASSUME NEW c \in Load!Greetings
  PROVE  Whole(c) /\ c[1] \notin {85, 100, 116}
<1>1. CASE c = <<48, 32>>
  <2>1. c \in Seq(Load!uint8) /\ Len(c) = 2 /\ c[1] = 48 /\ c[2] = 32
    BY <1>1, Octet
  <2> QED
    BY <2>1 DEF Whole
<1>2. CASE c = <<64, 133, 32>>
  <2>1. /\ c \in Seq(Load!uint8) /\ Len(c) = 3
        /\ c[1] = 64 /\ c[2] = 133 /\ c[3] = 32
    BY <1>2, Octet
  <2> QED
    BY <2>1 DEF Whole
<1>3. CASE c = <<64, 134, 1, 32>>
  <2>1. /\ c \in Seq(Load!uint8) /\ Len(c) = 4
        /\ c[1] = 64 /\ c[2] = 134 /\ c[4] = 32
    BY <1>3, Octet
  <2> QED
    BY <2>1 DEF Whole
<1>4. CASE c = <<66>> \o Load!Zeros(20) \o <<32>>
  <2> DEFINE z == Load!Zeros(20)
  <2>1. z \in Seq(Load!uint8) /\ Len(z) = 20
    <3>1. 20 \in Nat
      OBVIOUS
    <3> QED
      BY <3>1, ZerosAreBytes
  <2> HIDE DEF z
  <2>2. /\ <<66>> \in Seq(Load!uint8) /\ Len(<<66>>) = 1 /\ <<66>>[1] = 66
        /\ <<32>> \in Seq(Load!uint8) /\ Len(<<32>>) = 1 /\ <<32>>[1] = 32
    BY Octet
  <2>3. c = <<66>> \o z \o <<32>>
    BY <1>4 DEF z
  <2> DEFINE f == <<66>>
             g == <<32>>
  <2> HIDE DEF f, g
  <2>4. /\ c \in Seq(Load!uint8) /\ Len(c) = Len(f) + Len(z) + Len(g)
        /\ \A i \in 1 .. Len(f) : c[i] = f[i]
        /\ \A i \in 1 .. Len(g) : c[Len(f) + Len(z) + i] = g[i]
    <3>1. f \in Seq(Load!uint8) /\ g \in Seq(Load!uint8) /\ c = f \o z \o g
      BY <2>2, <2>3 DEF f, g
    <3>6. /\ f \in Seq(Load!uint8) /\ z \in Seq(Load!uint8)
          /\ g \in Seq(Load!uint8)
      BY <2>1, <3>1
    <3> DEFINE d == f \o z \o g
    <3>2. d \in Seq(Load!uint8) /\ Len(d) = Len(f) + Len(z) + Len(g)
      BY <3>6, Between
    <3>4. \A i \in 1 .. Len(f) : d[i] = f[i]
      BY <3>6, Between
    <3>5. \A i \in 1 .. Len(g) : d[Len(f) + Len(z) + i] = g[i]
      BY <3>6, Between
    <3>3. c = d
      BY <3>1
    <3> HIDE DEF d
    <3> QED
      BY <3>2, <3>3, <3>4, <3>5
  <2>5. Len(f) = 1 /\ f[1] = 66 /\ Len(g) = 1 /\ g[1] = 32
    BY DEF f, g
  <2>6. Len(c) = 22 /\ c[1] = 66 /\ c[22] = 32
    BY <2>1, <2>4, <2>5
  <2>7. c \in Seq(Load!uint8)
    BY <2>4
  <2> QED
    BY <2>6, <2>7 DEF Whole
<1> QED
  BY <1>1, <1>2, <1>3, <1>4, Codes DEF Load!Greetings

LEMMA AddressesAreWhole ==
  ASSUME NEW p \in Page
  PROVE  LET c == Load!AddressOf(p) IN
         /\ Whole(c) /\ c[1] = 85 /\ Len(c) = 4 /\ c[2] + 256 * c[3] = p
<1> DEFINE l == p % 256
           h == p \div 256
           c == Load!AddressOf(p)
<1>1. /\ l \in Load!uint8 /\ h \in Load!uint8 /\ p = 256 * h + l
      /\ p \in Nat /\ l \in Nat /\ h \in Nat
  BY PageAddress, Halves, Octet
<1>2. c = <<85, l, h, 32>>
  BY Codes DEF Load!AddressOf
<1> HIDE DEF l, h, c
<1>3. /\ c \in Seq(Load!uint8) /\ Len(c) = 4
      /\ c[1] = 85 /\ c[2] = l /\ c[3] = h /\ c[4] = 32
  BY <1>1, <1>2, Octet
<1>4. c[2] + 256 * c[3] = p
  BY <1>1, <1>3
<1> QED
  BY <1>3, <1>4 DEF Whole, c

LEMMA ReadsAreWhole ==
  ASSUME NEW type \in Memories \ {Load!EXTERNAL}
  PROVE  LET c == Load!ReadOf(Load!BuffSize, type) IN
         /\ Whole(c) /\ c[1] = 116
<1> DEFINE n == Load!BuffSize
           l == n % 256
           h == n \div 256
           c == Load!ReadOf(n, type)
<1>1. l \in Load!uint8 /\ h \in Load!uint8 /\ type \in Load!uint8
  <2>1. n \in Nat /\ n < 65536 /\ type \in Nat /\ type < 256
    BY LoadConstants
  <2> QED
    BY <2>1, Halves, Octet
<1>2. c = <<116, h, l, type, 32>>
  BY Codes DEF Load!ReadOf
<1> HIDE DEF l, h, c
<1>3. c \in Seq(Load!uint8) /\ Len(c) = 5 /\ c[1] = 116 /\ c[5] = 32
  BY <1>1, <1>2, Octet
<1> QED
  BY <1>3 DEF Whole, c

LEMMA WritesAreWhole ==
  ASSUME NEW b \in Block, NEW type \in Memories
  PROVE  LET c == Load!WriteOf(b, type) IN
         /\ Whole(c) /\ c[1] = 100 /\ c[4] = type /\ Load!Data(c) = b
         /\ Len(c) = Len(b) + 5
<1> DEFINE n == Len(b)
           l == n % 256
           h == n \div 256
           c == Load!WriteOf(b, type)
           first == <<100, h, l, type>>
           last == <<32>>
<1>1. b \in Seq(Load!uint8) /\ n \in Nat /\ n < 65536 /\ type \in Load!uint8
  <2>1. b \in Seq(Load!uint8) /\ n \in Nat /\ n < 65536
    BY LoadConstants
  <2>2. type \in Nat /\ type < 256
    BY LoadConstants
  <2> QED
    BY <2>1, <2>2, Octet
<1>2. /\ l \in Load!uint8 /\ h \in Load!uint8 /\ n = 256 * h + l
      /\ l \in Nat /\ h \in Nat
  BY <1>1, Halves, Octet
<1>3. c = first \o b \o last
  BY Codes DEF Load!WriteOf
<1> HIDE DEF l, h, c
<1>4. /\ first \in Seq(Load!uint8) /\ Len(first) = 4
      /\ first[1] = 100 /\ first[2] = h /\ first[3] = l /\ first[4] = type
      /\ last \in Seq(Load!uint8) /\ Len(last) = 1 /\ last[1] = 32
  BY <1>1, <1>2, Octet
<1> HIDE DEF first, last
<1>5. /\ c \in Seq(Load!uint8) /\ Len(c) = 4 + n + 1
      /\ \A i \in 1 .. 4 : c[i] = first[i]
      /\ \A i \in 1 .. n : c[4 + i] = b[i]
      /\ \A i \in 1 .. 1 : c[4 + n + i] = last[i]
  <2>6. /\ first \in Seq(Load!uint8) /\ b \in Seq(Load!uint8)
        /\ last \in Seq(Load!uint8)
    BY <1>1, <1>4
  <2> DEFINE d == first \o b \o last
  <2>1. d \in Seq(Load!uint8) /\ Len(d) = Len(first) + Len(b) + Len(last)
    BY <2>6, Between
  <2>3. \A i \in 1 .. Len(first) : d[i] = first[i]
    BY <2>6, Between
  <2>4. \A i \in 1 .. Len(b) : d[Len(first) + i] = b[i]
    BY <2>6, Between
  <2>5. \A i \in 1 .. Len(last) : d[Len(first) + Len(b) + i] = last[i]
    BY <2>6, Between
  <2>2. c = d
    BY <1>3
  <2> HIDE DEF d
  <2> QED
    BY <1>1, <1>4, <2>1, <2>2, <2>3, <2>4, <2>5
<1>6. /\ Len(c) = n + 5 /\ c[1] = 100 /\ c[2] = h /\ c[3] = l /\ c[4] = type
      /\ c[Len(c)] = 32
  BY <1>1, <1>4, <1>5
<1>7. Whole(c)
  <2>1. Len(c) = 5 + 256 * c[2] + c[3] /\ Len(c) > 4
    BY <1>1, <1>2, <1>6
  <2> QED
    BY <1>5, <1>6, <2>1 DEF Whole
<1>8. Load!Data(c) = b
  <2> DEFINE d == SubSeq(c, 5, Len(c) - 1)
  <2>1. Len(c) - 1 = n + 4 /\ n + 4 - 5 + 1 = n
    BY <1>1, <1>6
  <2>2. d = SubSeq(c, 5, n + 4)
    BY <2>1
  <2>3. d \in Seq(Load!uint8) /\ Len(d) = n
        /\ \A i \in 1 .. n : d[i] = c[4 + i]
    BY <1>1, <1>5, <1>6, <2>2
  <2> HIDE DEF d
  <2>4. Len(b) = n
    BY DEF n
  <2>5. d = b
    BY <1>1, <1>5, <2>3, <2>4, SeqEqual
  <2> QED
    BY <2>5 DEF d, Load!Data
<1> QED
  BY <1>6, <1>7, <1>8 DEF n, c

LEMMA CommandsAreWhole ==
  ASSUME NEW c \in HostCommands
  PROVE  Whole(c)
  BY GreetingsAreWhole, AddressesAreWhole, ReadsAreWhole, WritesAreWhole
     DEF HostCommands, Addresses, Writes, Reads

\* The loader takes a command for complete at its last byte and not before.
LEMMA CompleteWhenWhole ==
  ASSUME NEW c, Whole(c), NEW k \in 1 .. Len(c),
         NEW p \in Seq(Load!uint8), Len(p) = k,
         \A i \in 1 .. k : p[i] = c[i]
  PROVE  Load!Complete(p) <=> k = Len(c)
<1>1. /\ c \in Seq(Load!uint8) /\ Len(c) \in Nat /\ Len(c) > 1
      /\ p # <<>> /\ p[1] = c[1] /\ k \in Nat /\ k > 0 /\ k <= Len(c)
  BY DEF Whole
<1>2. (k > 1 => p[2] = c[2]) /\ (k > 2 => p[3] = c[3])
  BY <1>1
<1>3. Load!Complete(p) <=> k = Load!Length(p)
  BY <1>1 DEF Load!Complete
<1>4. CASE c[1] = 48 /\ Len(c) = 2
  BY <1>1, <1>3, <1>4, Lengths
<1>5. CASE c[1] = 64 /\ c[2] <= 133 /\ Len(c) = 3
  <2>1. Load!Length(p) = 3
    <3>1. c[2] \in Nat
      BY <1>1, Octet
    <3> QED
      BY <1>1, <1>2, <1>5, <3>1, Lengths DEF Load!BoardLength
  <2> QED
    BY <1>3, <1>5, <2>1
<1>6. CASE c[1] = 64 /\ c[2] > 133 /\ Len(c) = 4
  <2>1. Load!Length(p) = IF k > 1 THEN 4 ELSE 3
    BY <1>1, <1>2, <1>6, Lengths DEF Load!BoardLength
  <2> QED
    BY <1>1, <1>3, <1>6, <2>1
<1>7. CASE c[1] = 66 /\ Len(c) = 22
  BY <1>1, <1>3, <1>7, Lengths
<1>8. CASE c[1] = 85 /\ Len(c) = 4
  BY <1>1, <1>3, <1>8, Lengths
<1>9. CASE c[1] = 100 /\ Len(c) > 4 /\ Len(c) = 5 + 256 * c[2] + c[3]
  <2>1. c[2] \in Nat /\ c[3] \in Nat
    BY <1>1, <1>9, Octet, SMTT(40)
  <2>2. Load!Length(p) = IF k < 3 THEN 5 ELSE Len(c)
    BY <1>1, <1>2, <1>9, Lengths DEF Load!WriteLength
  <2> QED
    BY <1>1, <1>3, <1>9, <2>2
<1>10. CASE c[1] = 116 /\ Len(c) = 5
  BY <1>1, <1>3, <1>10, Lengths
<1> QED
  BY <1>4, <1>5, <1>6, <1>7, <1>8, <1>9, <1>10 DEF Whole

\* Where a page is in flash, and an address in EEPROM.
LEMMA FlashAddress ==
  ASSUME NEW n \in Load!uint16
  PROVE  Load!FlashAt(n) = 2 * n
<1>1. n \in Nat /\ n < 65536
  BY Widths
<1> QED
  BY <1>1 DEF Load!FlashAt, Load!Doubled

LEMMA EepromAddress ==
  ASSUME NEW a \in Load!EepromByte
  PROVE  a \in Nat
<1>1. PICK p \in Page, i \in 0 .. Load!BuffSize - 1 : a = (p + i) % 65536
  BY DEF Load!EepromByte
<1>2. p + i \in Int
  BY PageAddress, LoadConstants
<1> QED
  BY <1>1, <1>2

LEMMA FlashByteAddress ==
  ASSUME NEW a \in Load!FlashByte
  PROVE  a \in Nat
<1>1. PICK p \in Page, i \in 0 .. Load!BuffSize - 1 : a = 2 * p + i
  BY DEF Load!FlashByte
<1>2. p \in Nat /\ i \in Nat
  BY PageAddress, LoadConstants
<1> QED
  BY <1>1, <1>2

LEMMA RoundedFits ==
  ASSUME NEW n \in Nat, n <= Load!BuffSize
  PROVE  Load!Rounded(n) <= Load!BuffSize /\ Load!Rounded(n) \in Nat
         /\ n <= Load!Rounded(n)
  BY LoadConstants DEF Load!Rounded

\* A block that was sent, with its type and data.
LEMMA SentBlock ==
  ASSUME NEW c \in HostCommands, c[1] = Load!STK_WRITE
  PROVE  \E b \in Block, type \in Memories :
           c = Load!WriteOf(b, type) /\ c[4] = type /\ Load!Data(c) = b
<1>1. c[1] = 100
  BY Codes
<1>2. c \in Writes
  BY <1>1, GreetingsAreWhole, AddressesAreWhole, ReadsAreWhole
     DEF HostCommands, Addresses, Reads
<1>3. PICK b \in Block, type \in Memories : c = Load!WriteOf(b, type)
  BY <1>2 DEF Writes
<1> QED
  BY <1>3, WritesAreWhole

-----------------------------------------------------------------------------
(* Types *)

LineTypes ==
  /\ received \in Seq(Load!uint8) /\ loadLine \in Seq(Load!uint8)
  /\ loadSent \in HostCommands \cup {<<>>}

MemoryTypes ==
  /\ address \in Load!uint16 /\ extflash \in BOOLEAN
  /\ buff \in [0 .. Load!BuffSize - 1 -> Load!uint8]
  /\ flash \in [Load!FlashByte -> Load!uint8]
  /\ eeprom \in [Load!EepromByte -> Load!uint8]

Known == Load!uint8 \cup {-1}

HostTypes ==
  /\ believed \in [flash : [Load!FlashByte -> Known],
                   eeprom : [Load!EepromByte -> Known]]
  /\ at \in Page \cup {-1}
  /\ loadLost \in Nat

LoadTypes == LineTypes /\ MemoryTypes /\ HostTypes

LEMMA LoadInitTypes ==
  ASSUME Load!BootInit
  PROVE  LoadTypes
<1> USE DEF Load!BootInit
<1>1. {0, 1, Load!Erased} \subseteq Load!uint8
  BY Octet DEF Load!Erased
<1>2. LineTypes
  BY DEF LineTypes
<1>3. MemoryTypes
  <2>1. address \in Load!uint16 /\ extflash \in BOOLEAN
    BY Octet
  <2>2. buff \in [0 .. Load!BuffSize - 1 -> Load!uint8]
    BY <1>1
  <2>3. flash \in [Load!FlashByte -> Load!uint8]
    BY <1>1
  <2>4. eeprom \in [Load!EepromByte -> Load!uint8]
    BY <1>1
  <2> QED
    BY <2>1, <2>2, <2>3, <2>4 DEF MemoryTypes
<1>4. HostTypes
  BY DEF HostTypes, Known
<1> QED
  BY <1>2, <1>3, <1>4 DEF LoadTypes

LEMMA ReceiveKeepsTypes ==
  ASSUME LoadTypes, Load!Receive
  PROVE  LoadTypes'
<1>1. LineTypes'
  <2>1. /\ loadLine \in Seq(Load!uint8) /\ loadLine # <<>>
        /\ received \in Seq(Load!uint8)
    BY DEF LoadTypes, LineTypes, Load!Receive
  <2>2. Head(loadLine) \in Load!uint8 /\ Tail(loadLine) \in Seq(Load!uint8)
    BY <2>1, HeadTailProperties
  <2>3. Append(received, Head(loadLine)) \in Seq(Load!uint8)
    BY <2>1, <2>2
  <2> QED
    BY <2>2, <2>3 DEF LoadTypes, LineTypes, Load!Receive, Load!hostVars
<1>2. MemoryTypes'
  BY DEF LoadTypes, MemoryTypes, Load!Receive
<1>3. HostTypes'
  BY DEF LoadTypes, HostTypes, Load!Receive, Load!hostVars
<1> QED
  BY <1>1, <1>2, <1>3 DEF LoadTypes

\* A command was taken: what the loader does with it changes its memory only.
LEMMA TakenKeepsTypes ==
  ASSUME LoadTypes, received' = <<>>, UNCHANGED <<loadLine, Load!hostVars>>,
         MemoryTypes'
  PROVE  LoadTypes'
<1>1. LineTypes'
  BY DEF LoadTypes, LineTypes, Load!hostVars
<1>2. HostTypes'
  BY DEF LoadTypes, HostTypes, Load!hostVars
<1> QED
  BY <1>1, <1>2 DEF LoadTypes

LEMMA OtherCommandKeepsTypes ==
  ASSUME LoadTypes, Load!OtherCommand
  PROVE  LoadTypes'
<1>1. MemoryTypes'
  BY DEF LoadTypes, MemoryTypes, Load!OtherCommand
<1> QED
  BY <1>1, TakenKeepsTypes DEF Load!OtherCommand

LEMMA ElementsAreBytes ==
  ASSUME NEW c \in Seq(Load!uint8), Len(c) > 3
  PROVE  c[2] \in Load!uint8 /\ c[3] \in Load!uint8 /\ c[4] \in Load!uint8
  OBVIOUS

\* The bytes of an address, and of a block, are there when it is complete.
LEMMA AddressIsThere ==
  ASSUME received \in Seq(Load!uint8), Load!Complete(received),
         received[1] = 85
  PROVE  /\ received[2] \in Load!uint8 /\ received[3] \in Load!uint8
         /\ received[2] + 256 * received[3] \in Load!uint16
<1>1. Len(received) = 4
  BY Lengths DEF Load!Complete
<1>2. received[2] \in Load!uint8 /\ received[3] \in Load!uint8
  BY <1>1, ElementsAreBytes
<1>3. /\ received[2] \in Nat /\ received[2] < 256
      /\ received[3] \in Nat /\ received[3] < 256
  BY <1>2, Widths
<1>4. /\ received[2] + 256 * received[3] \in Nat
      /\ received[2] + 256 * received[3] < 65536
  BY <1>3, SMTT(40)
<1> QED
  BY <1>2, <1>4, Widths

LEMMA SetAddressKeepsTypes ==
  ASSUME LoadTypes, Load!SetAddress
  PROVE  LoadTypes'
<1>1. address' \in Load!uint16
  BY AddressIsThere, Codes DEF LoadTypes, LineTypes, Load!SetAddress
<1>2. MemoryTypes'
  BY <1>1 DEF LoadTypes, MemoryTypes, Load!SetAddress
<1> QED
  BY <1>2, TakenKeepsTypes DEF Load!SetAddress

LEMMA DataAreThere ==
  ASSUME received \in Seq(Load!uint8), Load!Complete(received),
         received[1] = 100
  PROVE  LET data == Load!Data(received) IN
         /\ data \in Seq(Load!uint8) /\ Len(received) >= 5
         /\ Len(data) = Len(received) - 5
         /\ ~Load!Overrun => Len(data) <= Load!BuffSize
<1>1. Len(received) = Load!WriteLength(received)
  BY Lengths DEF Load!Complete
<1>2. /\ Len(received) \in Nat /\ Len(received) >= 3
      /\ Len(received) = 5 + 256 * received[2] + received[3]
  <2>1. Len(received) \in Nat
    OBVIOUS
  <2>2. ~(Len(received) < 3)
    <3> DEFINE n == Len(received)
    <3>1. n < 3 => n = 5
      BY <1>1, Zenon DEF Load!WriteLength
    <3>2. n \in Nat
      BY <2>1
    <3> HIDE DEF n
    <3>3. ~(n < 3)
      BY <3>1, <3>2
    <3> QED
      BY <3>3 DEF n
  <2>3. Len(received) = 5 + 256 * received[2] + received[3]
    BY <1>1, <2>2, Zenon DEF Load!WriteLength
  <2> QED
    BY <2>1, <2>2, <2>3
<1>3. received[2] \in Load!uint8 /\ received[3] \in Load!uint8
  BY <1>2
<1>4. received[2] \in Nat /\ received[3] \in Nat
  BY <1>3, Octet
<1>5. Len(received) >= 5
  BY <1>2, <1>4
<1> DEFINE data == SubSeq(received, 5, Len(received) - 1)
<1>6. data \in Seq(Load!uint8) /\ Len(data) = Len(received) - 5
  BY <1>2, <1>5
<1> HIDE DEF data
<1>7. ~Load!Overrun => Len(data) <= Load!BuffSize
  <2>1. Load!BuffSize \in Nat
    BY LoadConstants
  <2> QED
    BY <1>1, <1>2, <1>6, <2>1, Codes DEF Load!Overrun
<1> QED
  BY <1>5, <1>6, <1>7 DEF data, Load!Data

LEMMA SixteenBits ==
  ASSUME NEW n \in Nat
  PROVE  n % 65536 \in Load!uint16
<1>1. (n % 65536) \in Nat
  OBVIOUS
<1>2. (n % 65536) < 65536
  OBVIOUS
<1> QED
  BY <1>1, <1>2, Widths

LEMMA WriteBlockKeepsTypes ==
  ASSUME LoadTypes, Load!WriteBlock
  PROVE  LoadTypes'
<1> DEFINE data == Load!Data(received)
<1>1. /\ received \in Seq(Load!uint8) /\ Load!Complete(received)
      /\ received[1] = 100 /\ ~Load!Overrun
  BY Codes DEF LoadTypes, LineTypes, Load!WriteBlock
<1>2. /\ data \in Seq(Load!uint8) /\ Len(data) \in Nat
      /\ Len(data) <= Load!BuffSize
  BY <1>1, DataAreThere
<1> HIDE DEF data
<1>3. /\ address \in Load!uint16 /\ address \in Nat /\ extflash \in BOOLEAN
      /\ buff \in [0 .. Load!BuffSize - 1 -> Load!uint8]
      /\ flash \in [Load!FlashByte -> Load!uint8]
      /\ eeprom \in [Load!EepromByte -> Load!uint8]
      /\ Load!BuffSize \in Nat
  BY Widths, LoadConstants DEF LoadTypes, MemoryTypes
<1>4. Load!Filled(data) \in [0 .. Load!BuffSize - 1 -> Load!uint8]
  <2>1. \A i \in 0 .. Load!BuffSize - 1 :
          i < Len(data) => data[i + 1] \in Load!uint8
    BY <1>2, <1>3
  <2> QED
    BY <1>3, <2>1 DEF Load!Filled
<1>5. buff' \in [0 .. Load!BuffSize - 1 -> Load!uint8]
  BY <1>4 DEF Load!WriteBlock, data
<1>6. Load!EepromWritten(data) \in [Load!EepromByte -> Load!uint8]
  <2>1. ASSUME NEW a \in Load!EepromByte, (a - address) % 65536 < Len(data)
        PROVE  data[((a - address) % 65536) + 1] \in Load!uint8
    <3>1. a \in Int
      BY EepromAddress
    <3>2. (a - address) % 65536 \in Nat
      BY <1>3, <3>1
    <3> QED
      BY <1>2, <2>1, <3>2
  <2> QED
    BY <1>3, <2>1 DEF Load!EepromWritten
<1>7. Load!Programmed(data) \in [Load!FlashByte -> Load!uint8]
  <2>1. Load!Rounded(Len(data)) <= Load!BuffSize
    BY <1>2, RoundedFits
  <2>2. Load!Rounded(Len(data)) \in Nat /\ Load!FlashAt(address) \in Nat
    BY <1>2, <1>3, FlashAddress DEF Load!Rounded
  <2>3. ASSUME NEW a \in Load!FlashByte,
               a - Load!FlashAt(address) \in 0 .. Load!Rounded(Len(data)) - 1
        PROVE  Load!Filled(data)[a - Load!FlashAt(address)] \in Load!uint8
    BY <1>3, <1>4, <2>1, <2>2, <2>3
  <2>4. Load!Erased \in Load!uint8
    BY Octet DEF Load!Erased
  <2> QED
    BY <1>3, <2>3, <2>4 DEF Load!Programmed
<1>8. address' \in Load!uint16
  <2>1. address + Len(data) \in Nat /\ 2 * address \in Nat
    BY <1>2, <1>3
  <2>2. /\ (address + Len(data)) % 65536 \in Load!uint16
        /\ (2 * address) % 65536 \in Load!uint16
    BY <2>1, SixteenBits
  <2>3. address' \in {address, (address + Len(data)) % 65536,
                      (2 * address) % 65536}
    BY DEF Load!WriteBlock, Load!Doubled, data
  <2> QED
    BY <1>3, <2>2, <2>3
<1>9. flash' \in [Load!FlashByte -> Load!uint8]
  BY <1>3, <1>7 DEF Load!WriteBlock, data
<1>10. eeprom' \in [Load!EepromByte -> Load!uint8]
  BY <1>3, <1>6 DEF Load!WriteBlock, data
<1>11. extflash' \in BOOLEAN
  BY <1>3 DEF Load!WriteBlock, Load!ExtFlash
<1>12. MemoryTypes'
  BY <1>5, <1>8, <1>9, <1>10, <1>11 DEF MemoryTypes
<1> QED
  BY <1>12, TakenKeepsTypes DEF Load!WriteBlock

LEMMA ReadBlockKeepsTypes ==
  ASSUME LoadTypes, Load!ReadBlock
  PROVE  LoadTypes'
<1>1. /\ received \in Seq(Load!uint8) /\ Load!Complete(received)
      /\ received[1] = 116 /\ address \in Nat
  BY Codes, Widths DEF LoadTypes, LineTypes, MemoryTypes, Load!ReadBlock
<1>2. Len(received) = 5
  BY <1>1, Lengths DEF Load!Complete
<1>3. received[2] \in Load!uint8 /\ received[3] \in Load!uint8
  BY <1>1, <1>2, ElementsAreBytes
<1>4. received[2] \in Nat /\ received[3] \in Nat
  BY <1>3, Octet
<1>5. address' \in Load!uint16
  <2> DEFINE n == 256 * received[2] + received[3]
             first == IF received[4] = Load!EEPROM THEN address
                      ELSE Load!Doubled(address)
             more == IF Load!Terminated(received) THEN n ELSE 0
  <2>1. n \in Nat /\ first \in Nat
    BY <1>1, <1>4 DEF Load!Doubled
  <2>2. address' = (first + more) % 65536
    BY DEF Load!ReadBlock
  <2> HIDE DEF n, first
  <2>3. more \in Nat
    BY <2>1
  <2> HIDE DEF more
  <2>4. first + more \in Nat
    BY <2>1, <2>3
  <2>5. (first + more) % 65536 \in Load!uint16
    BY <2>4, SixteenBits
  <2> QED
    BY <2>2, <2>5
<1>6. MemoryTypes'
  BY <1>5 DEF LoadTypes, MemoryTypes, Load!ReadBlock
<1> QED
  BY <1>6, TakenKeepsTypes DEF Load!ReadBlock

LEMMA SendKeepsTypes ==
  ASSUME LoadTypes, NEW c \in HostCommands, Load!Send(c),
         at' \in Page \cup {-1}, UNCHANGED believed
  PROVE  LoadTypes'
<1>1. c \in Seq(Load!uint8)
  BY CommandsAreWhole DEF Whole
<1>2. loadLine' \in Seq(Load!uint8)
  <2>1. ASSUME NEW i \in DOMAIN c
        PROVE  Load!Without(c, i) \in Seq(Load!uint8)
    <3>1. i \in 1 .. Len(c) /\ Len(c) \in Nat
      BY <1>1
    <3>2. SubSeq(c, 1, i - 1) \in Seq(Load!uint8)
      BY <1>1, <3>1
    <3>3. SubSeq(c, i + 1, Len(c)) \in Seq(Load!uint8)
      BY <1>1, <3>1
    <3> QED
      BY <3>2, <3>3, ConcatProperties DEF Load!Without
  <2> QED
    BY <1>1, <2>1 DEF Load!Send
<1>3. LineTypes'
  BY <1>2 DEF LoadTypes, LineTypes, Load!Send, Load!loaderVars
<1>4. MemoryTypes'
  BY DEF LoadTypes, MemoryTypes, Load!Send, Load!loaderVars
<1>5. loadLost' \in Nat
  BY DEF LoadTypes, HostTypes, Load!Send
<1>6. HostTypes'
  BY <1>5 DEF LoadTypes, HostTypes
<1> QED
  BY <1>3, <1>4, <1>6 DEF LoadTypes

LEMMA HostSendsKeepsTypes ==
  ASSUME LoadTypes, Load!HostSends
  PROVE  LoadTypes'
<1>1. ASSUME NEW c \in Load!Greetings, Load!Send(c),
             UNCHANGED <<at, believed, used>>
      PROVE  LoadTypes'
  <2>1. c \in HostCommands /\ at' \in Page \cup {-1}
    BY <1>1 DEF HostCommands, LoadTypes, HostTypes
  <2> QED
    BY <1>1, <2>1, SendKeepsTypes
<1>2. ASSUME NEW p \in Page, Load!Send(Load!AddressOf(p)), at' = p,
             UNCHANGED <<believed, used>>
      PROVE  LoadTypes'
  <2>1. Load!AddressOf(p) \in HostCommands
    BY DEF HostCommands, Addresses
  <2> QED
    BY <1>2, <2>1, SendKeepsTypes
<1>3. ASSUME NEW b \in Block, NEW type \in Memories,
             Load!Send(Load!WriteOf(b, type)), UNCHANGED <<at, believed>>
      PROVE  LoadTypes'
  <2>1. Load!WriteOf(b, type) \in HostCommands /\ at' \in Page \cup {-1}
    BY <1>3 DEF HostCommands, Writes, LoadTypes, HostTypes
  <2> QED
    BY <1>3, <2>1, SendKeepsTypes
<1>4. ASSUME NEW type \in Memories \ {Load!EXTERNAL},
             Load!Send(Load!ReadOf(Load!BuffSize, type)),
             UNCHANGED <<at, believed, used>>
      PROVE  LoadTypes'
  <2>1. /\ Load!ReadOf(Load!BuffSize, type) \in HostCommands
        /\ at' \in Page \cup {-1}
    BY <1>4 DEF HostCommands, Reads, LoadTypes, HostTypes
  <2> QED
    BY <1>4, <2>1, SendKeepsTypes
<1> QED
  BY <1>1, <1>2, <1>3, <1>4 DEF Load!HostSends

LEMMA HostTimesOutKeepsTypes ==
  ASSUME LoadTypes, Load!HostTimesOut
  PROVE  LoadTypes'
<1>1. <<Load!STK_SYNC, Load!SPACE>> \in HostCommands
  BY DEF HostCommands, Load!Greetings
<1>2. /\ Load!Send(<<Load!STK_SYNC, Load!SPACE>>)
      /\ at' = -1 /\ UNCHANGED <<believed, used>>
  BY DEF Load!HostTimesOut
<1> QED
  BY <1>1, <1>2, SendKeepsTypes

LEMMA BelievedAfterTypes ==
  ASSUME LoadTypes, loadSent # <<>>
  PROVE  Load!BelievedAfter \in [flash : [Load!FlashByte -> Known],
                                 eeprom : [Load!EepromByte -> Known]]
<1> DEFINE b == Load!Data(loadSent)
<1>1. CASE loadSent[1] # Load!STK_WRITE \/ loadSent[4] = Load!EXTERNAL
  BY <1>1 DEF Load!BelievedAfter, LoadTypes, HostTypes
<1>2. CASE loadSent[1] = Load!STK_WRITE /\ loadSent[4] # Load!EXTERNAL
  <2>1. b \in Seq(Load!uint8)
    BY <1>2, SentBlock, LoadConstants DEF LoadTypes, LineTypes
  <2>2. believed \in [flash : [Load!FlashByte -> Known],
                      eeprom : [Load!EepromByte -> Known]] /\ at \in Int
    BY PageAddress DEF LoadTypes, HostTypes
  <2> HIDE DEF b
  <2>3. CASE loadSent[4] = Load!EEPROM
    <3> DEFINE f == [a \in Load!EepromByte |->
                       IF (a - at) % 65536 < Len(b)
                       THEN b[((a - at) % 65536) + 1] ELSE believed.eeprom[a]]
    <3>1. f \in [Load!EepromByte -> Known]
      <4>1. ASSUME NEW a \in Load!EepromByte, (a - at) % 65536 < Len(b)
            PROVE  b[((a - at) % 65536) + 1] \in Load!uint8
        <5>1. a \in Int
          BY EepromAddress
        <5>2. (a - at) % 65536 \in Nat
          BY <2>2, <5>1
        <5> QED
          BY <2>1, <4>1, <5>2
      <4> QED
        BY <2>2, <4>1 DEF Known
    <3>2. Load!BelievedAfter = [believed EXCEPT !.eeprom = f]
      BY <1>2, <2>3 DEF Load!BelievedAfter, b
    <3> HIDE DEF f
    <3> QED
      BY <2>2, <3>1, <3>2
  <2>4. CASE loadSent[4] # Load!EEPROM
    <3> DEFINE f == [a \in Load!FlashByte |->
                       IF a - 2 * at \in 0 .. Len(b) - 1
                       THEN b[a - 2 * at + 1]
                       ELSE IF a - 2 * at \in 0 .. Load!BuffSize - 1 THEN -1
                       ELSE believed.flash[a]]
    <3>1. f \in [Load!FlashByte -> Known]
      <4>1. ASSUME NEW a \in Load!FlashByte, a - 2 * at \in 0 .. Len(b) - 1
            PROVE  b[a - 2 * at + 1] \in Load!uint8
        BY <2>1, <4>1
      <4> QED
        BY <2>2, <4>1 DEF Known
    <3>2. Load!BelievedAfter = [believed EXCEPT !.flash = f]
      BY <1>2, <2>4 DEF Load!BelievedAfter, b
    <3> HIDE DEF f
    <3> QED
      BY <2>2, <3>1, <3>2
  <2> QED
    BY <2>3, <2>4
<1> QED
  BY <1>1, <1>2

LEMMA HostReadsKeepsTypes ==
  ASSUME LoadTypes, Load!HostReads
  PROVE  LoadTypes'
<1>1. LineTypes'
  BY DEF LoadTypes, LineTypes, Load!HostReads, Load!loaderVars
<1>2. MemoryTypes'
  BY DEF LoadTypes, MemoryTypes, Load!HostReads, Load!loaderVars
<1>3. believed' \in [flash : [Load!FlashByte -> Known],
                     eeprom : [Load!EepromByte -> Known]]
  BY BelievedAfterTypes DEF Load!HostReads
<1>4. HostTypes'
  BY <1>3 DEF LoadTypes, HostTypes, Load!HostReads
<1> QED
  BY <1>1, <1>2, <1>4 DEF LoadTypes

LEMMA LoadNextKeepsTypes ==
  ASSUME LoadTypes, [Load!BootNext]_(Load!bootVars)
  PROVE  LoadTypes'
<1>1. ASSUME Load!AppBoot PROVE LoadTypes'
  BY <1>1 DEF LoadTypes, LineTypes, MemoryTypes, HostTypes, Load!AppBoot,
              Load!hostVars
<1>2. ASSUME UNCHANGED Load!bootVars PROVE LoadTypes'
  BY <1>2 DEF LoadTypes, LineTypes, MemoryTypes, HostTypes, Load!bootVars,
              Load!loaderVars, Load!hostVars
<1> QED
  BY <1>1, <1>2, ReceiveKeepsTypes, OtherCommandKeepsTypes,
     SetAddressKeepsTypes, WriteBlockKeepsTypes, ReadBlockKeepsTypes,
     HostSendsKeepsTypes, HostReadsKeepsTypes, HostTimesOutKeepsTypes
     DEF Load!BootNext, Load!Loader

LEMMA LoadSteps ==
  ASSUME [Next]_vars
  PROVE  /\ part' = part
         /\ part = "loader" => [Load!BootNext]_(Load!bootVars)
         /\ part # "loader" => UNCHANGED Load!bootVars
  BY DEF Next, vars, loadVars, Load!bootVars, Load!loaderVars, Load!hostVars

LEMMA LoadTypeInvariant == Spec => [](part = "loader" => LoadTypes)
<1>1. Init => (part = "loader" => LoadTypes)
  BY LoadInitTypes DEF Init
<1>2. (part = "loader" => LoadTypes) /\ [Next]_vars
        => (part = "loader" => LoadTypes)'
  BY LoadSteps, LoadNextKeepsTypes
<1> QED
  BY <1>1, <1>2, PTL DEF Spec

LEMMA TypesOfLoader ==
  ASSUME LoadTypes
  PROVE  Load!BootTypeOK
  BY DEF LoadTypes, LineTypes, MemoryTypes, HostTypes, Known, Load!BootTypeOK

\* The loader keeps within its buffer, its memories and the width of its
\* address, also when bytes of a command or a block are lost and the next
\* command is taken for the rest of it (hboot.c).
THEOREM LoaderStaysInBounds == Spec => [](part = "loader" => Load!BootTypeOK)
  BY LoadTypeInvariant, TypesOfLoader, PTL

-----------------------------------------------------------------------------
(* Blocks: what the programmer and the loader have said to each other *)

\* Nothing is under way; the first k bytes of a command have arrived; it has
\* been answered.
Quiet ==
  loadSent = <<>> /\ received = <<>> /\ loadLine = <<>> /\ loadAnswer = <<>>

Arriving(k) ==
  /\ loadSent # <<>> /\ loadAnswer = <<>> /\ k \in 0 .. Len(loadSent)
  /\ received = SubSeq(loadSent, 1, k)
  /\ loadLine = SubSeq(loadSent, k + 1, Len(loadSent))

Answered ==
  loadSent # <<>> /\ received = <<>> /\ loadLine = <<>> /\ loadAnswer # <<>>

LoadTalk == Quiet \/ Answered \/ \E k \in 0 .. Len(loadSent) : Arriving(k)

\* The loader is at the page the programmer has set its address to, but while
\* the address is on its way and after a block, when it will be set again.
LoadAt ==
  /\ at # -1 => \/ address = at
                \/ loadSent # <<>> /\ loadSent[1] = 85 /\ loadAnswer = <<>>
                \/ loadSent[1] \in {100, 116} /\ Answered
  /\ loadSent # <<>> =>
       /\ loadSent[1] \in {85, 100, 116} => at # -1
       /\ loadSent[1] = 85 => loadSent = Load!AddressOf(at)
       /\ loadSent[1] = 100 => loadSent[4] \in used

Agrees(known) ==
  /\ \A a \in Load!EepromByte : known.eeprom[a] \in {-1, eeprom[a]}
  /\ Load!EXTERNAL \notin used =>
       \A a \in Load!FlashByte : known.flash[a] \in {-1, flash[a]}

LoadMemory ==
  /\ extflash => Load!EXTERNAL \in used
  /\ IF Answered THEN Agrees(Load!BelievedAfter) ELSE Agrees(believed)

LoadInv == clean /\ LoadTalk /\ LoadAt /\ LoadMemory

LEMMA LoadUnchanged ==
  ASSUME LoadInv,
         UNCHANGED <<loadSent, received, loadLine, loadAnswer, at, address,
                     used, believed, extflash, eeprom, flash, clean>>
  PROVE  LoadInv'
<1>1. LoadTalk'
  BY DEF LoadInv, LoadTalk, Quiet, Answered, Arriving
<1>2. Answered' <=> Answered
  BY DEF Answered
<1>3. LoadAt'
  BY <1>2 DEF LoadInv, LoadAt
<1>4. Load!BelievedAfter' = Load!BelievedAfter
  BY DEF Load!BelievedAfter
<1>5. LoadMemory'
  BY <1>2, <1>4 DEF LoadInv, LoadMemory, Agrees
<1> QED
  BY <1>1, <1>3, <1>5 DEF LoadInv

LEMMA LoadInitInv ==
  ASSUME Load!BootInit
  PROVE  LoadInv
<1> USE DEF Load!BootInit
<1>1. LoadTalk
  BY DEF LoadTalk, Quiet
<1>2. LoadAt
  BY DEF LoadAt
<1>3. LoadMemory
  BY DEF LoadMemory, Answered, Agrees
<1> QED
  BY <1>1, <1>2, <1>3 DEF LoadInv

LEMMA ReceiveKeeps ==
  ASSUME LoadTypes, LoadInv, Load!Receive
  PROVE  LoadInv'
<1>1. UNCHANGED <<loadSent, loadAnswer, clean, at, address, used, believed,
                  extflash, eeprom, flash>>
  BY DEF Load!Receive, Load!hostVars
<1>2. loadLine # <<>>
  BY DEF Load!Receive
<1>3. PICK k \in 0 .. Len(loadSent) : Arriving(k)
  BY <1>2 DEF LoadInv, LoadTalk, Quiet, Answered
<1>4. loadSent \in Seq(Load!uint8) /\ Len(loadSent) \in Nat
  BY <1>3, CommandsAreWhole DEF LoadTypes, LineTypes, Arriving, Whole
<1>5. k + 1 \in 1 .. Len(loadSent)
  <2>1. CASE k = Len(loadSent)
    BY <1>2, <1>3, <1>4, <2>1, SubSeqEmpty DEF Arriving
  <2> QED
    BY <1>4, <2>1
<1>6. /\ received' = Append(received, Head(loadLine))
      /\ loadLine' = Tail(loadLine)
  BY DEF Load!Receive
<1>7. /\ Head(loadLine) = loadSent[k + 1]
      /\ Tail(loadLine) = SubSeq(loadSent, k + 1 + 1, Len(loadSent))
  <2>1. Len(loadSent) \in k + 1 .. Len(loadSent)
    BY <1>4, <1>5
  <2> QED
    BY <1>3, <1>4, <1>5, <2>1, HeadTailOfSubSeq DEF Arriving
<1>8. Append(received, loadSent[k + 1]) = SubSeq(loadSent, 1, k + 1)
  <2>1. received = SubSeq(loadSent, 1, (k + 1) - 1)
    BY <1>3 DEF Arriving
  <2> QED
    BY <1>4, <1>5, <2>1, BeginningGrows
<1>9. Arriving(k + 1)'
  BY <1>1, <1>3, <1>5, <1>6, <1>7, <1>8 DEF Arriving
<1>10. LoadTalk'
  <2>1. k + 1 \in 0 .. Len(loadSent')
    BY <1>1, <1>4, <1>5
  <2>2. \E j \in 0 .. Len(loadSent') : Arriving(j)'
    BY <1>9, <2>1
  <2> QED
    BY <2>2 DEF LoadTalk
<1>11. ~Answered /\ ~Answered'
  BY <1>1, <1>3, <1>9 DEF Arriving, Answered
<1>12. LoadAt'
  BY <1>1, <1>11 DEF LoadInv, LoadAt
<1>13. LoadMemory'
  BY <1>1, <1>11 DEF LoadInv, LoadMemory, Agrees
<1> QED
  BY <1>1, <1>10, <1>12, <1>13 DEF LoadInv

\* A command is complete when all of it has arrived, and so it is terminated.
LEMMA CompleteIsSent ==
  ASSUME LoadTypes, LoadInv, loadSent # <<>>, loadAnswer = <<>>
  PROVE  /\ Load!Complete(received) => received = loadSent /\ loadLine = <<>>
         /\ loadLine = <<>> => Load!Complete(received)
<1>1. PICK k \in 0 .. Len(loadSent) : Arriving(k)
  BY DEF LoadInv, LoadTalk, Quiet, Answered
<1>2. loadSent \in HostCommands
  BY DEF LoadTypes, LineTypes
<1>3. /\ Whole(loadSent) /\ loadSent \in Seq(Load!uint8)
      /\ Len(loadSent) \in Nat /\ Len(loadSent) > 1
  BY <1>2, CommandsAreWhole DEF Whole
<1>4. /\ received \in Seq(Load!uint8) /\ Len(received) = k
      /\ \A i \in 1 .. k : received[i] = loadSent[i]
  BY <1>1, <1>3, Beginning DEF Arriving
<1>5. k = 0 => ~Load!Complete(received)
  BY <1>4 DEF Load!Complete
<1>6. k # 0 => (Load!Complete(received) <=> k = Len(loadSent))
  <2>1. k # 0 => k \in 1 .. Len(loadSent)
    BY <1>3
  <2> QED
    BY <1>3, <1>4, <2>1, CompleteWhenWhole
<1>7. k = Len(loadSent) => received = loadSent /\ loadLine = <<>>
  BY <1>1, <1>3, SubSeqEmpty, WholeBeginning DEF Arriving
<1>8. loadLine = <<>> => k = Len(loadSent)
  <2>1. k < Len(loadSent) => Len(loadLine) > 0
    BY <1>1, <1>3 DEF Arriving
  <2> QED
    BY <1>3, <2>1
<1> QED
  BY <1>3, <1>5, <1>6, <1>7, <1>8

\* What the loader knows when it takes a command.
LEMMA Taken ==
  ASSUME LoadTypes, LoadInv, Load!Complete(received)
  PROVE  /\ loadSent \in HostCommands /\ loadSent # <<>> /\ ~Answered
         /\ received = loadSent /\ loadLine = <<>> /\ loadAnswer = <<>>
         /\ Len(received) > 1 /\ Load!Terminated(received)
<1>1. received # <<>>
  BY DEF Load!Complete
<1>2. loadSent # <<>> /\ loadAnswer = <<>>
  BY <1>1 DEF LoadInv, LoadTalk, Quiet, Answered, Arriving
<1>3. received = loadSent /\ loadLine = <<>>
  BY <1>2, CompleteIsSent
<1>4. loadSent \in HostCommands
  BY <1>2 DEF LoadTypes, LineTypes
<1>5. Len(received) > 1 /\ received[Len(received)] = 32
  BY <1>3, <1>4, CommandsAreWhole DEF Whole
<1> QED
  BY <1>1, <1>2, <1>3, <1>4, <1>5, Codes DEF Load!Terminated, Answered

LEMMA AnswerIsSomething ==
  ASSUME NEW data \in Seq(Load!uint8), Load!Terminated(received),
         Load!Answer(data)
  PROVE  loadAnswer' # <<>>
<1>1. Load!INSYNC \in Load!uint8 /\ Load!OK \in Load!uint8
  BY Octet DEF Load!INSYNC, Load!OK
<1> DEFINE f == <<Load!INSYNC>>
           g == <<Load!OK>>
<1>2. /\ f \in Seq(Load!uint8) /\ g \in Seq(Load!uint8)
      /\ Len(f) = 1 /\ Len(g) = 1
  BY <1>1
<1>3. loadAnswer' = f \o data \o g
  BY DEF Load!Answer
<1> HIDE DEF f, g
<1>4. /\ f \in Seq(Load!uint8) /\ data \in Seq(Load!uint8)
      /\ g \in Seq(Load!uint8)
  BY <1>2
<1> DEFINE d == f \o data \o g
<1>5. d \in Seq(Load!uint8) /\ Len(d) = Len(f) + Len(data) + Len(g)
  BY <1>4, Between
<1>6. loadAnswer' = d
  BY <1>3
<1> HIDE DEF d
<1> QED
  BY <1>2, <1>5, <1>6

\* A command has been answered: what it has done remains to be looked at.
LEMMA AnsweredKeeps ==
  ASSUME LoadTypes, LoadInv, Load!Complete(received),
         received' = <<>>, loadAnswer' # <<>>,
         UNCHANGED <<loadLine, Load!hostVars>>,
         loadSent[1] \notin {100, 116} => (at # -1 => address' = at),
         extflash' => Load!EXTERNAL \in used,
         Agrees(Load!BelievedAfter)'
  PROVE  LoadInv'
<1>1. UNCHANGED <<loadSent, clean, at, used, believed>>
  BY DEF Load!hostVars
<1>2. loadSent # <<>> /\ loadLine = <<>> /\ loadAnswer = <<>>
  BY Taken
<1>3. Answered'
  BY <1>1, <1>2 DEF Answered
<1>4. LoadTalk'
  BY <1>3 DEF LoadTalk
<1>5. LoadAt'
  BY <1>1, <1>3 DEF LoadInv, LoadAt
<1>6. LoadMemory'
  BY <1>1, <1>3 DEF LoadMemory
<1> QED
  BY <1>1, <1>4, <1>5, <1>6 DEF LoadInv

LEMMA OtherCommandKeeps ==
  ASSUME LoadTypes, LoadInv, Load!OtherCommand
  PROVE  LoadInv'
<1>1. /\ loadSent # <<>> /\ ~Answered /\ received = loadSent
      /\ Len(received) > 1 /\ Load!Terminated(received)
      /\ Load!Complete(received) /\ loadSent[1] \notin {85, 100, 116}
  BY Taken, Codes DEF Load!OtherCommand
<1>2. loadAnswer' # <<>>
  <2>1. Load!Answer(<<>>)
    <3>1. Len(received) # 1
      <4>1. Len(received) \in Nat /\ Len(received) > 1
        BY <1>1 DEF LoadTypes, LineTypes
      <4> QED
        BY <4>1
    <3> QED
      BY <3>1, Zenon DEF Load!OtherCommand
  <2>2. <<>> \in Seq(Load!uint8)
    OBVIOUS
  <2> QED
    BY <1>1, <2>1, <2>2, AnswerIsSomething, Zenon
<1>3. at # -1 => address' = at
  BY <1>1 DEF LoadInv, LoadAt, Load!OtherCommand
<1>4. UNCHANGED <<loadSent, at, used, believed, flash, eeprom, extflash>>
  BY DEF Load!OtherCommand, Load!hostVars
<1>5. Load!BelievedAfter' = believed
  BY <1>1, <1>4, Codes DEF Load!BelievedAfter
<1>6. Agrees(Load!BelievedAfter)'
  BY <1>1, <1>4, <1>5 DEF LoadInv, LoadMemory, Agrees
<1> QED
  BY <1>1, <1>2, <1>3, <1>4, <1>6, AnsweredKeeps
     DEF LoadInv, LoadMemory, Load!OtherCommand

LEMMA SetAddressKeeps ==
  ASSUME LoadTypes, LoadInv, Load!SetAddress
  PROVE  LoadInv'
<1>1. /\ loadSent # <<>> /\ ~Answered /\ received = loadSent
      /\ Load!Terminated(received)
      /\ Load!Complete(received) /\ loadSent[1] = 85
  BY Taken, Codes DEF Load!SetAddress
<1>2. loadAnswer' # <<>>
  <2>1. Load!Answer(<<>>)
    BY DEF Load!SetAddress
  <2>2. <<>> \in Seq(Load!uint8)
    OBVIOUS
  <2> QED
    BY <1>1, <2>1, <2>2, AnswerIsSomething, Zenon
<1>3. address' = at
  <2>1. at \in Page /\ loadSent = Load!AddressOf(at)
    BY <1>1 DEF LoadInv, LoadAt, LoadTypes, HostTypes
  <2>2. loadSent[2] + 256 * loadSent[3] = at
    BY <2>1, AddressesAreWhole
  <2> QED
    BY <1>1, <2>2 DEF Load!SetAddress
<1>4. UNCHANGED <<loadSent, at, used, believed, flash, eeprom, extflash>>
  BY DEF Load!SetAddress, Load!hostVars
<1>5. Load!BelievedAfter' = believed
  BY <1>1, <1>4, Codes DEF Load!BelievedAfter
<1>6. Agrees(Load!BelievedAfter)'
  BY <1>1, <1>4, <1>5 DEF LoadInv, LoadMemory, Agrees
<1> QED
  BY <1>1, <1>2, <1>3, <1>4, <1>6, AnsweredKeeps
     DEF LoadInv, LoadMemory, Load!SetAddress

LEMMA ReadBytesAreBytes ==
  ASSUME LoadTypes, NEW n \in Nat
  PROVE  Load!ReadBytes(n) \in Seq(Load!uint8)
<1>1. Load!Erased \in Load!uint8
  BY Octet DEF Load!Erased
<1>2. /\ \A a \in Load!EepromByte : eeprom[a] \in Load!uint8
      /\ \A a \in Load!FlashByte : flash[a] \in Load!uint8
  BY DEF LoadTypes, MemoryTypes
<1>3. Load!ReadBytes(n) \in [1 .. n -> Load!uint8]
  BY <1>1, <1>2 DEF Load!ReadBytes
<1> QED
  BY <1>3

LEMMA ReadBlockKeeps ==
  ASSUME LoadTypes, LoadInv, Load!ReadBlock
  PROVE  LoadInv'
<1>1. /\ loadSent # <<>> /\ ~Answered /\ received = loadSent
      /\ Load!Terminated(received)
      /\ Load!Complete(received) /\ loadSent[1] = 116
  BY Taken, Codes DEF Load!ReadBlock
<1>2. loadAnswer' # <<>>
  <2> DEFINE n == 256 * received[2] + received[3]
  <2>1. n \in Nat
    <3>1. received \in Seq(Load!uint8) /\ Len(received) = 5
      BY <1>1, Lengths DEF LoadTypes, LineTypes, Load!Complete
    <3>2. received[2] \in Load!uint8 /\ received[3] \in Load!uint8
      BY <3>1, ElementsAreBytes
    <3>3. received[2] \in Nat /\ received[3] \in Nat
      BY <3>2, Octet
    <3> QED
      BY <3>3
  <2>2. Load!Answer(Load!ReadBytes(n))
    BY <1>1 DEF Load!ReadBlock
  <2> HIDE DEF n
  <2>3. Load!ReadBytes(n) \in Seq(Load!uint8)
    BY <2>1, ReadBytesAreBytes
  <2> QED
    BY <1>1, <2>2, <2>3, AnswerIsSomething
<1>4. UNCHANGED <<loadSent, at, used, believed, flash, eeprom, extflash>>
  BY DEF Load!ReadBlock, Load!hostVars
<1>5. Load!BelievedAfter' = believed
  BY <1>1, <1>4, Codes DEF Load!BelievedAfter
<1>6. Agrees(Load!BelievedAfter)'
  BY <1>1, <1>4, <1>5 DEF LoadInv, LoadMemory, Agrees
<1>7. received' = <<>> /\ UNCHANGED <<loadLine, Load!hostVars>>
  BY DEF Load!ReadBlock
<1>8. extflash' => Load!EXTERNAL \in used
  BY <1>4 DEF LoadInv, LoadMemory
<1> QED
  BY <1>1, <1>2, <1>6, <1>7, <1>8, AnsweredKeeps

\* A block programmed where the programmer has set the address to: its bytes
\* are in the page, and no other page has changed.
LEMMA ProgrammedAgrees ==
  ASSUME LoadTypes, at \in Page, address = at, NEW b \in Block,
         NEW a \in Load!FlashByte, NEW known \in {-1, flash[a]}
  PROVE  (IF a - 2 * at \in 0 .. Len(b) - 1 THEN b[a - 2 * at + 1]
          ELSE IF a - 2 * at \in 0 .. Load!BuffSize - 1 THEN -1 ELSE known)
            \in {-1, Load!Programmed(b)[a]}
<1>1. /\ Load!FlashAt(address) = 2 * at /\ at \in Nat
      /\ a \in Nat /\ Len(b) \in Nat
      /\ Len(b) <= Load!BuffSize /\ Load!BuffSize \in Nat
      /\ Load!Rounded(Len(b)) \in Nat /\ Len(b) <= Load!Rounded(Len(b))
      /\ Load!Rounded(Len(b)) <= Load!BuffSize
  <2>1. address \in Load!uint16 /\ at \in Nat
    BY PageAddress DEF LoadTypes, MemoryTypes
  <2>2. /\ Len(b) \in Nat /\ Len(b) <= Load!BuffSize
        /\ Load!BuffSize \in Nat
    BY LoadConstants
  <2> QED
    BY <2>1, <2>2, FlashAddress, FlashByteAddress, RoundedFits
<1> DEFINE r == a - 2 * at
           n == Load!Rounded(Len(b))
<1>2. Load!Programmed(b)[a] =
        IF r \in 0 .. n - 1 THEN Load!Filled(b)[r]
        ELSE IF a \div Load!BuffSize = (2 * at) \div Load!BuffSize
        THEN Load!Erased ELSE flash[a]
  BY <1>1 DEF Load!Programmed
<1>3. r \in 0 .. Load!BuffSize - 1
        <=> a \div Load!BuffSize = (2 * at) \div Load!BuffSize
  BY <1>1, OtherPage
<1>4. r \in Int /\ n \in Nat
  BY <1>1
<1>5. CASE r \in 0 .. Len(b) - 1
  <2>1. r \in 0 .. n - 1 /\ r \in 0 .. Load!BuffSize - 1 /\ r < Len(b)
    BY <1>1, <1>4, <1>5
  <2>2. Load!Filled(b)[r] = b[r + 1]
    BY <2>1 DEF Load!Filled
  <2> QED
    BY <1>2, <1>5, <2>1, <2>2
<1>6. CASE r \notin 0 .. Len(b) - 1 /\ r \in 0 .. Load!BuffSize - 1
  BY <1>6
<1>7. CASE r \notin 0 .. Load!BuffSize - 1
  <2>1. r \notin 0 .. n - 1 /\ r \notin 0 .. Len(b) - 1
    BY <1>1, <1>4, <1>7
  <2> HIDE DEF r, n
  <2>2. Load!Programmed(b)[a] = flash[a]
    BY <1>2, <1>3, <1>7, <2>1
  <2> QED
    BY <1>7, <2>1, <2>2 DEF r
<1> QED
  BY <1>5, <1>6, <1>7

LEMMA WriteBlockKeeps ==
  ASSUME LoadTypes, LoadInv, Load!WriteBlock
  PROVE  LoadInv'
<1>1. /\ loadSent # <<>> /\ ~Answered /\ received = loadSent
      /\ Load!Terminated(received) /\ loadSent \in HostCommands
      /\ Load!Complete(received) /\ loadSent[1] = 100 /\ loadAnswer = <<>>
  BY Taken, Codes DEF Load!WriteBlock
<1>2. loadAnswer' # <<>>
  <2>1. Load!Answer(<<>>)
    BY DEF Load!WriteBlock
  <2>2. <<>> \in Seq(Load!uint8)
    OBVIOUS
  <2> QED
    BY <1>1, <2>1, <2>2, AnswerIsSomething, Zenon
<1>3. at \in Page /\ address = at /\ loadSent[4] \in used
  BY <1>1 DEF LoadInv, LoadAt, LoadTypes, HostTypes
<1>4. PICK b \in Block, type \in Memories :
        loadSent[4] = type /\ Load!Data(loadSent) = b
  BY <1>1, SentBlock, Codes
<1>5. /\ received' = <<>>
      /\ UNCHANGED <<loadLine, Load!hostVars, loadSent, at, used, believed>>
  BY DEF Load!WriteBlock, Load!hostVars
<1>6. extflash' => Load!EXTERNAL \in used
  <2>1. extflash' = (extflash \/ received[4] = Load!EXTERNAL)
    BY DEF Load!WriteBlock, Load!ExtFlash
  <2> QED
    BY <1>1, <1>3, <2>1 DEF LoadInv, LoadMemory
<1>7. eeprom' = IF type = Load!EEPROM THEN Load!EepromWritten(b) ELSE eeprom
  BY <1>1, <1>4 DEF Load!WriteBlock
<1>8. Load!EXTERNAL \notin used =>
        flash' = IF type # Load!EEPROM THEN Load!Programmed(b) ELSE flash
  BY <1>1, <1>3, <1>4 DEF Load!WriteBlock, Load!ExtFlash, LoadInv, LoadMemory
<1>9. Agrees(believed)
  BY <1>1 DEF LoadInv, LoadMemory
<1>10. Load!BelievedAfter' =
         IF type = Load!EXTERNAL THEN believed
         ELSE IF type = Load!EEPROM
         THEN [believed EXCEPT !.eeprom =
                 [a \in Load!EepromByte |->
                    IF (a - at) % 65536 < Len(b)
                    THEN b[((a - at) % 65536) + 1] ELSE @[a]]]
         ELSE [believed EXCEPT !.flash =
                 [a \in Load!FlashByte |->
                    IF a - 2 * at \in 0 .. Len(b) - 1
                    THEN b[a - 2 * at + 1]
                    ELSE IF a - 2 * at \in 0 .. Load!BuffSize - 1 THEN -1
                    ELSE @[a]]]
  BY <1>1, <1>4, <1>5, Codes DEF Load!BelievedAfter
<1>11. believed \in [flash : [Load!FlashByte -> Known],
                     eeprom : [Load!EepromByte -> Known]]
  BY DEF LoadTypes, HostTypes
<1>12. Agrees(Load!BelievedAfter)'
  <2>1. CASE type = Load!EXTERNAL
    BY <1>3, <1>4, <1>5, <1>7, <1>9, <1>10, <2>1, Codes DEF Agrees
  <2>2. CASE type = Load!EEPROM
    <3> DEFINE f == [a \in Load!EepromByte |->
                       IF (a - at) % 65536 < Len(b)
                       THEN b[((a - at) % 65536) + 1] ELSE believed.eeprom[a]]
    <3>1. Load!BelievedAfter' = [believed EXCEPT !.eeprom = f]
      BY <1>10, <2>2, Codes
    <3>2. \A a \in Load!EepromByte : f[a] \in {-1, eeprom'[a]}
      <4>1. eeprom' = Load!EepromWritten(b)
        BY <1>7, <2>2
      <4> QED
        BY <1>3, <1>9, <4>1 DEF Agrees, Load!EepromWritten
    <3>3. Load!EXTERNAL \notin used => flash' = flash
      BY <1>8, <2>2
    <3> HIDE DEF f
    <3>4. /\ Load!BelievedAfter'.eeprom = f
          /\ Load!BelievedAfter'.flash = believed.flash
      BY <1>11, <3>1
    <3> QED
      BY <1>5, <1>9, <3>2, <3>3, <3>4 DEF Agrees
  <2>3. CASE type # Load!EEPROM /\ type # Load!EXTERNAL
    <3> DEFINE f == [a \in Load!FlashByte |->
                       IF a - 2 * at \in 0 .. Len(b) - 1
                       THEN b[a - 2 * at + 1]
                       ELSE IF a - 2 * at \in 0 .. Load!BuffSize - 1 THEN -1
                       ELSE believed.flash[a]]
    <3>1. Load!BelievedAfter' = [believed EXCEPT !.flash = f]
      BY <1>10, <2>3
    <3>2. Load!EXTERNAL \notin used =>
            \A a \in Load!FlashByte : f[a] \in {-1, flash'[a]}
      <4> SUFFICES ASSUME Load!EXTERNAL \notin used,
                          NEW a \in Load!FlashByte
                   PROVE  f[a] \in {-1, flash'[a]}
        OBVIOUS
      <4>1. flash' = Load!Programmed(b)
        BY <1>8, <2>3
      <4>2. believed.flash[a] \in {-1, flash[a]}
        BY <1>9 DEF Agrees
      <4>3. f[a] \in {-1, Load!Programmed(b)[a]}
        BY <1>3, <4>2, ProgrammedAgrees
      <4> QED
        BY <4>1, <4>3
    <3>3. eeprom' = eeprom
      BY <1>7, <2>3
    <3> HIDE DEF f
    <3>4. /\ Load!BelievedAfter'.flash = f
          /\ Load!BelievedAfter'.eeprom = believed.eeprom
      BY <1>11, <3>1
    <3> QED
      BY <1>5, <1>9, <3>2, <3>3, <3>4 DEF Agrees
  <2> QED
    BY <2>1, <2>2, <2>3
<1> QED
  BY <1>1, <1>2, <1>5, <1>6, <1>12, AnsweredKeeps

-----------------------------------------------------------------------------
(* The programmer *)

\* A command goes out, and arrives whole if nothing was lost.
LEMMA SendKeeps ==
  ASSUME LoadTypes, LoadInv, loadSent = <<>>, NEW c \in HostCommands,
         Load!Send(c), loadLost = 0, loadLost' = 0, UNCHANGED believed,
         used \subseteq used',
         c[1] \in {100, 116} => at # -1 /\ at' = at,
         c[1] = 85 => at' # -1 /\ c = Load!AddressOf(at'),
         c[1] \notin {85, 100, 116} => at' = at,
         c[1] = 100 => c[4] \in used'
  PROVE  LoadInv'
<1>1. /\ loadLine' = c /\ loadSent' = c
      /\ UNCHANGED <<clean, received, address, extflash, flash, eeprom,
                     loadAnswer>>
  BY DEF Load!Send, Load!loaderVars
<1>2. Whole(c) /\ c \in Seq(Load!uint8) /\ Len(c) \in Nat /\ Len(c) > 1
  BY CommandsAreWhole DEF Whole
<1>3. c # <<>>
  BY <1>2
<1>4. Quiet
  BY DEF LoadInv, LoadTalk, Answered, Arriving
<1>5. Arriving(0)'
  <2>1. <<>> = SubSeq(c, 1, 0) /\ c = SubSeq(c, 0 + 1, Len(c))
    BY <1>2, EmptyBeginning, WholeBeginning
  <2>2. 0 \in 0 .. Len(c)
    BY <1>2
  <2> QED
    BY <1>1, <1>3, <1>4, <2>1, <2>2 DEF Arriving, Quiet
<1>6. LoadTalk'
  <2>1. 0 \in 0 .. Len(loadSent')
    BY <1>1, <1>2
  <2>2. \E j \in 0 .. Len(loadSent') : Arriving(j)'
    BY <1>5, <2>1
  <2> QED
    BY <2>2 DEF LoadTalk
<1>7. ~Answered /\ ~Answered'
  BY <1>1, <1>4 DEF Quiet, Answered
<1>8. at # -1 => address = at
  BY <1>4 DEF LoadInv, LoadAt, Quiet, Answered
<1>9. LoadAt'
  <2>1. at' # -1 => address' = at' \/ (loadSent' # <<>> /\ loadSent'[1] = 85
                                       /\ loadAnswer' = <<>>)
    BY <1>1, <1>3, <1>4, <1>8 DEF Quiet
  <2>2. loadSent'[1] \in {85, 100, 116} => at' # -1
    BY <1>1
  <2> QED
    BY <1>1, <2>1, <2>2 DEF LoadAt
<1>10. LoadMemory'
  <2>1. Agrees(believed)
    BY <1>7 DEF LoadInv, LoadMemory
  <2>2. Agrees(believed)'
    BY <1>1, <2>1 DEF Agrees
  <2> QED
    BY <1>1, <1>7, <2>2 DEF LoadInv, LoadMemory
<1> QED
  BY <1>1, <1>6, <1>9, <1>10 DEF LoadInv

LEMMA HostSendsKeeps ==
  ASSUME LoadTypes, LoadInv, Load!HostSends, loadLost = 0, loadLost' = 0
  PROVE  LoadInv'
<1>1. loadSent = <<>>
  BY DEF Load!HostSends
<1>2. ASSUME NEW c \in Load!Greetings, Load!Send(c),
             UNCHANGED <<at, believed, used>>
      PROVE  LoadInv'
  <2>1. c \in HostCommands
    BY DEF HostCommands
  <2>2. c[1] \notin {85, 100, 116}
    BY GreetingsAreWhole
  <2> QED
    BY <1>1, <1>2, <2>1, <2>2, SendKeeps
<1>3. ASSUME NEW p \in Page, Load!Send(Load!AddressOf(p)), at' = p,
             UNCHANGED <<believed, used>>
      PROVE  LoadInv'
  <2>1. Load!AddressOf(p) \in HostCommands
    BY DEF HostCommands, Addresses
  <2>2. Load!AddressOf(p)[1] = 85 /\ p # -1
    BY AddressesAreWhole, PageAddress
  <2> QED
    BY <1>1, <1>3, <2>1, <2>2, SendKeeps
<1>4. ASSUME NEW b \in Block, NEW type \in Memories, at # -1,
             Load!Send(Load!WriteOf(b, type)), used' = used \cup {type},
             UNCHANGED <<at, believed>>
      PROVE  LoadInv'
  <2>1. Load!WriteOf(b, type) \in HostCommands
    BY DEF HostCommands, Writes
  <2>2. Load!WriteOf(b, type)[1] = 100 /\ Load!WriteOf(b, type)[4] = type
    BY WritesAreWhole
  <2> QED
    BY <1>1, <1>4, <2>1, <2>2, SendKeeps
<1>5. ASSUME NEW type \in Memories \ {Load!EXTERNAL}, at # -1,
             Load!Send(Load!ReadOf(Load!BuffSize, type)),
             UNCHANGED <<at, believed, used>>
      PROVE  LoadInv'
  <2>1. Load!ReadOf(Load!BuffSize, type) \in HostCommands
    BY DEF HostCommands, Reads
  <2>2. Load!ReadOf(Load!BuffSize, type)[1] = 116
    BY ReadsAreWhole
  <2> QED
    BY <1>1, <1>5, <2>1, <2>2, SendKeeps
<1> QED
  BY <1>2, <1>3, <1>4, <1>5 DEF Load!HostSends

LEMMA HostReadsKeeps ==
  ASSUME LoadTypes, LoadInv, Load!HostReads
  PROVE  LoadInv'
<1>1. Answered
  BY DEF Load!HostReads, LoadInv, LoadTalk, Quiet, Arriving
<1>2. /\ loadAnswer' = <<>> /\ loadSent' = <<>> /\ clean' = TRUE
      /\ believed' = Load!BelievedAfter
      /\ at' = IF loadSent[1] \in {100, 116} THEN -1 ELSE at
      /\ UNCHANGED <<received, loadLine, address, extflash, flash, eeprom,
                     used>>
  BY Codes DEF Load!HostReads, Load!loaderVars
<1>3. Quiet' /\ ~Answered'
  BY <1>1, <1>2 DEF Quiet, Answered
<1>4. LoadTalk'
  BY <1>3 DEF LoadTalk
<1>5. LoadAt'
  BY <1>1, <1>2 DEF LoadInv, LoadAt, Answered
<1>6. LoadMemory'
  <2>1. Agrees(Load!BelievedAfter)
    BY <1>1 DEF LoadInv, LoadMemory
  <2>2. Agrees(believed)'
    BY <1>2, <2>1 DEF Agrees
  <2> QED
    BY <1>2, <1>3, <2>2 DEF LoadInv, LoadMemory
<1> QED
  BY <1>2, <1>4, <1>5, <1>6 DEF LoadInv

\* It does not wait in vain.
LEMMA NoTimeout ==
  ASSUME LoadTypes, LoadInv
  PROVE  ~Load!HostTimesOut
  BY CompleteIsSent DEF Load!HostTimesOut

-----------------------------------------------------------------------------

\* While nothing is lost the programmer never waits in vain, and each step keeps
\* what is known of the line and of the memories.
LEMMA LoadNextKeeps ==
  ASSUME LoadTypes, LoadInv, [Load!BootNext]_(Load!bootVars),
         loadLost = 0, loadLost' = 0
  PROVE  LoadInv'
<1>1. ASSUME Load!AppBoot PROVE LoadInv'
  BY <1>1, LoadUnchanged DEF Load!AppBoot, Load!hostVars
<1>2. ASSUME UNCHANGED Load!bootVars PROVE LoadInv'
  BY <1>2, LoadUnchanged DEF Load!bootVars, Load!loaderVars, Load!hostVars
<1> QED
  BY <1>1, <1>2, ReceiveKeeps, OtherCommandKeeps, SetAddressKeeps,
     WriteBlockKeeps, ReadBlockKeeps, HostSendsKeeps, HostReadsKeeps, NoTimeout
     DEF Load!BootNext, Load!Loader

\* Bytes that are lost stay lost.
LEMMA LossesStay ==
  ASSUME LoadTypes, [Load!BootNext]_(Load!bootVars), loadLost' = 0
  PROVE  loadLost = 0
<1>1. ASSUME NEW c, Load!Send(c) PROVE loadLost = 0
  BY <1>1 DEF Load!Send, LoadTypes, HostTypes
<1>2. ASSUME Load!HostSends \/ Load!HostTimesOut PROVE loadLost = 0
  BY <1>1, <1>2 DEF Load!HostSends, Load!HostTimesOut
<1>3. ASSUME Load!HostReads PROVE loadLost = 0
  BY <1>3 DEF Load!HostReads
<1>4. ASSUME Load!AppBoot \/ Load!Loader PROVE loadLost = 0
  BY <1>4 DEF Load!AppBoot, Load!Loader, Load!Receive, Load!OtherCommand,
              Load!SetAddress, Load!WriteBlock, Load!ReadBlock, Load!hostVars
<1>5. ASSUME UNCHANGED Load!bootVars PROVE loadLost = 0
  BY <1>5 DEF Load!bootVars, Load!hostVars
<1> QED
  BY <1>2, <1>3, <1>4, <1>5 DEF Load!BootNext

LoadSafe == loadLost = 0 => LoadInv

LEMMA LoadInvariant == Spec => [](part = "loader" => LoadTypes /\ LoadSafe)
<1> DEFINE Typed == part = "loader" => LoadTypes
           Safe == part = "loader" => LoadSafe
<1>1. Init => Safe
  BY LoadInitInv DEF Init, LoadSafe
<1>2. Typed /\ Safe /\ [Next]_vars => Safe'
  BY LoadSteps, LoadNextKeeps, LossesStay DEF LoadSafe
<1>3. Typed /\ Safe => (part = "loader" => LoadTypes /\ LoadSafe)
  OBVIOUS
<1>4. Spec => []Typed
  BY LoadTypeInvariant
<1> HIDE DEF Typed, Safe
<1> QED
  BY <1>1, <1>2, <1>3, <1>4, PTL DEF Spec

LEMMA LoadInvProtects ==
  ASSUME LoadInv
  PROVE  Load!BlocksArrive /\ Load!InStep
<1>1. Load!BlocksArrive
  BY DEF LoadInv, LoadMemory, Answered, Agrees, Load!BlocksArrive
<1>2. Load!InStep
  <2> SUFFICES ASSUME received # <<>>
               PROVE  /\ Len(received) <= Len(loadSent)
                      /\ received = SubSeq(loadSent, 1, Len(received))
                      /\ loadLine = SubSeq(loadSent, Len(received) + 1,
                                           Len(loadSent))
    BY DEF Load!InStep
  <2>1. PICK k \in 0 .. Len(loadSent) : Arriving(k)
    BY DEF LoadInv, LoadTalk, Quiet, Answered
  <2> QED
    BY <2>1 DEF Arriving
<1> QED
  BY <1>1, <1>2

\* As long as no byte is lost on the line, every block that was acknowledged is
\* in the memory asked for, memory changes by whole blocks only, and the loader
\* takes every command for complete at its last byte and not before: whatever
\* the bytes of the blocks, the size of a page and the order of the commands
\* (hboot.c).
THEOREM BlocksAllArrive == Spec /\ [](loadLost = 0) => BlocksArrive
<1> DEFINE Safe == part = "loader" => LoadTypes /\ LoadSafe
           Guarded == flash' # flash \/ eeprom' # eeprom
                         => /\ clean /\ received = loadSent
                            /\ received[1] = Load!STK_WRITE
<1>1. Safe /\ loadLost = 0
        => (part = "loader" => Load!BlocksArrive /\ Load!InStep)
  BY LoadInvProtects DEF LoadSafe
<1>2. Safe /\ loadLost = 0 /\ [Next]_vars => [Guarded]_(Load!bootVars)
  <2> SUFFICES ASSUME Safe, loadLost = 0, [Next]_vars,
                      Load!bootVars' # Load!bootVars,
                      flash' # flash \/ eeprom' # eeprom
               PROVE  /\ clean /\ received = loadSent
                      /\ received[1] = Load!STK_WRITE
    OBVIOUS
  <2>1. part = "loader" /\ Load!BootNext
    BY LoadSteps
  <2>2. LoadTypes /\ LoadInv
    BY <2>1 DEF LoadSafe
  <2>3. Load!WriteBlock
    BY <2>1 DEF Load!BootNext, Load!Loader, Load!AppBoot, Load!Receive,
         Load!OtherCommand, Load!SetAddress, Load!ReadBlock, Load!HostSends,
         Load!HostReads, Load!HostTimesOut, Load!Send, Load!loaderVars
  <2>4. Load!Complete(received) /\ received[1] = Load!STK_WRITE
    BY <2>3 DEF Load!WriteBlock
  <2> QED
    BY <2>2, <2>4, Taken DEF LoadInv
<1> HIDE DEF Safe
<1> QED
  BY <1>1, <1>2, LoadInvariant, PTL
     DEF BlocksArrive, Load!OnlyWholeBlocks, Spec, Safe
=============================================================================
