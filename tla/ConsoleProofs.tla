---------------------------- MODULE ConsoleProofs ---------------------------
(***************************************************************************)
(* Proofs about hal/uart.c, kern/panic.c and the clicks of                 *)
(* drivers/buttons.c (Console) in Drivers: for any number of threads that  *)
(* print and scan, any texts, and any order in which a user types and      *)
(* presses.                                                                *)
(***************************************************************************)
EXTENDS Drivers, SequenceTheorems, TLAPS

\* Where a thread has the lock of the UART, and where only a thread is that
\* has turned interrupts off.
Printing == {"put", "putask"}
Scanning == {"get", "got"}
Panicking == {"panic", "last words", "halted"}
FreePcs == {"idle", "print", "ask", "scan", "click", "pressed"}
ConPcs == FreePcs \cup Printing \cup Scanning \cup Panicking

\* What is sent for a character.
Group == {Con!uart_put(c) : c \in Int}

TurnTypes ==
  /\ conPc \in [ConThread -> ConPcs]
  /\ conHalter \in ConThread \cup {Nobody}
  /\ conHolder \in [{"uart"} -> ConThread \cup {Nobody}]

OutputTypes ==
  /\ putting \in [ConThread -> Seq(Int)]
  /\ \A t \in ConThread : Len(putting[t]) <= Len(ConTexts[t]) + Len(ConPanicText)
  /\ conSent \in Seq(Group) /\ expected \in Seq(Group)

InputTypes ==
  /\ keysTyped \in 0 .. Len(Keys)
  /\ fifo \in Seq(Nat) /\ Len(fifo) <= RxDepth
  /\ lastRead \in {<<>>, <<Con!Space>>}
  /\ heard \in [done : Seq(Seq(Nat)), last : Seq(Nat)]
  /\ number \in [ConThread -> Seq(Nat)] /\ numbers \in Seq(Seq(Nat))

SwitchTypes ==
  /\ down \subseteq Con!Switch /\ wanted \subseteq Con!Switch
  /\ clicks \in Nat /\ presses \in 0 .. MaxPresses

ConTypes == TurnTypes /\ OutputTypes /\ InputTypes /\ SwitchTypes

\* The lock is with the thread that prints or scans; after a panic with none
\* but the thread that panics.
Turn ==
  /\ \A t \in ConThread : conPc[t] \in Panicking <=> t = conHalter
  /\ conHalter = Nobody =>
       \A t \in ConThread :
         conPc[t] \in Printing \cup Scanning <=> conHolder["uart"] = t

\* What is expected is what was sent and what the thread that prints still
\* puts.
Prints(t) ==
  \/ conPc[t] = "last words"
  \/ conPc[t] \in Printing /\ conHalter = Nobody

Sent ==
  /\ \A t \in ConThread : Prints(t) => conSent \o Con!Wire(putting[t]) = expected
  /\ (\A t \in ConThread : ~Prints(t)) => conSent = expected
  /\ \A t \in ConThread : conPc[t] \in {"last words", "halted"} =>
       Con!IsSuffix(Con!Wire(ConPanicText), expected)

\* The digits heard since the last number are those of the thread that scans.
Scanned ==
  /\ numbers = heard.done
  /\ lastRead # <<>> => heard.last = <<>>
  /\ \A t \in ConThread :
       conPc[t] = "get" /\ conHalter = Nobody => number[t] = heard.last
  /\ conHalter = Nobody /\ (\A t \in ConThread : conPc[t] # "get")
       => heard.last = <<>>

Weight(switches) ==
  (IF "go" \in switches THEN 1 ELSE 0) + (IF "stop" \in switches THEN 1 ELSE 0)

\* Each contact that is closed, but for those of the click under way, is of a
\* press that was not taken for a click.
Clicked ==
  /\ \A t \in ConThread :
       conPc[t] \in {"ask", "putask", "click", "pressed"} => t = Clicker
  /\ IF conPc[Clicker] = "pressed"
     THEN clicks + 1 + Weight(down \ wanted) <= presses
     ELSE clicks + Weight(down) <= presses

ConInv == ConTypes /\ Turn /\ Sent /\ Scanned /\ Clicked

LEMMA ConConstants ==
  /\ Nobody \notin ConThread
  /\ ConTexts \in [ConThread -> Seq(Int)] /\ ConPanicText \in Seq(Int)
  /\ Keys \in Seq(Nat) /\ RxDepth \in Nat \ {0}
  /\ Clicker \in ConThread /\ MaxPresses \in Nat
  BY DriversAssumption
     DEF DriversAssumption, Con!NobodyAssumption, Con!ConsoleAssumption

LEMMA WireTypes ==
  ASSUME NEW text \in Seq(Int)
  PROVE  /\ Con!Wire(text) \in Seq(Group) /\ Len(Con!Wire(text)) = Len(text)
         /\ \A i \in 1 .. Len(text) : Con!Wire(text)[i] = Con!uart_put(text[i])
<1>1. \A i \in 1 .. Len(text) : Con!uart_put(text[i]) \in Group
  BY ElementOfSeq DEF Group
<1>2. Len(text) \in Nat
  BY LenProperties
<1> HIDE DEF Group
<1>3. Con!Wire(text) \in [1 .. Len(text) -> Group]
  BY <1>1 DEF Con!Wire
<1>4. Con!Wire(text) \in Seq(Group) /\ Len(Con!Wire(text)) = Len(text)
  BY <1>2, <1>3, SMTT(40)
<1> QED
  BY <1>4 DEF Con!Wire

\* A character that is put goes from what is to be sent to what was.
LEMMA PutEffect ==
  ASSUME NEW text \in Seq(Int), text # <<>>, NEW done \in Seq(Group)
  PROVE  Append(done, Con!uart_put(Head(text))) \o Con!Wire(Tail(text))
           = done \o Con!Wire(text)
<1> DEFINE first == Con!uart_put(Head(text))
           rest == Con!Wire(Tail(text))
           all == Con!Wire(text)
<1>1. /\ Head(text) = text[1] /\ Len(text) \in Nat /\ Len(text) >= 1
      /\ Tail(text) \in Seq(Int) /\ Len(Tail(text)) = Len(text) - 1
      /\ \A i \in 1 .. Len(text) - 1 : Tail(text)[i] = text[i + 1]
  OBVIOUS
<1>2. /\ rest \in Seq(Group) /\ Len(rest) = Len(text) - 1
      /\ \A i \in 1 .. Len(text) - 1 : rest[i] = Con!uart_put(Tail(text)[i])
  BY <1>1, WireTypes, Zenon
<1>3. /\ all \in Seq(Group) /\ Len(all) = Len(text)
      /\ \A i \in 1 .. Len(text) : all[i] = Con!uart_put(text[i])
  BY WireTypes
<1>4. first = all[1] /\ \A i \in 1 .. Len(rest) : rest[i] = all[i + 1]
  BY <1>1, <1>2, <1>3
<1>5. first \in Group
  BY <1>1, <1>3, <1>4, ElementOfSeq
<1> HIDE DEF first, rest, all, Group
<1>6. rest = Tail(all) /\ first = Head(all) /\ all # <<>>
  <2>1. /\ all # <<>> /\ Head(all) = all[1] /\ Tail(all) \in Seq(Group)
        /\ Len(Tail(all)) = Len(all) - 1
        /\ \A i \in 1 .. Len(all) - 1 : Tail(all)[i] = all[i + 1]
    BY <1>1, <1>3
  <2> QED
    BY <1>1, <1>2, <1>3, <1>4, <2>1, SeqEqual, Zenon
<1>7. Append(done, first) \o rest = done \o all
  <2>1. /\ Append(done, first) \in Seq(Group)
        /\ Len(Append(done, first)) = Len(done) + 1
        /\ \A i \in 1 .. Len(done) : Append(done, first)[i] = done[i]
        /\ Append(done, first)[Len(done) + 1] = first
    BY <1>5
  <2> DEFINE more == Append(done, first)
             l == more \o rest
             r == done \o all
  <2>2. /\ Len(done) \in Nat /\ Len(rest) \in Nat /\ Len(all) = Len(rest) + 1
    BY <1>1, <1>2, <1>3
  <2> HIDE DEF more
  <2>3. /\ l \in Seq(Group) /\ Len(l) = Len(more) + Len(rest)
        /\ \A i \in 1 .. Len(more) + Len(rest) :
             l[i] = IF i <= Len(more) THEN more[i] ELSE rest[i - Len(more)]
    BY <1>2, <2>1, ConcatProperties, Zenon DEF more
  <2>4. /\ r \in Seq(Group) /\ Len(r) = Len(done) + Len(all)
        /\ \A i \in 1 .. Len(done) + Len(all) :
             r[i] = IF i <= Len(done) THEN done[i] ELSE all[i - Len(done)]
    BY <1>3, ConcatProperties, ZenonT(40)
  <2>5. /\ Len(more) = Len(done) + 1 /\ more[Len(done) + 1] = all[1]
        /\ \A i \in 1 .. Len(done) : more[i] = done[i]
    BY <1>4, <2>1 DEF more
  <2> HIDE DEF l, r
  <2>6. ASSUME NEW i \in 1 .. Len(l) PROVE l[i] = r[i]
    <3>1. i \in 1 .. Len(done) + 1 + Len(rest)
      BY <2>2, <2>3, <2>5
    <3>2. CASE i <= Len(done)
      <4>1. l[i] = more[i] /\ r[i] = done[i] /\ i \in 1 .. Len(done)
        BY <2>2, <2>3, <2>4, <2>5, <3>1, <3>2
      <4> QED
        BY <2>5, <4>1
    <3>3. CASE i = Len(done) + 1
      BY <2>2, <2>3, <2>4, <2>5, <3>1, <3>3
    <3>4. CASE i > Len(done) + 1
      <4>1. /\ i - Len(more) \in 1 .. Len(rest)
            /\ (i - Len(more)) + 1 = i - Len(done)
        BY <2>2, <2>5, <3>1, <3>4
      <4>2. i \in 1 .. Len(more) + Len(rest) /\ ~(i <= Len(more))
        BY <2>2, <2>5, <3>1, <3>4
      <4>3. i \in 1 .. Len(done) + Len(all) /\ ~(i <= Len(done))
        BY <2>2, <3>1, <3>4
      <4>4. l[i] = rest[i - Len(more)]
        BY <2>3, <4>2, Zenon
      <4>5. r[i] = all[i - Len(done)]
        BY <2>4, <4>3, Zenon
      <4>6. rest[i - Len(more)] = all[(i - Len(more)) + 1]
        BY <1>4, <4>1, Zenon
      <4> QED
        BY <4>1, <4>4, <4>5, <4>6, Zenon
    <3> QED
      BY <2>2, <3>1, <3>2, <3>3, <3>4
  <2>7. Len(l) = Len(r)
    BY <2>2, <2>3, <2>4, <2>5
  <2>8. l = r
    BY <2>3, <2>4, <2>6, <2>7, SeqEqual, Zenon
  <2> QED
    BY <2>8 DEF l, r, more
<1> QED
  BY <1>7, Zenon DEF first, rest, all

LEMMA WireEmpty ==
  ASSUME NEW done \in Seq(Group)
  PROVE  done \o Con!Wire(<<>>) = done
<1>1. Con!Wire(<<>>) = <<>>
  BY DEF Con!Wire
<1> HIDE DEF Group
<1> QED
  BY <1>1, ConcatEmptySeq

\* A beginning and an end of what is sent.
LEMMA Ends ==
  ASSUME NEW done \in Seq(Group), NEW rest \in Seq(Group)
  PROVE  Con!IsPrefix(done, done \o rest) /\ Con!IsSuffix(rest, done \o rest)
<1> HIDE DEF Group
<1> DEFINE all == done \o rest
<1>1. /\ all \in Seq(Group) /\ Len(all) = Len(done) + Len(rest)
      /\ \A i \in 1 .. Len(done) : all[i] = done[i]
      /\ \A i \in 1 .. Len(rest) : all[Len(done) + i] = rest[i]
      /\ Len(done) \in Nat /\ Len(rest) \in Nat
  OBVIOUS
<1> HIDE DEF all
<1>2. ASSUME NEW s \in Seq(Group), NEW u \in Seq(Group), Len(s) <= Len(u),
             \A i \in 1 .. Len(s) : s[i] = u[i]
      PROVE  Con!IsPrefix(s, u)
  <2>1. /\ SubSeq(s, 1, Len(s)) \in Seq(Group)
        /\ Len(SubSeq(s, 1, Len(s))) = Len(s)
        /\ \A i \in 1 .. Len(s) : SubSeq(s, 1, Len(s))[i] = s[i]
    OBVIOUS
  <2>2. /\ SubSeq(u, 1, Len(s)) \in Seq(Group)
        /\ Len(SubSeq(u, 1, Len(s))) = Len(s)
        /\ \A i \in 1 .. Len(s) : SubSeq(u, 1, Len(s))[i] = u[i]
    BY <1>2
  <2> DEFINE b == SubSeq(s, 1, Len(s))
             c == SubSeq(u, 1, Len(s))
  <2>3. /\ b \in Seq(Group) /\ c \in Seq(Group) /\ Len(b) = Len(c)
        /\ \A i \in 1 .. Len(b) : b[i] = c[i]
    BY <1>2, <2>1, <2>2
  <2> HIDE DEF b, c
  <2>4. b = c
    BY <2>3, SeqEqual
  <2> QED
    BY <1>2, <2>4 DEF Con!IsPrefix, b, c
<1>3. Con!IsPrefix(done, all)
  <2>1. /\ done \in Seq(Group) /\ all \in Seq(Group) /\ Len(done) <= Len(all)
        /\ \A i \in 1 .. Len(done) : done[i] = all[i]
    BY <1>1
  <2> QED
    BY <1>2, <2>1
<1>4. ASSUME NEW s \in Seq(Group)
      PROVE  /\ Con!Reverse(s) \in Seq(Group) /\ Len(Con!Reverse(s)) = Len(s)
             /\ \A i \in 1 .. Len(s) : Con!Reverse(s)[i] = s[(Len(s) - i) + 1]
  <2>1. \A i \in 1 .. Len(s) : s[(Len(s) - i) + 1] \in Group
    OBVIOUS
  <2>2. Con!Reverse(s) \in [1 .. Len(s) -> Group]
    BY <2>1 DEF Con!Reverse
  <2>3. Len(s) \in Nat
    OBVIOUS
  <2>4. Con!Reverse(s) \in Seq(Group) /\ Len(Con!Reverse(s)) = Len(s)
    BY <2>2, <2>3, SMTT(40)
  <2> QED
    BY <2>4 DEF Con!Reverse
<1>5. \A i \in 1 .. Len(rest) : Con!Reverse(rest)[i] = Con!Reverse(all)[i]
  <2>1. ASSUME NEW i \in 1 .. Len(rest) PROVE Con!Reverse(rest)[i] = Con!Reverse(all)[i]
    <3>1. /\ (Len(rest) - i) + 1 \in 1 .. Len(rest)
          /\ (Len(all) - i) + 1 = Len(done) + ((Len(rest) - i) + 1)
          /\ i \in 1 .. Len(all)
      BY <1>1
    <3>2. Con!Reverse(rest)[i] = rest[(Len(rest) - i) + 1]
      BY <1>4
    <3>3. Con!Reverse(all)[i] = all[(Len(all) - i) + 1]
      BY <1>1, <1>4, <3>1, Zenon
    <3> QED
      BY <1>1, <3>1, <3>2, <3>3
  <2> QED
    BY <2>1
<1>6. Con!IsPrefix(Con!Reverse(rest), Con!Reverse(all))
  <2>1. Con!Reverse(rest) \in Seq(Group) /\ Len(Con!Reverse(rest)) = Len(rest)
    BY <1>4
  <2>2. Con!Reverse(all) \in Seq(Group) /\ Len(Con!Reverse(all)) = Len(all)
    BY <1>1, <1>4
  <2> DEFINE b == Con!Reverse(rest)
             c == Con!Reverse(all)
  <2>3. /\ b \in Seq(Group) /\ c \in Seq(Group) /\ Len(b) <= Len(c)
        /\ \A i \in 1 .. Len(b) : b[i] = c[i]
    BY <1>1, <1>5, <2>1, <2>2
  <2> HIDE DEF b, c
  <2>4. Con!IsPrefix(b, c)
    BY <1>2, <2>3
  <2> QED
    BY <2>4 DEF b, c
<1> QED
  BY <1>3, <1>6 DEF all, Con!IsSuffix

LEMMA ConInit ==
  ASSUME Con!ConsoleInit, conHalter = Nobody,
         conHolder = [l \in {"uart"} |-> Nobody],
         conPc = [t \in ConThread |-> "idle"]
  PROVE  ConInv
<1> USE ConConstants DEF Con!ConsoleInit, Con!NothingHeard
<1>1. TurnTypes
  BY DEF TurnTypes, ConPcs, FreePcs
<1>2. OutputTypes
  <2>1. \A t \in ConThread : Len(ConTexts[t]) \in Nat
    BY LenProperties
  <2>2. Len(ConPanicText) \in Nat
    BY LenProperties
  <2>3. putting \in [ConThread -> Seq(Int)]
    OBVIOUS
  <2>4. \A t \in ConThread :
          Len(putting[t]) <= Len(ConTexts[t]) + Len(ConPanicText)
    BY <2>1, <2>2
  <2> QED
    BY <2>3, <2>4 DEF OutputTypes
<1>3. InputTypes
  <2>1. Len(Keys) \in Nat
    BY LenProperties
  <2> QED
    BY <2>1 DEF InputTypes
<1>4. SwitchTypes
  BY DEF SwitchTypes, Con!Switch
<1>5. Turn
  BY DEF Turn, Panicking, Printing, Scanning
<1>6. Sent
  BY DEF Sent, Prints, Printing
<1>7. Scanned
  BY DEF Scanned
<1>8. Clicked
  BY DEF Clicked, Weight
<1> QED
  BY <1>1, <1>2, <1>3, <1>4, <1>5, <1>6, <1>7, <1>8 DEF ConInv, ConTypes

\* Who runs and does not panic runs with interrupts on.
LEMMA Awake ==
  ASSUME Turn, NEW t \in ConThread, Con!Runs(t), conPc[t] \notin Panicking
  PROVE  conHalter = Nobody
  BY DEF Turn, Con!Runs

LEMMA OnePrints ==
  ASSUME Turn, NEW t \in ConThread, NEW u \in ConThread, Prints(t), Prints(u)
  PROVE  t = u
  BY ConConstants, Zenon DEF Turn, Prints, Panicking

\* With interrupts on and the lock free, all that is expected was sent, and
\* nobody scans.
LEMMA FreeMeansSent ==
  ASSUME Turn, Sent, conHalter = Nobody, conHolder["uart"] = Nobody
  PROVE  /\ conSent = expected
         /\ \A t \in ConThread : conPc[t] \notin Panicking \cup Printing \cup Scanning
<1>1. \A t \in ConThread : conPc[t] \notin Panicking \cup Printing \cup Scanning
  BY ConConstants DEF Turn
<1> QED
  BY <1>1, Zenon DEF Sent, Prints, Panicking

LEMMA SentUnchanged ==
  ASSUME Sent, UNCHANGED <<conHalter, putting, conSent, expected>>,
         \A u \in ConThread :
           /\ conPc'[u] \in Printing <=> conPc[u] \in Printing
           /\ \A p \in {"last words", "halted"} : conPc'[u] = p <=> conPc[u] = p
  PROVE  Sent'
<1>1. \A u \in ConThread : Prints(u)' <=> Prints(u)
  BY Zenon DEF Prints
<1> QED
  BY <1>1, Zenon DEF Sent

LEMMA ScannedUnchanged ==
  ASSUME Scanned, UNCHANGED <<conHalter, heard, lastRead, number, numbers>>,
         \A u \in ConThread : conPc'[u] = "get" <=> conPc[u] = "get"
  PROVE  Scanned'
  BY DEF Scanned

ClickPcs == {"ask", "putask", "click", "pressed"}

LEMMA ClickedUnchanged ==
  ASSUME Clicked, UNCHANGED <<down, wanted, presses, clicks>>,
         \A u \in ConThread :
           /\ conPc'[u] \in ClickPcs => conPc[u] \in ClickPcs
           /\ conPc'[u] = "pressed" <=> conPc[u] = "pressed"
  PROVE  Clicked'
  BY ConConstants DEF Clicked, ClickPcs, Weight

\* A thread that goes on where it has no lock leaves the lock, what is printed
\* and what is scanned alone.
LEMMA FreeMove ==
  ASSUME TurnTypes, Turn, NEW t \in ConThread, NEW to \in FreePcs,
         conPc[t] \in FreePcs, conPc' = [conPc EXCEPT ![t] = to],
         UNCHANGED <<conHalter, conHolder>>
  PROVE  /\ TurnTypes' /\ Turn'
         /\ \A u \in ConThread :
              /\ conPc'[u] \in Printing <=> conPc[u] \in Printing
              /\ \A p \in {"last words", "halted", "get"} :
                   conPc'[u] = p <=> conPc[u] = p
         /\ \A u \in ConThread \ {t} : conPc'[u] = conPc[u]
         /\ conPc'[t] = to
<1>1. conPc'[t] = to /\ \A u \in ConThread \ {t} : conPc'[u] = conPc[u]
  BY DEF TurnTypes
<1>2. TurnTypes'
  BY DEF TurnTypes, ConPcs
<1>3. \A u \in ConThread :
        /\ conPc'[u] \in Panicking <=> conPc[u] \in Panicking
        /\ conPc'[u] \in Printing <=> conPc[u] \in Printing
        /\ conPc'[u] \in Scanning <=> conPc[u] \in Scanning
        /\ \A p \in {"last words", "halted", "get"} :
             conPc'[u] = p <=> conPc[u] = p
  BY <1>1, Zenon DEF FreePcs, Panicking, Printing, Scanning
<1>4. Turn'
  BY <1>3, Zenon DEF Turn
<1> QED
  BY <1>1, <1>2, <1>3, <1>4, Zenon

LEMMA CallPrintKeeps ==
  ASSUME ConInv, NEW t \in ConThread, Con!uart_printf(t) \/ Con!waitForClick(t)
  PROVE  ConInv'
<1>1. PICK to \in {"print", "ask"} :
        /\ conPc[t] = "idle" /\ conPc' = [conPc EXCEPT ![t] = to]
        /\ to = "ask" => t = Clicker
        /\ UNCHANGED <<conHalter, conHolder, putting, conSent, expected,
                       keysTyped, fifo, lastRead, heard, number,
                       numbers, down, wanted, presses, clicks>>
  BY DEF Con!uart_printf, Con!waitForClick, Con!CallPrint, Con!Goes,
         Con!consoleVars, Con!outputVars, Con!inputVars, Con!switchVars
<1>2. /\ TurnTypes' /\ Turn'
      /\ \A u \in ConThread :
           /\ conPc'[u] \in Printing <=> conPc[u] \in Printing
           /\ \A p \in {"last words", "halted", "get"} :
                conPc'[u] = p <=> conPc[u] = p
      /\ \A u \in ConThread \ {t} : conPc'[u] = conPc[u]
      /\ conPc'[t] = to
  BY <1>1, FreeMove, Zenon DEF ConInv, ConTypes, FreePcs
<1>3. Sent'
  BY <1>1, <1>2, SentUnchanged, Zenon DEF ConInv
<1>4. Scanned'
  BY <1>1, <1>2, ScannedUnchanged, Zenon DEF ConInv
<1>5. Clicked'
  BY <1>1, <1>2, ConConstants, Zenon DEF ConInv, Clicked, Weight
<1>6. OutputTypes' /\ InputTypes' /\ SwitchTypes'
  BY <1>1 DEF ConInv, ConTypes, OutputTypes, InputTypes, SwitchTypes
<1> QED
  BY <1>2, <1>3, <1>4, <1>5, <1>6, Zenon DEF ConInv, ConTypes

LEMMA ScanfKeeps ==
  ASSUME ConInv, NEW t \in ConThread, Con!uart_scanf(t)
  PROVE  ConInv'
<1>1. /\ conPc[t] = "idle" /\ conPc' = [conPc EXCEPT ![t] = "scan"]
      /\ UNCHANGED <<conHalter, conHolder, putting, conSent, expected,
                     keysTyped, fifo, lastRead, heard, number,
                     numbers, down, wanted, presses, clicks>>
  BY DEF Con!uart_scanf, Con!Goes,
         Con!consoleVars, Con!outputVars, Con!inputVars, Con!switchVars
<1>2. /\ TurnTypes' /\ Turn'
      /\ \A u \in ConThread :
           /\ conPc'[u] \in Printing <=> conPc[u] \in Printing
           /\ \A p \in {"last words", "halted", "get"} :
                conPc'[u] = p <=> conPc[u] = p
      /\ \A u \in ConThread \ {t} : conPc'[u] = conPc[u]
      /\ conPc'[t] = "scan"
  BY <1>1, FreeMove, Zenon DEF ConInv, ConTypes, FreePcs
<1>3. Sent'
  BY <1>1, <1>2, SentUnchanged, Zenon DEF ConInv
<1>4. Scanned'
  BY <1>1, <1>2, ScannedUnchanged, Zenon DEF ConInv
<1>5. Clicked'
  BY <1>1, <1>2, ConConstants, Zenon DEF ConInv, Clicked, Weight
<1>6. OutputTypes' /\ InputTypes' /\ SwitchTypes'
  BY <1>1 DEF ConInv, ConTypes, OutputTypes, InputTypes, SwitchTypes
<1> QED
  BY <1>2, <1>3, <1>4, <1>5, <1>6, Zenon DEF ConInv, ConTypes

LEMMA EachIsWithin ==
  \A a, b \in Nat : a <= a + b /\ b <= a + b
  OBVIOUS

\* A text begins: nobody prints, and from now on one thread does.
LEMMA StartKeeps ==
  ASSUME OutputTypes, Turn', conSent = expected,
         NEW t \in ConThread, NEW text \in {ConTexts[t], ConPanicText},
         putting' = [putting EXCEPT ![t] = text],
         expected' = expected \o Con!Wire(text),
         UNCHANGED conSent, Prints(t)',
         \A u \in ConThread : conPc'[u] \in {"last words", "halted"} =>
                                text = ConPanicText
  PROVE  OutputTypes' /\ Sent'
<1>1. text \in Seq(Int)
  BY ConConstants, Zenon
<1>2. /\ Con!Wire(text) \in Seq(Group)
      /\ conSent \in Seq(Group) /\ expected \in Seq(Group)
  BY <1>1, WireTypes, Zenon DEF OutputTypes
<1>3. OutputTypes'
  <2>1. expected' \in Seq(Group)
    BY <1>2, ConcatProperties, Zenon
  <2>2. Len(text) <= Len(ConTexts[t]) + Len(ConPanicText)
    <3>1. Len(ConTexts[t]) \in Nat /\ Len(ConPanicText) \in Nat
      BY ConConstants, LenProperties, Zenon
    <3> DEFINE a == Len(ConTexts[t])
               b == Len(ConPanicText)
    <3>2. Len(text) = a \/ Len(text) = b
      <4>1. text = ConTexts[t] \/ text = ConPanicText
        BY Zenon
      <4> QED
        BY <4>1, Zenon
    <3> HIDE DEF a, b
    <3>3. a \in Nat /\ b \in Nat
      BY <3>1, Zenon DEF a, b
    <3>4. a <= a + b /\ b <= a + b
      BY <3>3, EachIsWithin, Zenon
    <3>5. Len(text) <= a + b
      BY <3>2, <3>4, Zenon
    <3> QED
      BY <3>5, Zenon DEF a, b
  <2>3. \A u \in ConThread :
          Len(putting'[u]) <= Len(ConTexts[u]) + Len(ConPanicText)
    BY <2>2, Zenon DEF OutputTypes
  <2> HIDE DEF Group
  <2> QED
    BY <1>1, <2>1, <2>3, Zenon DEF OutputTypes
<1>4. putting'[t] = text
  BY Zenon DEF OutputTypes
<1>5. \A u \in ConThread : Prints(u)' => u = t
  BY ConConstants, Zenon DEF Turn, Prints, Panicking
<1>6. Con!IsSuffix(Con!Wire(text), expected')
  BY <1>2, Ends, Zenon
<1>7. \A u \in ConThread :
        Prints(u)' => conSent' \o Con!Wire(putting'[u]) = expected'
  BY <1>4, <1>5, Zenon
<1>8. \A u \in ConThread : conPc'[u] \in {"last words", "halted"} =>
        Con!IsSuffix(Con!Wire(ConPanicText), expected')
  BY <1>6, Zenon
<1> QED
  BY <1>3, <1>7, <1>8, Zenon DEF Sent

LEMMA LockOutputKeeps ==
  ASSUME ConInv, NEW t \in ConThread, Con!LockOutput(t)
  PROVE  ConInv'
<1>1. PICK to \in Printing :
        /\ Con!Runs(t)
        /\ \/ conPc[t] = "print" /\ to = "put"
           \/ conPc[t] = "ask" /\ to = "putask"
        /\ conPc' = [conPc EXCEPT ![t] = to]
        /\ conHolder["uart"] = Nobody
        /\ conHolder' = [conHolder EXCEPT !["uart"] = t]
        /\ putting' = [putting EXCEPT ![t] = ConTexts[t]]
        /\ expected' = expected \o Con!Wire(ConTexts[t])
        /\ UNCHANGED <<conHalter, conSent, keysTyped, fifo, lastRead, heard,
                       number, numbers, down, wanted, presses,
                       clicks>>
  BY DEF Con!LockOutput, Con!StartsPrint, Con!Goes, Con!Takes, Printing,
         Con!consoleVars, Con!outputVars, Con!inputVars, Con!switchVars
<1>2. conHalter = Nobody
  BY <1>1, Awake, Zenon DEF ConInv, Panicking
<1>3. /\ conSent = expected
      /\ \A u \in ConThread :
           conPc[u] \notin Panicking \cup Printing \cup Scanning
  BY <1>1, <1>2, FreeMeansSent DEF ConInv
<1>4. /\ conPc'[t] = to /\ \A u \in ConThread \ {t} : conPc'[u] = conPc[u]
      /\ conHolder'["uart"] = t
  BY <1>1 DEF ConInv, ConTypes, TurnTypes
<1>5. TurnTypes'
  BY <1>1 DEF ConInv, ConTypes, TurnTypes, ConPcs
<1>6. Turn'
  <2>1. conHalter' = Nobody /\ Nobody \notin ConThread
    BY <1>1, <1>2, ConConstants
  <2>2. to \notin Panicking
    BY Zenon DEF Panicking, Printing
  <2> QED
    BY <1>3, <1>4, <2>1, <2>2 DEF Turn
<1>7. Prints(t)'
  BY <1>1, <1>2, <1>4, Zenon DEF Prints
<1>8. OutputTypes' /\ Sent'
  <2>1. \A u \in ConThread : conPc'[u] \notin {"last words", "halted"}
    BY <1>3, <1>4, Zenon DEF Panicking, Printing
  <2>2. OutputTypes
    BY DEF ConInv, ConTypes
  <2> QED
    BY <1>1, <1>3, <1>6, <1>7, <2>1, <2>2, StartKeeps, Zenon
<1>9. Scanned'
  <2>1. \A u \in ConThread : conPc'[u] = "get" <=> conPc[u] = "get"
    BY <1>1, <1>4 DEF Printing
  <2> QED
    BY <1>1, <2>1, ScannedUnchanged DEF ConInv
<1>10. Clicked'
  <2>1. \A u \in ConThread :
          /\ conPc'[u] \in ClickPcs => conPc[u] \in ClickPcs
          /\ conPc'[u] = "pressed" <=> conPc[u] = "pressed"
    BY <1>1, <1>4 DEF ClickPcs
  <2> QED
    BY <1>1, <2>1, ClickedUnchanged DEF ConInv
<1>11. InputTypes' /\ SwitchTypes'
  BY <1>1 DEF ConInv, ConTypes, InputTypes, SwitchTypes
<1> QED
  BY <1>5, <1>6, <1>8, <1>9, <1>10, <1>11 DEF ConInv, ConTypes

LEMMA PutCharacterKeeps ==
  ASSUME ConInv, NEW t \in ConThread, Con!PutCharacter(t)
  PROVE  ConInv'
<1>1. /\ Con!Runs(t) /\ conPc[t] \in {"put", "putask", "last words"}
      /\ putting[t] # <<>>
      /\ conSent' = Append(conSent, Con!uart_put(Head(putting[t])))
      /\ putting' = [putting EXCEPT ![t] = Tail(putting[t])]
      /\ UNCHANGED <<conHalter, conHolder, conPc, expected, keysTyped, fifo,
                     lastRead, heard, number, numbers, down, wanted,
                     presses, clicks>>
  BY Zenon DEF Con!PutCharacter,
         Con!consoleVars, Con!outputVars, Con!inputVars, Con!switchVars
<1>2. OutputTypes /\ Turn /\ Sent
  BY DEF ConInv, ConTypes
<1>3. Prints(t)
  BY <1>1, <1>2, Awake, Zenon DEF Prints, Printing, Panicking
<1>4. /\ putting[t] \in Seq(Int) /\ conSent \in Seq(Group)
      /\ putting \in [ConThread -> Seq(Int)]
  BY <1>2 DEF OutputTypes
<1>5. /\ Head(putting[t]) \in Int /\ Tail(putting[t]) \in Seq(Int)
      /\ Len(Tail(putting[t])) = Len(putting[t]) - 1 /\ Len(putting[t]) \in Nat
  BY <1>1, <1>4, HeadTailProperties, LenProperties, Zenon
<1>6. OutputTypes'
  <2>1. Con!uart_put(Head(putting[t])) \in Group
    BY <1>5 DEF Group
  <2> HIDE DEF Group
  <2>2. conSent' \in Seq(Group)
    BY <1>1, <1>4, <2>1, AppendProperties, Zenon
  <2>3. \A u \in ConThread :
          Len(putting'[u]) <= Len(ConTexts[u]) + Len(ConPanicText)
    <3>1. ASSUME NEW u \in ConThread
          PROVE  Len(putting'[u]) <= Len(ConTexts[u]) + Len(ConPanicText)
      <4>1. Len(putting[u]) <= Len(ConTexts[u]) + Len(ConPanicText)
        BY <1>2 DEF OutputTypes
      <4>2. CASE u # t
        BY <1>1, <1>4, <4>1, <4>2, Zenon
      <4>3. CASE u = t
        <5>1. Len(ConTexts[u]) \in Nat /\ Len(ConPanicText) \in Nat
          BY ConConstants, LenProperties
        <5>2. Len(putting'[u]) = Len(putting[u]) - 1
          BY <1>1, <1>4, <1>5, <4>3, Zenon
        <5> QED
          BY <1>5, <4>1, <4>3, <5>1, <5>2
      <4> QED
        BY <4>2, <4>3
    <3> QED
      BY <3>1
  <2>4. putting' \in [ConThread -> Seq(Int)]
    BY <1>1, <1>4, <1>5, Zenon
  <2> QED
    BY <1>1, <1>2, <2>2, <2>3, <2>4, Zenon DEF OutputTypes
<1>7. \A u \in ConThread : Prints(u)' <=> Prints(u)
  BY <1>1, Zenon DEF Prints
<1>8. \A u \in ConThread : Prints(u) => u = t
  BY <1>2, <1>3, OnePrints
<1>9. conSent' \o Con!Wire(putting'[t]) = expected'
  <2>1. conSent \o Con!Wire(putting[t]) = expected
    BY <1>2, <1>3, Zenon DEF Sent
  <2>2. putting'[t] = Tail(putting[t])
    BY <1>1, <1>4, Zenon
  <2> QED
    BY <1>1, <1>4, <2>1, <2>2, PutEffect, Zenon
<1>10. Sent'
  BY <1>1, <1>2, <1>3, <1>7, <1>8, <1>9, Zenon DEF Sent
<1>11. Scanned' /\ Clicked' /\ Turn'
  BY <1>1, Zenon DEF ConInv, Scanned, Clicked, Turn,
              Weight
<1>12. TurnTypes' /\ InputTypes' /\ SwitchTypes'
  BY <1>1, Zenon DEF ConInv, ConTypes, TurnTypes, InputTypes, SwitchTypes
<1> QED
  BY <1>6, <1>10, <1>11, <1>12 DEF ConInv, ConTypes

LEMMA EndPrintKeeps ==
  ASSUME ConInv, NEW t \in ConThread, Con!EndPrint(t)
  PROVE  ConInv'
<1>1. PICK to \in {"idle", "click", "halted"} :
        /\ Con!Runs(t)
        /\ \/ conPc[t] = "put" /\ to = "idle"
           \/ conPc[t] = "putask" /\ to = "click"
           \/ conPc[t] = "last words" /\ to = "halted"
        /\ conPc' = [conPc EXCEPT ![t] = to]
        /\ putting[t] = <<>>
        /\ conHolder' = [conHolder EXCEPT !["uart"] = Nobody]
        /\ wanted' = IF conPc[t] = "putask" THEN {"go"} ELSE wanted
        /\ UNCHANGED <<conHalter, putting, conSent, expected, keysTyped, fifo,
                       lastRead, heard, number, numbers, down,
                       presses, clicks>>
  BY Zenon DEF Con!EndPrint, Con!Goes, Con!Gives,
         Con!consoleVars, Con!outputVars, Con!inputVars, Con!switchVars
<1>2. TurnTypes /\ OutputTypes /\ Turn /\ Sent
  BY DEF ConInv, ConTypes
<1>3. Prints(t)
  BY <1>1, <1>2, Awake, Zenon DEF Prints, Printing, Panicking
<1>4. conSent = expected
  <2>1. conSent \o Con!Wire(<<>>) = expected
    BY <1>1, <1>2, <1>3, Zenon DEF Sent
  <2> QED
    BY <1>2, <2>1, WireEmpty, Zenon DEF OutputTypes
<1>5. /\ conPc'[t] = to /\ \A u \in ConThread \ {t} : conPc'[u] = conPc[u]
      /\ conHolder'["uart"] = Nobody
  BY <1>1, <1>2, Zenon DEF TurnTypes
<1>6. TurnTypes'
  BY <1>1, <1>2, Zenon DEF TurnTypes, ConPcs, FreePcs, Panicking
<1>7. Turn'
  <2>1. \A u \in ConThread : conPc'[u] \in Panicking <=> u = conHalter'
    BY <1>1, <1>2, <1>5, Zenon DEF Turn, Panicking
  <2>2. ASSUME conHalter' = Nobody, NEW u \in ConThread
        PROVE  conPc'[u] \notin Printing \cup Scanning
    <3>1. conPc[t] \in Printing /\ conHolder["uart"] = t
      BY <1>1, <1>2, <2>2, ConConstants, Zenon DEF Turn, Panicking, Printing
    <3>2. u # t => conPc[u] \notin Printing \cup Scanning
      BY <1>1, <1>2, <2>2, <3>1, Zenon DEF Turn
    <3> QED
      BY <1>1, <1>5, <3>2, Zenon DEF Printing, Scanning
  <2> QED
    BY <1>5, <2>1, <2>2, ConConstants DEF Turn
<1>8. \A u \in ConThread : ~Prints(u)'
  <2>1. \A u \in ConThread \ {t} : ~Prints(u)
    BY <1>2, <1>3, OnePrints
  <2> QED
    BY <1>1, <1>5, <2>1, Zenon DEF Prints, Printing
<1>9. Sent'
  <2>1. \A u \in ConThread : conPc'[u] \in {"last words", "halted"} =>
          conPc[u] \in {"last words", "halted"}
    BY <1>1, <1>5, Zenon
  <2> QED
    BY <1>1, <1>2, <1>4, <1>8, <2>1, Zenon DEF Sent
<1>10. Scanned'
  <2>1. \A u \in ConThread : conPc'[u] = "get" <=> conPc[u] = "get"
    BY <1>1, <1>5, Zenon
  <2> QED
    BY <1>1, <2>1, ScannedUnchanged, Zenon DEF ConInv
<1>11. Clicked'
  <2>1. conPc[t] = "putask" => conPc[Clicker] # "pressed"
    BY <1>1 DEF ConInv, Clicked
  <2>2. conPc'[Clicker] = "pressed" <=> conPc[Clicker] = "pressed"
    BY <1>1, <1>5, ConConstants, Zenon
  <2> QED
    BY <1>1, <1>5, <2>1, <2>2, Zenon DEF ConInv, Clicked
<1>12. OutputTypes' /\ InputTypes' /\ SwitchTypes'
  BY <1>1, Zenon DEF ConInv, ConTypes, OutputTypes, InputTypes, SwitchTypes,
                     Con!Switch
<1> QED
  BY <1>6, <1>7, <1>9, <1>10, <1>11, <1>12 DEF ConInv, ConTypes

LEMMA PanicKeeps ==
  ASSUME ConInv, NEW t \in ConThread, Con!ConsolePanic(t)
  PROVE  ConInv'
<1>1. /\ conHalter = Nobody /\ conPc[t] = "idle"
      /\ conPc' = [conPc EXCEPT ![t] = "panic"]
      /\ conHalter' = t
      /\ conHolder' = [conHolder EXCEPT !["uart"] = Nobody]
      /\ expected' = conSent
      /\ UNCHANGED <<putting, conSent, keysTyped, fifo, lastRead, heard,
                     number, numbers, down, wanted, presses, clicks>>
  BY DEF Con!ConsolePanic, Con!Goes, Con!TurnsOff, Con!Gives,
         Con!consoleVars, Con!outputVars, Con!inputVars, Con!switchVars
<1>2. TurnTypes /\ OutputTypes /\ Turn
  BY DEF ConInv, ConTypes
<1>3. conPc'[t] = "panic" /\ \A u \in ConThread \ {t} : conPc'[u] = conPc[u]
  BY <1>1, <1>2 DEF TurnTypes
<1>4. \A u \in ConThread \ {t} : conPc'[u] \notin Panicking
  BY <1>1, <1>2, <1>3, ConConstants DEF Turn
<1>5. TurnTypes'
  BY <1>1, <1>2, Zenon DEF TurnTypes, ConPcs, Panicking
<1>6. Turn'
  BY <1>1, <1>3, <1>4, ConConstants, Zenon DEF Turn, Panicking
<1>7. Sent'
  <2>1. \A u \in ConThread : ~Prints(u)' /\ conPc'[u] \notin {"last words", "halted"}
    BY <1>1, <1>3, <1>4, ConConstants, Zenon DEF Prints, Panicking
  <2> QED
    BY <1>1, <2>1, Zenon DEF Sent
<1>8. Scanned'
  BY <1>1, ConConstants DEF ConInv, Scanned
<1>9. Clicked'
  <2>1. \A u \in ConThread :
          /\ conPc'[u] \in ClickPcs => conPc[u] \in ClickPcs
          /\ conPc'[u] = "pressed" <=> conPc[u] = "pressed"
    BY <1>1, <1>3 DEF ClickPcs
  <2> QED
    BY <1>1, <2>1, ClickedUnchanged DEF ConInv
<1>10. OutputTypes' /\ InputTypes' /\ SwitchTypes'
  BY <1>1 DEF ConInv, ConTypes, OutputTypes, InputTypes, SwitchTypes
<1> QED
  BY <1>5, <1>6, <1>7, <1>8, <1>9, <1>10 DEF ConInv, ConTypes

LEMMA PanicPrintsKeeps ==
  ASSUME ConInv, NEW t \in ConThread, Con!PanicPrints(t)
  PROVE  ConInv'
<1>1. /\ conPc[t] = "panic" /\ conPc' = [conPc EXCEPT ![t] = "last words"]
      /\ conHolder' = [conHolder EXCEPT !["uart"] = t]
      /\ putting' = [putting EXCEPT ![t] = ConPanicText]
      /\ expected' = expected \o Con!Wire(ConPanicText)
      /\ UNCHANGED <<conHalter, conSent, keysTyped, fifo, lastRead, heard,
                     number, numbers, down, wanted, presses, clicks>>
  BY Zenon DEF Con!PanicPrints, Con!StartsPrint, Con!Goes, Con!Takes,
         Con!consoleVars, Con!outputVars, Con!inputVars, Con!switchVars
<1>2. TurnTypes /\ OutputTypes /\ Turn /\ Sent
  BY DEF ConInv, ConTypes
<1>3. conPc'[t] = "last words" /\ \A u \in ConThread \ {t} : conPc'[u] = conPc[u]
  BY <1>1, <1>2, Zenon DEF TurnTypes
<1>4. conHalter = t /\ \A u \in ConThread \ {t} : conPc[u] \notin Panicking
  BY <1>1, <1>2, Zenon DEF Turn, Panicking
<1>5. conSent = expected
  <2>1. \A u \in ConThread : ~Prints(u)
    BY <1>1, <1>4, ConConstants, Zenon DEF Prints, Panicking, Printing
  <2> QED
    BY <1>2, <2>1, Zenon DEF Sent
<1>6. TurnTypes'
  BY <1>1, <1>2, Zenon DEF TurnTypes, ConPcs, Panicking
<1>7. Turn'
  BY <1>1, <1>3, <1>4, ConConstants, Zenon DEF Turn, Panicking
<1>8. OutputTypes' /\ Sent'
  <2>1. Prints(t)'
    BY <1>3, Zenon DEF Prints
  <2> QED
    BY <1>1, <1>2, <1>5, <1>7, <2>1, StartKeeps, Zenon
<1>9. Scanned'
  <2>1. \A u \in ConThread : conPc'[u] = "get" <=> conPc[u] = "get"
    BY <1>1, <1>3, Zenon
  <2> QED
    BY <1>1, <2>1, ScannedUnchanged, Zenon DEF ConInv
<1>10. Clicked'
  <2>1. \A u \in ConThread :
          /\ conPc'[u] \in ClickPcs => conPc[u] \in ClickPcs
          /\ conPc'[u] = "pressed" <=> conPc[u] = "pressed"
    BY <1>1, <1>3, Zenon DEF ClickPcs
  <2> QED
    BY <1>1, <2>1, ClickedUnchanged, Zenon DEF ConInv
<1>11. InputTypes' /\ SwitchTypes'
  BY <1>1, Zenon DEF ConInv, ConTypes, InputTypes, SwitchTypes
<1> QED
  BY <1>6, <1>7, <1>8, <1>9, <1>10, <1>11 DEF ConInv, ConTypes

LEMMA TypesKeeps ==
  ASSUME ConInv, Con!Types
  PROVE  ConInv'
<1>1. /\ keysTyped < Len(Keys) /\ keysTyped' = keysTyped + 1
      /\ fifo' = IF Len(fifo) < RxDepth THEN Append(fifo, Keys[keysTyped + 1])
                 ELSE fifo
      /\ UNCHANGED <<conHalter, conHolder, conPc, putting, conSent, expected,
                     lastRead, heard, number, numbers, down, wanted,
                     presses, clicks>>
  BY DEF Con!Types,
         Con!consoleVars, Con!outputVars, Con!inputVars, Con!switchVars
<1>2. /\ keysTyped \in 0 .. Len(Keys) /\ fifo \in Seq(Nat) /\ Len(fifo) <= RxDepth
      /\ Len(Keys) \in Nat /\ RxDepth \in Nat /\ Len(fifo) \in Nat
  BY ConConstants, LenProperties DEF ConInv, ConTypes, InputTypes
<1>3. keysTyped' \in 0 .. Len(Keys) /\ Keys[keysTyped + 1] \in Nat
  <2>1. keysTyped + 1 \in 1 .. Len(Keys)
    BY <1>1, <1>2
  <2> QED
    BY <1>1, <2>1, ConConstants, ElementOfSeq
<1>4. fifo' \in Seq(Nat) /\ Len(fifo') <= RxDepth
  BY <1>1, <1>2, <1>3, AppendProperties
<1>5. InputTypes'
  BY <1>1, <1>3, <1>4 DEF ConInv, ConTypes, InputTypes
<1>6. TurnTypes' /\ OutputTypes' /\ SwitchTypes'
  BY <1>1 DEF ConInv, ConTypes, TurnTypes, OutputTypes, SwitchTypes
<1>7. Turn' /\ Sent' /\ Scanned' /\ Clicked'
  BY <1>1, Zenon DEF ConInv, Turn, Sent, Prints, Scanned, Clicked, Weight
<1> QED
  BY <1>5, <1>6, <1>7 DEF ConInv, ConTypes

LEMMA LockInputKeeps ==
  ASSUME ConInv, NEW t \in ConThread, Con!LockInput(t)
  PROVE  ConInv'
<1>1. /\ Con!Runs(t) /\ conPc[t] = "scan"
      /\ conPc' = [conPc EXCEPT ![t] = "get"]
      /\ conHolder["uart"] = Nobody
      /\ conHolder' = [conHolder EXCEPT !["uart"] = t]
      /\ number' = [number EXCEPT ![t] = <<>>]
      /\ UNCHANGED <<conHalter, putting, conSent, expected, keysTyped, fifo,
                     lastRead, heard, numbers, down, wanted, presses,
                     clicks>>
  BY DEF Con!LockInput, Con!Goes, Con!Takes,
         Con!consoleVars, Con!outputVars, Con!inputVars, Con!switchVars
<1>2. TurnTypes /\ InputTypes /\ Turn /\ Sent /\ Scanned
  BY DEF ConInv, ConTypes
<1>3. conHalter = Nobody
  BY <1>1, <1>2, Awake, Zenon DEF Panicking
<1>4. \A u \in ConThread : conPc[u] \notin Panicking \cup Printing \cup Scanning
  BY <1>1, <1>2, <1>3, FreeMeansSent
<1>5. /\ conPc'[t] = "get" /\ \A u \in ConThread \ {t} : conPc'[u] = conPc[u]
      /\ conHolder'["uart"] = t
  BY <1>1, <1>2 DEF TurnTypes
<1>6. TurnTypes'
  BY <1>1, <1>2 DEF TurnTypes, ConPcs, Scanning
<1>7. Turn'
  <2>1. conHalter' = Nobody /\ Nobody \notin ConThread
    BY <1>1, <1>3, ConConstants
  <2>2. "get" \notin Panicking /\ "get" \in Scanning
    BY DEF Panicking, Scanning
  <2> QED
    BY <1>4, <1>5, <2>1, <2>2 DEF Turn
<1>8. Sent'
  <2>1. \A u \in ConThread :
          /\ conPc'[u] \in Printing <=> conPc[u] \in Printing
          /\ \A p \in {"last words", "halted"} : conPc'[u] = p <=> conPc[u] = p
    BY <1>1, <1>5, Zenon DEF Printing
  <2> QED
    BY <1>1, <1>2, <2>1, SentUnchanged, Zenon
<1>9. Scanned'
  <2>1. heard.last = <<>>
    BY <1>2, <1>3, <1>4 DEF Scanned, Scanning
  <2>2. \A u \in ConThread \ {t} : conPc'[u] # "get"
    BY <1>4, <1>5 DEF Scanning
  <2>3. number'[t] = <<>>
    BY <1>1, <1>2 DEF InputTypes
  <2> QED
    BY <1>1, <1>2, <1>5, <2>1, <2>2, <2>3 DEF Scanned
<1>10. Clicked'
  <2>1. \A u \in ConThread :
          /\ conPc'[u] \in ClickPcs => conPc[u] \in ClickPcs
          /\ conPc'[u] = "pressed" <=> conPc[u] = "pressed"
    BY <1>1, <1>5 DEF ClickPcs
  <2> QED
    BY <1>1, <2>1, ClickedUnchanged DEF ConInv
<1>11. InputTypes'
  <2>1. <<>> \in Seq(Nat)
    BY EmptySeq
  <2> QED
    BY <1>1, <1>2, <2>1 DEF InputTypes
<1>12. OutputTypes' /\ SwitchTypes'
  BY <1>1 DEF ConInv, ConTypes, OutputTypes, SwitchTypes
<1> QED
  BY <1>6, <1>7, <1>8, <1>9, <1>10, <1>11, <1>12 DEF ConInv, ConTypes

LEMMA EndScanKeeps ==
  ASSUME ConInv, NEW t \in ConThread, Con!EndScan(t)
  PROVE  ConInv'
<1>1. /\ Con!Runs(t) /\ conPc[t] = "got"
      /\ conPc' = [conPc EXCEPT ![t] = "idle"]
      /\ conHolder' = [conHolder EXCEPT !["uart"] = Nobody]
      /\ UNCHANGED <<conHalter, putting, conSent, expected, keysTyped, fifo,
                     lastRead, heard, number, numbers, down, wanted,
                     presses, clicks>>
  BY DEF Con!EndScan, Con!Goes, Con!Gives,
         Con!consoleVars, Con!outputVars, Con!inputVars, Con!switchVars
<1>2. TurnTypes /\ Turn
  BY DEF ConInv, ConTypes
<1>3. conHalter = Nobody
  BY <1>1, <1>2, Awake, Zenon DEF Panicking
<1>4. /\ conPc'[t] = "idle" /\ \A u \in ConThread \ {t} : conPc'[u] = conPc[u]
      /\ conHolder'["uart"] = Nobody
  BY <1>1, <1>2 DEF TurnTypes
<1>5. TurnTypes'
  BY <1>1, <1>2 DEF TurnTypes, ConPcs, FreePcs
<1>6. Turn'
  <2>1. conHolder["uart"] = t
    BY <1>1, <1>2, <1>3 DEF Turn, Scanning
  <2>2. \A u \in ConThread \ {t} : conPc[u] \notin Printing \cup Scanning
    BY <1>2, <1>3, <2>1 DEF Turn
  <2>3. "idle" \notin Panicking \cup Printing \cup Scanning
    BY DEF Panicking, Printing, Scanning
  <2> QED
    BY <1>1, <1>2, <1>3, <1>4, <2>2, <2>3, ConConstants DEF Turn
<1>7. Sent'
  <2>1. \A u \in ConThread :
          /\ conPc'[u] \in Printing <=> conPc[u] \in Printing
          /\ \A p \in {"last words", "halted"} : conPc'[u] = p <=> conPc[u] = p
    BY <1>1, <1>4, Zenon DEF Printing
  <2> QED
    BY <1>1, <2>1, SentUnchanged, Zenon DEF ConInv
<1>8. Scanned'
  <2>1. \A u \in ConThread : conPc'[u] = "get" <=> conPc[u] = "get"
    BY <1>1, <1>4
  <2> QED
    BY <1>1, <2>1, ScannedUnchanged DEF ConInv
<1>9. Clicked'
  <2>1. \A u \in ConThread :
          /\ conPc'[u] \in ClickPcs => conPc[u] \in ClickPcs
          /\ conPc'[u] = "pressed" <=> conPc[u] = "pressed"
    BY <1>1, <1>4 DEF ClickPcs
  <2> QED
    BY <1>1, <2>1, ClickedUnchanged DEF ConInv
<1>10. OutputTypes' /\ InputTypes' /\ SwitchTypes'
  BY <1>1 DEF ConInv, ConTypes, OutputTypes, InputTypes, SwitchTypes
<1> QED
  BY <1>5, <1>6, <1>7, <1>8, <1>9, <1>10 DEF ConInv, ConTypes

\* A character the scan takes: it is of what the UART received, or the space
\* that was given back, and then nothing of a number is there.
LEMMA TakenCharacter ==
  ASSUME InputTypes, Scanned, NEW t \in ConThread, number[t] = heard.last,
         NEW c \in Con!Received \cup Con!ToSet(lastRead), Con!NextCharacter(c)
  PROVE  /\ c \in Nat
         /\ fifo' \in Seq(Nat) /\ Len(fifo') <= RxDepth
         /\ \/ /\ lastRead = <<c>> /\ c = Con!Space /\ number[t] = <<>>
               /\ heard' = heard
            \/ heard' = Con!Heard(c)
<1>1. /\ fifo \in Seq(Nat) /\ Len(fifo) \in Nat /\ Len(fifo) <= RxDepth
      /\ RxDepth \in Nat /\ lastRead \in {<<>>, <<Con!Space>>}
  BY ConConstants, LenProperties DEF InputTypes
<1>2. CASE lastRead = <<c>> /\ UNCHANGED <<fifo, heard>>
  <2>1. lastRead # <<>>
    BY <1>2
  <2>2. c = Con!Space
    BY <1>1, <1>2
  <2> QED
    BY <1>1, <1>2, <2>1, <2>2 DEF Scanned, Con!Space
<1>3. CASE /\ lastRead = <<>> /\ c \in Con!Received
           /\ fifo' = Tail(fifo) /\ heard' = Con!Heard(c)
  <2>1. fifo # <<>> /\ c = Head(fifo)
    BY <1>3 DEF Con!Received
  <2> QED
    BY <1>1, <1>3, <2>1, HeadTailProperties
<1> QED
  BY <1>2, <1>3 DEF Con!NextCharacter

LEMMA GetCharacterKeeps ==
  ASSUME ConInv, NEW t \in ConThread, Con!GetCharacter(t)
  PROVE  ConInv'
<1>1. /\ Con!Runs(t) /\ conPc[t] = "get"
      /\ UNCHANGED <<conHalter, conHolder, putting, conSent, expected,
                     keysTyped, down, wanted, presses, clicks>>
  BY DEF Con!GetCharacter,
         Con!consoleVars, Con!outputVars, Con!inputVars, Con!switchVars
<1>2. TurnTypes /\ InputTypes /\ Turn /\ Scanned
  BY DEF ConInv, ConTypes
<1>3. conHalter = Nobody
  BY <1>1, <1>2, Awake, Zenon DEF Panicking
<1>4. number[t] = heard.last /\ numbers = heard.done
  BY <1>1, <1>2, <1>3 DEF Scanned
<1>5. \A u \in ConThread \ {t} : conPc[u] # "get"
  BY <1>1, <1>2, <1>3 DEF Turn, Scanning
<1>6. /\ heard \in [done : Seq(Seq(Nat)), last : Seq(Nat)]
      /\ number \in [ConThread -> Seq(Nat)] /\ numbers \in Seq(Seq(Nat))
  BY <1>2 DEF InputTypes
<1>7. PICK c \in Con!Received \cup Con!ToSet(lastRead) :
        /\ Con!NextCharacter(c)
        /\ \/ /\ c # Con!Space
              /\ number' = [number EXCEPT ![t] = Append(number[t], c)]
              /\ lastRead' = <<>>
              /\ UNCHANGED <<conPc, numbers>>
           \/ /\ c = Con!Space /\ number[t] = <<>>
              /\ lastRead' = <<>>
              /\ UNCHANGED <<conPc, number, numbers>>
           \/ /\ c = Con!Space /\ number[t] # <<>>
              /\ lastRead' = <<c>>
              /\ numbers' = Append(numbers, number[t])
              /\ number' = [number EXCEPT ![t] = <<>>]
              /\ conPc' = [conPc EXCEPT ![t] = "got"]
  BY DEF Con!GetCharacter
<1>8. /\ c \in Nat
      /\ fifo' \in Seq(Nat) /\ Len(fifo') <= RxDepth
      /\ \/ lastRead = <<c>> /\ c = Con!Space /\ number[t] = <<>> /\ heard' = heard
         \/ heard' = Con!Heard(c)
  BY <1>2, <1>4, <1>7, TakenCharacter
<1>9. /\ TurnTypes' /\ Turn'
      /\ \A u \in ConThread :
           /\ conPc'[u] \in Printing <=> conPc[u] \in Printing
           /\ \A p \in {"last words", "halted"} : conPc'[u] = p <=> conPc[u] = p
           /\ conPc'[u] \in ClickPcs => conPc[u] \in ClickPcs
           /\ conPc'[u] = "pressed" <=> conPc[u] = "pressed"
      /\ \A u \in ConThread \ {t} : conPc'[u] # "get"
      /\ conPc'[t] \in {"get", "got"}
  <2>1. CASE conPc' = conPc
    BY <1>1, <1>2, <1>5, <2>1 DEF TurnTypes, Turn, ClickPcs
  <2>2. CASE conPc' = [conPc EXCEPT ![t] = "got"]
    <3>1. conPc'[t] = "got" /\ \A u \in ConThread \ {t} : conPc'[u] = conPc[u]
      BY <1>2, <2>2 DEF TurnTypes
    <3>2. TurnTypes'
      BY <1>1, <1>2, <2>2 DEF TurnTypes, ConPcs, Scanning
    <3>3. Turn'
      BY <1>1, <1>2, <1>3, <3>1, ConConstants, Zenon
         DEF Turn, Panicking, Printing, Scanning
    <3> QED
      BY <1>1, <1>5, <3>1, <3>2, <3>3, Zenon DEF Printing, ClickPcs
  <2> QED
    BY <1>7, <2>1, <2>2, Zenon
<1>10. InputTypes' /\ Scanned'
  <2>1. CASE /\ c # Con!Space
             /\ number' = [number EXCEPT ![t] = Append(number[t], c)]
             /\ lastRead' = <<>> /\ UNCHANGED <<conPc, numbers>>
    <3>1. heard' = [heard EXCEPT !.last = Append(heard.last, c)]
      BY <1>8, <2>1 DEF Con!Heard
    <3>2. Append(number[t], c) \in Seq(Nat)
      BY <1>6, <1>8, AppendProperties
    <3>3. /\ number'[t] = Append(number[t], c) /\ heard'.last = Append(number[t], c)
          /\ heard'.done = heard.done
      BY <1>4, <1>6, <2>1, <3>1
    <3>4. InputTypes'
      BY <1>1, <1>2, <1>4, <1>6, <1>8, <2>1, <3>1, <3>2, Zenon DEF InputTypes
    <3> QED
      BY <1>1, <1>4, <1>9, <2>1, <3>3, <3>4 DEF Scanned
  <2>2. CASE /\ c = Con!Space /\ number[t] = <<>>
             /\ lastRead' = <<>> /\ UNCHANGED <<conPc, number, numbers>>
    <3>1. heard' = heard
      BY <1>4, <1>8, <2>2 DEF Con!Heard
    <3>2. InputTypes'
      BY <1>1, <1>2, <1>8, <2>2, <3>1 DEF InputTypes
    <3> QED
      BY <1>1, <1>2, <2>2, <3>1, <3>2 DEF Scanned
  <2>3. CASE /\ c = Con!Space /\ number[t] # <<>> /\ lastRead' = <<c>>
             /\ numbers' = Append(numbers, number[t])
             /\ number' = [number EXCEPT ![t] = <<>>]
             /\ conPc' = [conPc EXCEPT ![t] = "got"]
    <3>1. heard' = [done |-> Append(heard.done, heard.last), last |-> <<>>]
      BY <1>4, <1>8, <2>3 DEF Con!Heard
    <3>2. /\ <<>> \in Seq(Nat)
          /\ Append(heard.done, heard.last) \in Seq(Seq(Nat))
      BY <1>6, AppendProperties, EmptySeq
    <3>3. InputTypes'
      <4>1. number' \in [ConThread -> Seq(Nat)]
        BY <1>6, <2>3, <3>2
      <4>2. heard' \in [done : Seq(Seq(Nat)), last : Seq(Nat)]
        BY <3>1, <3>2
      <4>3. numbers' \in Seq(Seq(Nat))
        BY <1>4, <2>3, <3>2
      <4> QED
        BY <1>1, <1>2, <1>8, <2>3, <4>1, <4>2, <4>3 DEF InputTypes
    <3>4. conPc'[t] # "get"
      BY <1>2, <2>3 DEF TurnTypes
    <3> QED
      BY <1>4, <1>9, <2>3, <3>1, <3>3, <3>4, Zenon DEF Scanned
  <2> QED
    BY <1>7, <2>1, <2>2, <2>3
<1>11. Sent'
  BY <1>1, <1>9, SentUnchanged, Zenon DEF ConInv
<1>12. Clicked'
  BY <1>1, <1>9, ClickedUnchanged, Zenon DEF ConInv
<1>13. OutputTypes' /\ SwitchTypes'
  BY <1>1 DEF ConInv, ConTypes, OutputTypes, SwitchTypes
<1> QED
  BY <1>9, <1>10, <1>11, <1>12, <1>13, Zenon DEF ConInv, ConTypes

LEMMA ContactKeeps ==
  ASSUME ConInv, NEW switch \in Con!Switch, Con!Contact(switch)
  PROVE  ConInv'
<1>1. /\ \/ switch \in down /\ down' = down \ {switch} /\ UNCHANGED presses
         \/ /\ switch \notin down /\ down' = down \cup {switch}
            /\ presses < MaxPresses /\ presses' = presses + 1
      /\ UNCHANGED <<conHalter, conHolder, conPc, putting, conSent, expected,
                     keysTyped, fifo, lastRead, heard, number,
                     numbers, wanted, clicks>>
  BY DEF Con!Contact,
         Con!consoleVars, Con!outputVars, Con!inputVars, Con!switchVars
<1>2. /\ down \subseteq Con!Switch /\ wanted \subseteq Con!Switch
      /\ clicks \in Nat /\ presses \in 0 .. MaxPresses /\ MaxPresses \in Nat
  BY ConConstants DEF ConInv, ConTypes, SwitchTypes
<1>3. SwitchTypes'
  BY <1>1, <1>2 DEF SwitchTypes
<1>4. switch \in {"go", "stop"}
  BY DEF Con!Switch
<1>5. /\ Weight(down') <= Weight(down) + (presses' - presses)
      /\ Weight(down' \ wanted) <= Weight(down \ wanted) + (presses' - presses)
      /\ Weight(down) \in Nat /\ Weight(down \ wanted) \in Nat
      /\ Weight(down') \in Nat /\ Weight(down' \ wanted) \in Nat
  BY <1>1, <1>2, <1>4 DEF Weight
<1>6. Clicked'
  BY <1>1, <1>2, <1>3, <1>5 DEF ConInv, Clicked, SwitchTypes
<1>7. Turn' /\ Sent' /\ Scanned'
  BY <1>1, Zenon DEF ConInv, Turn, Sent, Prints, Scanned
<1>8. TurnTypes' /\ OutputTypes' /\ InputTypes'
  BY <1>1, Zenon DEF ConInv, ConTypes, TurnTypes, OutputTypes, InputTypes
<1> QED
  BY <1>3, <1>6, <1>7, <1>8 DEF ConInv, ConTypes

\* go_click(), stop_click() or either_click() begins, finds a contact closed or
\* ends.
LEMMA ClickKeeps ==
  ASSUME ConInv, NEW t \in ConThread,
         \/ \E switches \in SUBSET Con!Switch : Con!Clicks(t, switches)
         \/ Con!Pressed(t) \/ Con!ClickEnds(t)
  PROVE  ConInv'
<1> USE DEF Con!Clicks, Con!Pressed, Con!ClickEnds, Con!Goes
<1>1. PICK to \in {"click", "pressed", "idle"} :
        /\ conPc[t] \in {"idle", "click", "pressed"}
        /\ conPc' = [conPc EXCEPT ![t] = to]
        /\ UNCHANGED <<conHalter, conHolder, putting, conSent, expected,
                       keysTyped, fifo, lastRead, heard, number,
                       numbers, down, presses>>
  BY
     DEF Con!consoleVars, Con!outputVars, Con!inputVars, Con!switchVars
<1>2. /\ TurnTypes' /\ Turn'
      /\ \A u \in ConThread :
           /\ conPc'[u] \in Printing <=> conPc[u] \in Printing
           /\ \A p \in {"last words", "halted", "get"} :
                conPc'[u] = p <=> conPc[u] = p
      /\ \A u \in ConThread \ {t} : conPc'[u] = conPc[u]
      /\ conPc'[t] = to
  BY <1>1, FreeMove, Zenon DEF ConInv, ConTypes, FreePcs
<1>3. Sent'
  BY <1>1, <1>2, SentUnchanged, Zenon DEF ConInv
<1>4. Scanned'
  BY <1>1, <1>2, ScannedUnchanged, Zenon DEF ConInv
<1>5. OutputTypes' /\ InputTypes'
  BY <1>1 DEF ConInv, ConTypes, OutputTypes, InputTypes
<1>6. /\ down \subseteq {"go", "stop"} /\ wanted \subseteq {"go", "stop"}
      /\ clicks \in Nat /\ presses \in Nat
  BY ConConstants DEF ConInv, ConTypes, SwitchTypes, Con!Switch
<1>7. t = Clicker
  BY DEF ConInv, Clicked
<1>8. /\ conPc' = [conPc EXCEPT ![Clicker] = to] /\ conPc'[Clicker] = to
      /\ \A u \in ConThread : conPc'[u] \in ClickPcs => u = Clicker
  BY <1>1, <1>2, <1>7, Zenon DEF ConInv, Clicked, ClickPcs
<1>9. SwitchTypes' /\ Clicked'
  <2>1. CASE \E switches \in SUBSET Con!Switch : Con!Clicks(t, switches)
    <3>1. /\ conPc[Clicker] = "idle" /\ conPc'[Clicker] = "click"
          /\ UNCHANGED <<down, presses, clicks>> /\ wanted' \subseteq Con!Switch
      BY <1>2, <1>7, <1>8, <2>1, Zenon DEF ConInv, ConTypes, TurnTypes
    <3> QED
      BY <1>8, <3>1 DEF ConInv, ConTypes, SwitchTypes, Clicked, ClickPcs, Weight
  <2>2. CASE Con!Pressed(t)
    <3>1. /\ conPc[Clicker] = "click" /\ conPc'[Clicker] = "pressed"
          /\ wanted \cap down # {} /\ UNCHANGED <<down, presses, clicks, wanted>>
      BY <1>7, <1>8, <2>2
         DEF ConInv, ConTypes, TurnTypes, Con!consoleVars, Con!switchVars
    <3>2. 1 + Weight(down \ wanted) <= Weight(down)
      <4>1. "go" \in wanted \cap down \/ "stop" \in wanted \cap down
        BY <1>6, <3>1, Zenon
      <4>2. /\ \A b \in Con!Switch : b \in down \ wanted => b \in down
            /\ \A b \in wanted \cap down : b \in down /\ b \notin down \ wanted
        OBVIOUS
      <4> DEFINE go == "go" \in down
                 go2 == "go" \in down \ wanted
                 stop == "stop" \in down
                 stop2 == "stop" \in down \ wanted
      <4>3. /\ go2 => go
            /\ stop2 => stop
            /\ (go /\ ~go2) \/ (stop /\ ~stop2)
        BY <4>1, <4>2, Zenon
      <4>4. /\ Weight(down) = (IF go THEN 1 ELSE 0) + (IF stop THEN 1 ELSE 0)
            /\ Weight(down \ wanted) =
                 (IF go2 THEN 1 ELSE 0) + (IF stop2 THEN 1 ELSE 0)
        BY Zenon DEF Weight
      <4> HIDE DEF go, go2, stop, stop2
      <4> QED
        BY <4>3, <4>4
    <3>3. Weight(down) \in Nat /\ Weight(down \ wanted) \in Nat
      BY DEF Weight
    <3>4. clicks + Weight(down) <= presses
      BY <3>1 DEF ConInv, Clicked
    <3>5. clicks + 1 + Weight(down \ wanted) <= presses
      BY <1>6, <3>2, <3>3, <3>4
    <3>6. Clicked'
      BY <1>8, <3>1, <3>5 DEF Clicked, ClickPcs, Weight
    <3> QED
      BY <3>1, <3>6 DEF ConInv, ConTypes, SwitchTypes
  <2>3. CASE Con!ClickEnds(t)
    <3>1. /\ conPc[Clicker] = "pressed" /\ conPc'[Clicker] = "idle"
          /\ wanted \cap down = {} /\ clicks' = clicks + 1
          /\ UNCHANGED <<down, presses, wanted>>
      BY <1>7, <1>8, <2>3 DEF ConInv, ConTypes, TurnTypes, Con!Released
    <3>2. down \ wanted = down
      BY <3>1
    <3>3. clicks + 1 + Weight(down) <= presses
      BY <3>1, <3>2 DEF ConInv, Clicked
    <3>4. Clicked'
      BY <1>8, <3>1, <3>3 DEF Clicked, ClickPcs, Weight
    <3> QED
      BY <1>6, <3>1, <3>4 DEF ConInv, ConTypes, SwitchTypes
  <2> QED
    BY <2>1, <2>2, <2>3
<1> QED
  BY <1>2, <1>3, <1>4, <1>5, <1>9, Zenon DEF ConInv, ConTypes

LEMMA ConNextKeeps ==
  ASSUME ConInv, [Con!ConsoleNext]_conVars
  PROVE  ConInv'
<1>1. ASSUME NEW t \in ConThread,
             \/ Con!go_click(t) \/ Con!stop_click(t) \/ Con!either_click(t)
             \/ Con!Pressed(t) \/ Con!ClickEnds(t)
      PROVE  ConInv'
  <2>1. \/ \E switches \in SUBSET Con!Switch : Con!Clicks(t, switches)
        \/ Con!Pressed(t) \/ Con!ClickEnds(t)
    <3>1. {"go"} \in SUBSET Con!Switch /\ {"stop"} \in SUBSET Con!Switch
          /\ Con!Switch \in SUBSET Con!Switch
      BY DEF Con!Switch
    <3> QED
      BY <1>1, <3>1 DEF Con!go_click, Con!stop_click, Con!either_click
  <2> QED
    BY <2>1, ClickKeeps
<1>2. ASSUME UNCHANGED conVars PROVE ConInv'
  <2>1. TurnTypes' /\ OutputTypes' /\ InputTypes' /\ SwitchTypes'
    BY <1>2, Zenon DEF conVars, ConInv, ConTypes, TurnTypes, OutputTypes, InputTypes,
                SwitchTypes
  <2>2. Turn' /\ Sent' /\ Scanned' /\ Clicked'
    BY <1>2, Zenon DEF conVars, ConInv, Turn, Sent, Prints, Scanned, Clicked,
                       Weight
  <2> QED
    BY <2>1, <2>2 DEF ConInv, ConTypes
<1> QED
  BY <1>1, <1>2, CallPrintKeeps, ScanfKeeps, LockOutputKeeps, PutCharacterKeeps,
     EndPrintKeeps, PanicKeeps, PanicPrintsKeeps, TypesKeeps, LockInputKeeps,
     EndScanKeeps, GetCharacterKeeps, ContactKeeps
     DEF Con!ConsoleNext

LEMMA ConSteps ==
  ASSUME [Next]_vars
  PROVE  /\ part' = part
         /\ part = "console" => [Con!ConsoleNext]_conVars
         /\ part # "console" => UNCHANGED conVars
  BY DEF Next, vars, conVars

LEMMA ConInvariant == Spec => []ConInv
<1>1. Init => ConInv
  BY ConInit DEF Init
<1>2. ConInv /\ [Next]_vars => ConInv'
  <2>1. ConInv /\ UNCHANGED conVars => ConInv'
    BY ConNextKeeps
  <2> QED
    BY <2>1, ConSteps, ConNextKeeps
<1> QED
  BY <1>1, <1>2, PTL DEF Spec

LEMMA ConInvProtects ==
  ASSUME ConInv
  PROVE  /\ Con!TextsAreWhole /\ Con!NumbersAreWhole
         /\ Con!PanicIsTold /\ Con!OneClickAPress
         /\ Con!ConsoleTypeOK
<1>1. /\ Turn /\ Sent /\ conSent \in Seq(Group) /\ expected \in Seq(Group)
      /\ putting \in [ConThread -> Seq(Int)]
  BY DEF ConInv, ConTypes, OutputTypes
<1>2. Con!IsPrefix(conSent, expected)
  <2>1. CASE \E t \in ConThread : Prints(t)
    <3>1. PICK t \in ConThread : conSent \o Con!Wire(putting[t]) = expected
      BY <1>1, <2>1, Zenon DEF Sent
    <3>2. Con!Wire(putting[t]) \in Seq(Group)
      BY <1>1, WireTypes
    <3> QED
      BY <1>1, <3>1, <3>2, Ends, Zenon
  <2>2. CASE \A t \in ConThread : ~Prints(t)
    <3>1. conSent = expected
      BY <1>1, <2>2, Zenon DEF Sent
    <3>2. conSent \o <<>> = expected /\ <<>> \in Seq(Group)
      BY <1>1, <3>1, ConcatEmptySeq, EmptySeq
    <3> QED
      BY <1>1, <3>2, Ends, Zenon
  <2> QED
    BY <2>1, <2>2
<1>3. Con!TextsAreWhole
  BY <1>1, <1>2, FreeMeansSent DEF Con!TextsAreWhole
<1>4. Con!NumbersAreWhole
  BY DEF ConInv, Scanned, Con!NumbersAreWhole
<1>5. Con!PanicIsTold
  <2> SUFFICES ASSUME NEW t \in ConThread, conPc[t] = "halted"
               PROVE  Con!IsSuffix(Con!Wire(ConPanicText), conSent)
    BY DEF Con!PanicIsTold
  <2>1. conHalter = t
    BY <1>1, Zenon DEF Turn, Panicking
  <2>2. \A u \in ConThread : ~Prints(u)
    BY <1>1, <2>1, ConConstants, Zenon DEF Turn, Prints, Panicking
  <2> QED
    BY <1>1, <2>2, Zenon DEF Sent
<1>6. Con!OneClickAPress /\ clicks \in 0 .. MaxPresses
  <2>1. /\ clicks \in Nat /\ presses \in 0 .. MaxPresses /\ MaxPresses \in Nat
        /\ Weight(down) \in Nat /\ Weight(down \ wanted) \in Nat
    BY ConConstants DEF ConInv, ConTypes, SwitchTypes, Weight
  <2>2. \/ clicks + Weight(down) <= presses
        \/ clicks + 1 + Weight(down \ wanted) <= presses
    BY DEF ConInv, Clicked
  <2> QED
    BY <2>1, <2>2 DEF Con!OneClickAPress
<1>7. Con!ConsoleTypeOK
  <2>1. Len(lastRead) <= 1
    <3>1. lastRead = <<>> \/ lastRead = <<Con!Space>>
      BY DEF ConInv, ConTypes, InputTypes
    <3>2. CASE lastRead = <<>>
      <4>1. Len(<<>>) <= 1
        OBVIOUS
      <4> QED
        BY <3>2, <4>1, Zenon
    <3>3. CASE lastRead = <<Con!Space>>
      <4>1. Len(<<Con!Space>>) <= 1
        OBVIOUS
      <4> QED
        BY <3>3, <4>1, Zenon
    <3> QED
      BY <3>1, <3>2, <3>3
  <2> QED
    BY <1>6, <2>1 DEF ConInv, ConTypes, OutputTypes, InputTypes,
                      Con!ConsoleTypeOK
<1> QED
  BY <1>3, <1>4, <1>5, <1>6, <1>7

\* What threads print is not mixed, also by a panic, whose message is there in
\* full when the board has halted; scans do not share out the digits of a
\* number; and no click is told for a press that was told before (uart.c,
\* panic.c, buttons.c).
THEOREM ConsoleStaysWhole == Spec => []ConsoleIsWhole
<1>1. ConInv => ConsoleIsWhole
  BY ConInvProtects DEF ConsoleIsWhole
<1> QED
  BY <1>1, ConInvariant, PTL
=============================================================================
