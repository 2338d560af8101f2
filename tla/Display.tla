------------------------------ MODULE Display ------------------------------
(***************************************************************************)
(* drivers/lcd.c: the driver of the character display, which remembers what*)
(* it has written (lcdContents) and where the display's cursor is          *)
(* (lcdPosActual), and sends only what is new.  A byte goes to the display *)
(* in two halves; a reset and a panic may come between them.  The caller   *)
(* of an operation holds lcd_lock, so operations do not interleave; panic  *)
(* smashes the lock.  Before the application the boot loader uses the      *)
(* display, with drivers/lcd_hboot.c.                                      *)
(***************************************************************************)
EXTENDS Integers, SequencesExt

CONSTANTS
  Columns,     \* characters in each of the two lines of the display (16)
  Char,        \* the characters printed
  Texts,       \* the strings printed, over Char and Newline
  PanicText,   \* what panic prints after its newline
  MaxPrints,   \* bound: number of operations
  MaxResets    \* bound: number of resets

DisplayAssumption ==
  /\ Columns \in Nat \ {0} /\ MaxPrints \in Nat /\ MaxResets \in Nat
  /\ Texts \subseteq Seq(Char \cup {"newline"})
  /\ PanicText \in Seq(Char)

VARIABLES
  latch,        \* the display's half of a byte, None, or Eight: whole bytes
  ac,           \* its address counter: a position, Aside or Cg
  ddram,        \* the characters it shows
  todo,         \* the halves the driver is about to send
  text,         \* the rest of the string lcd_vprintf is printing
  lcdContents, lcdPos, lcdPosActual, lcdClearFlag,
  running,      \* "loader", "reset" (before lcd_init), "program", "panic"
  bypassed,     \* history: what wrote behind lcdContents since the last clear
  cut,          \* history: a panic came between two halves
  prints, resets

driverVars == <<lcdContents, lcdPos, lcdPosActual, lcdClearFlag>>
panelVars == <<latch, ac, ddram>>
displayVars == <<panelVars, todo, text, driverVars, running, bypassed, cut,
                 prints, resets>>

Newline == "newline"
Blank == " "
Noise == "?"
Size == 2 * Columns

None == <<"none", 0, 0>>
Eight == <<"eight", 0, 0>>
Aside == -1        \* beside the visible part of a line, or unknown
Cg == -2           \* in the memory of custom characters

AllBlank == [p \in 0 .. Size - 1 |-> Blank]
AllNoise == [p \in 0 .. Size - 1 |-> Noise]

DisplayTypeOK ==
  /\ ac \in {Aside, Cg} \cup (0 .. Size - 1)
  /\ ddram \in [0 .. Size - 1 -> Char \cup {Blank, Noise}]
  /\ lcdContents \in [0 .. Size - 1 -> Char \cup {Blank}]
  /\ lcdPos \in 0 .. Size
  /\ lcdPosActual \in (0 .. Size) \cup {255}

-----------------------------------------------------------------------------
(* The display *)

\* Past the last visible character of a line.
NextAc(p) == IF p < 0 \/ (p + 1) % Columns = 0
             THEN (IF p = Cg THEN Cg ELSE Aside)
             ELSE p + 1

\* What the byte of these two halves does; two halves that do not belong
\* together do anything.
Obey(d, half) ==
  CASE half[1] = "clear" -> [ac |-> 0, ddram |-> AllBlank]
    [] half[1] = "home" -> [d EXCEPT !.ac = 0]
    [] half[1] = "address" -> [d EXCEPT !.ac = half[2]]
    [] half[1] = "cg" -> [d EXCEPT !.ac = Cg]
    [] half[1] = "mode" -> d
    [] half[1] = "data" ->
         [ac |-> NextAc(d.ac),
          ddram |-> [p \in 0 .. Size - 1 |->
                       IF p = d.ac THEN half[2]
                       ELSE IF d.ac = Aside /\ d.ddram[p] = Noise THEN Noise
                       ELSE d.ddram[p]]]

Garbled(d) == [ac |-> Aside, ddram |-> AllNoise]

\* A strobe of the enable line.  "3" and "2" are the halves of lcd_init's first
\* bytes: 0x33 makes the display take whole bytes, 0x20 halves.
Strobe(d, half) ==
  LET body == [ac |-> d.ac, ddram |-> d.ddram]
      With(l, b) == [latch |-> l, ac |-> b.ac, ddram |-> b.ddram]
  IN
  CASE d.latch = Eight -> IF half[1] = "two" THEN With(None, body)
                          ELSE IF half[1] = "three" THEN d
                          ELSE With(Eight, Garbled(body))
    [] d.latch = None -> [d EXCEPT !.latch = half]
    [] OTHER -> IF d.latch[1] = "three" /\ half[1] = "three"
                THEN With(Eight, body)
                ELSE IF d.latch[3] = 1 /\ half[3] = 2 /\ half[1] # "three"
                        /\ half[1] # "two"
                THEN With(None, Obey(body, half))
                ELSE With(None, Garbled(body))

Panel == [latch |-> latch, ac |-> ac, ddram |-> ddram]

\* The display after the driver has sent all it has to.  (With a set of one
\* element TLC evaluates each step once.)
Ahead ==
  LET after[i \in 0 .. Len(todo)] ==
        IF i = 0 THEN Panel
        ELSE CHOOSE d \in {Strobe(e, todo[i]) : e \in {after[i - 1]}} : TRUE
  IN after[Len(todo)]

-----------------------------------------------------------------------------
(* The driver *)

\* lcd_write: the high half, then the low half.
Halves(c) == <<<<c[1], c[2], 1>>, <<c[1], c[2], 2>>>>

Sends(commands) ==
  todo' = FlattenSeq([i \in DOMAIN commands |-> Halves(commands[i])])

ClearDisplay == <<<<"clear", 0>>, <<"home", 0>>>>

\* lcd_set_custom_char, eight times an address and a data byte
CustomChar == <<<<"cg", 0>>, <<"data", Blank>>>>

InitBytes == <<<<"three", 0, 1>>, <<"three", 0, 2>>, <<"three", 0, 1>>,
               <<"two", 0, 2>>>>

InitCommands == CustomChar \o ClearDisplay \o <<<<"mode", 0>>, <<"mode", 0>>>>

InitHalves == InitBytes \o FlattenSeq([i \in DOMAIN InitCommands |->
                                         Halves(InitCommands[i])])

Idle == todo = <<>> /\ text = <<>>

Send ==
  /\ todo # <<>>
  /\ LET d == Strobe(Panel, Head(todo)) IN
     latch' = d.latch /\ ac' = d.ac /\ ddram' = d.ddram
  /\ todo' = Tail(todo)
  /\ UNCHANGED <<text, driverVars, running, bypassed, cut, prints, resets>>

Operation == /\ Idle /\ running = "program" /\ prints < MaxPrints
             /\ prints' = prints + 1
             /\ UNCHANGED <<panelVars, running, cut, resets>>

lcd_init ==
  /\ todo = <<>> /\ running = "reset"
  /\ todo' = InitHalves
  /\ lcdContents' = AllBlank
  /\ running' = "program"
  /\ bypassed' = {}
  /\ UNCHANGED <<panelVars, text, lcdPos, lcdPosActual, lcdClearFlag, cut,
                 prints, resets>>

lcd_vprintf ==
  /\ Operation
  /\ \E t \in Texts : text' = t
  /\ UNCHANGED <<todo, driverVars, bypassed>>

\* Mutant: lcd_clear leaves lcdContents.
ContentsKept == lcdContents

ContentsCleared == AllBlank

\* Mutant: after the first line the cursor is believed to be on the second.
OneLine(p) == lcdPosActual

\* The display's cursor as far as known, when p is to be written.
ActualAt(p) == IF p = Columns THEN 255 ELSE lcdPosActual

IsNew(ch, old) == ch # Newline /\ old # ch

lcd_print_char ==
  LET ch == Head(text)
      pos == IF lcdClearFlag THEN 0 ELSE lcdPos % Size
      contents == IF lcdClearFlag THEN ContentsCleared ELSE lcdContents
      actual == IF lcdClearFlag THEN 0
                ELSE IF ch = Newline THEN lcdPosActual ELSE ActualAt(pos)
      new == IsNew(ch, contents[pos])
  IN
  /\ todo = <<>> /\ text # <<>>
  /\ text' = Tail(text)
  /\ lcdClearFlag' = (ch = Newline)
  /\ lcdContents' = IF new THEN [contents EXCEPT ![pos] = ch] ELSE contents
  /\ lcdPos' = IF ch = Newline THEN pos ELSE pos + 1
  /\ lcdPosActual' = IF new THEN pos + 1 ELSE actual
  /\ bypassed' = IF lcdClearFlag THEN {} ELSE bypassed
  /\ Sends((IF lcdClearFlag THEN ClearDisplay ELSE <<>>)
           \o (IF new /\ actual # pos THEN <<<<"address", pos>>>> ELSE <<>>)
           \o (IF new THEN <<<<"data", ch>>>> ELSE <<>>))
  /\ UNCHANGED <<panelVars, running, cut, prints, resets>>

lcd_set_pos ==
  /\ Operation
  /\ \E p \in 0 .. Size - 1 :
       /\ lcdPos' = p /\ lcdPosActual' = p
       /\ Sends(IF p # lcdPosActual THEN <<<<"address", p>>>> ELSE <<>>)
  /\ UNCHANGED <<text, lcdContents, lcdClearFlag, bypassed>>

\* The effects of lcd_clear, which panic calls too.
Clears ==
  /\ Sends(ClearDisplay)
  /\ lcdContents' = ContentsCleared
  /\ lcdPos' = 0 /\ lcdPosActual' = 0
  /\ bypassed' = {}
  /\ UNCHANGED lcdClearFlag

lcd_clear == Operation /\ Clears /\ UNCHANGED text

\* By a program, lcd.h:71.  The display's cursor stays with the custom
\* characters.
lcd_set_custom_char ==
  /\ Operation
  /\ Sends(CustomChar)
  /\ bypassed' = bypassed \cup {"custom"}
  /\ UNCHANGED <<text, driverVars>>

\* lcd_print, i counting the characters printed.
PlainCommands(t) ==
  FlattenSeq([i \in DOMAIN t |->
    <<IF t[i] = Newline THEN <<"address", 0>> ELSE <<"data", t[i]>>>>
    \o (IF i = Columns THEN <<<<"address", Columns>>>> ELSE <<>>)])

PlainPos(p, ch) == IF ch = Newline THEN 1 ELSE p + 1

lcd_print ==
  /\ Operation
  /\ \E t \in Texts :
       /\ FoldLeft(PlainPos, lcdPos, t) <= Size
       /\ Sends(PlainCommands(t))
       /\ lcdPos' = FoldLeft(PlainPos, lcdPos, t)
  /\ bypassed' = bypassed \cup {"print"}
  /\ UNCHANGED <<text, lcdContents, lcdPosActual, lcdClearFlag>>

\* panic_P, at any moment of the program
panic ==
  /\ running = "program"
  /\ running' = "panic"
  /\ cut' = (latch # None)
  /\ Clears
  /\ text' = <<Newline>> \o PanicText
  /\ UNCHANGED <<panelVars, prints, resets>>

-----------------------------------------------------------------------------
(* The boot loader, lcd_hboot.c, and resets *)

LoaderInit ==
  /\ running = "loader" /\ todo = <<>>
  /\ todo' = InitHalves
  /\ running' = "loader up"
  /\ UNCHANGED <<panelVars, text, driverVars, bypassed, cut, prints, resets>>

LoaderPrints ==
  /\ running = "loader up" /\ todo = <<>> /\ prints < MaxPrints
  /\ \E t \in Texts : todo' = FlattenSeq([i \in DOMAIN PlainCommands(t) |->
                                            Halves(PlainCommands(t)[i])])
  /\ prints' = prints + 1
  /\ UNCHANGED <<panelVars, text, driverVars, running, bypassed, cut, resets>>

LoaderStartsProgram ==
  /\ running = "loader up" /\ todo = <<>>
  /\ running' = "reset"
  /\ UNCHANGED <<panelVars, todo, text, driverVars, bypassed, cut, prints,
                 resets>>

\* The processor starts again; the display does not notice.
Reset ==
  /\ running = "program" /\ resets < MaxResets
  /\ resets' = resets + 1
  /\ running' = "loader"
  /\ todo' = <<>> /\ text' = <<>>
  /\ lcdContents' = AllBlank /\ lcdPos' = 0 /\ lcdPosActual' = 0
  /\ lcdClearFlag' = FALSE
  /\ bypassed' = {"reset"}
  /\ UNCHANGED <<panelVars, cut, prints>>

\* Power on.
DisplayInit ==
  /\ latch = Eight /\ ac = Aside /\ ddram = AllNoise
  /\ todo = <<>> /\ text = <<>>
  /\ lcdContents = AllBlank
  /\ lcdPos = 0 /\ lcdPosActual = 0 /\ lcdClearFlag = FALSE
  /\ running = "loader" /\ bypassed = {"reset"} /\ cut = FALSE
  /\ prints = 0 /\ resets = 0

DisplayNext ==
  \/ Send \/ lcd_init \/ lcd_vprintf \/ lcd_print_char \/ lcd_set_pos
  \/ lcd_clear \/ lcd_set_custom_char \/ lcd_print \/ panic
  \/ LoaderInit \/ LoaderPrints \/ LoaderStartsProgram \/ Reset

DisplaySpec == DisplayInit /\ [][DisplayNext]_displayVars

-----------------------------------------------------------------------------
(* Properties *)

\* The driver sends less than is printed, and the display's cursor leaps where
\* the driver's does not; still, through the driver, the display is the text
\* line that lcd.h describes (lcd_print and custom characters excepted, and a
\* panic between two halves).
Screen == INSTANCE TextScreen WITH
  shown <- Ahead.ddram, cursor <- lcdPos, clearing <- lcdClearFlag,
  known <- bypassed = {} /\ ~cut
IsATextScreen == Screen!ScreenSpec

\* lcd.c:158 has "no clue why the 0x33 and 0x32 should work": whatever the
\* display was in the middle of at the reset, it takes what follows in step.
InStepAgain ==
  running = "program" /\ ~cut =>
    /\ Ahead.latch = None
    /\ todo = <<>> => latch = None

\* panic.c:53 smashes the lock "so we can write": unless half a byte was on its
\* way, what is left on the display is the message and nothing else.
PanicShows ==
  running = "panic" /\ Idle /\ ~cut =>
    ddram = [p \in 0 .. Size - 1 |-> IF p < Len(PanicText) THEN PanicText[p + 1]
                                                         ELSE Blank]
=============================================================================
