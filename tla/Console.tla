------------------------------ MODULE Console ------------------------------
(***************************************************************************)
(* The serial console of hal/uart.c and what waits for its user: printf()  *)
(* and scanf() of several threads over one UART under one lock, panic(),   *)
(* and waitForClick() of kern/util.c with the clicks of drivers/buttons.c. *)
(*                                                                         *)
(* A character is a number: those a user types are digits, the positive    *)
(* ones, and Space; a scan is of one number, "%d".  vfprintf() and         *)
(* vfscanf() are the C library's and go character by character.            *)
(***************************************************************************)
EXTENDS DriverLocks, SequencesExt

CONSTANTS
  Texts,        \* what a thread prints in one call, by thread
  PanicText,    \* what panic() prints
  Newline, Return,
  Keys,         \* the characters the user types, in this order
  RxDepth,      \* how many characters the receiver of the UART keeps
  Clicker,      \* the one thread that waits for clicks
  MaxPrints, MaxScans, MaxClicks, MaxPresses   \* bounds

ConsoleAssumption ==
  /\ Texts \in [Thread -> Seq(Int)] /\ PanicText \in Seq(Int)
  /\ Keys \in Seq(Nat) /\ RxDepth \in Nat \ {0}
  /\ Clicker \in Thread /\ MaxPresses \in Nat

VARIABLES
  putting,      \* the characters still to put, by thread
  sent,         \* history: what was sent, for each character put
  expected,     \* history: the texts in the order they got the lock
  keysTyped,    \* how many keys the user has typed
  fifo,         \* characters the UART has received
  lastRead,     \* what ungetc() gave back to the stream, or <<>>
  heard,        \* history: the numbers in what uart_recv() returned
  number,       \* the digits vfscanf() has, by thread
  numbers,      \* history: the numbers the scans returned
  down,         \* the closed contacts of the switches, "go" and "stop"
  wanted,       \* the switches the click is waited for of
  presses, clicks,   \* how often a contact closed; how many clicks returned
  prints, scans      \* counters of the bounds

outputVars == <<putting, sent, expected, prints>>
inputVars == <<keysTyped, fifo, lastRead, heard, number, numbers, scans>>
switchVars == <<down, wanted, presses, clicks>>
consoleVars == <<outputVars, inputVars, switchVars>>

Space == 0

\* The digits of each run between spaces, and those after the last space.
NothingHeard == [done |-> <<>>, last |-> <<>>]

Heard(c) ==
  IF c # Space THEN [heard EXCEPT !.last = Append(@, c)]
  ELSE IF heard.last = <<>> THEN heard
  ELSE [done |-> Append(heard.done, heard.last), last |-> <<>>]

ConsoleTypeOK ==
  /\ \A t \in Thread : Len(putting[t]) <= Len(Texts[t]) + Len(PanicText)
  /\ Len(fifo) <= RxDepth
  /\ Len(lastRead) <= 1
  /\ clicks \in 0 .. MaxPresses

ConsoleInit ==
  /\ putting = [t \in Thread |-> <<>>]
  /\ sent = <<>> /\ expected = <<>> /\ prints = 0
  /\ keysTyped = 0 /\ fifo = <<>> /\ lastRead = <<>>
  /\ heard = NothingHeard
  /\ number = [t \in Thread |-> <<>>] /\ numbers = <<>> /\ scans = 0
  /\ down = {} /\ wanted = {"go"} /\ presses = 0 /\ clicks = 0

-----------------------------------------------------------------------------
(* Output *)

\* uart_put(): a newline is a return and a newline.
uart_put(c) == IF c = Newline THEN <<Return, Newline>> ELSE <<c>>

Wire(text) == [i \in 1 .. Len(text) |-> uart_put(text[i])]

CallPrint(t, then) ==
  /\ Goes(t, "idle", then)
  /\ prints < MaxPrints
  /\ prints' = prints + 1
  /\ UNCHANGED <<halter, holder, putting, sent, expected, inputVars,
                 switchVars>>

uart_printf(t) == CallPrint(t, "print")

waitForClick(t) == t = Clicker /\ CallPrint(t, "ask")

StartsPrint(t, text) ==
  /\ Takes(t, "uart")
  /\ putting' = [putting EXCEPT ![t] = text]
  /\ expected' = expected \o Wire(text)
  /\ UNCHANGED <<sent, prints, inputVars, switchVars>>

LockOutput(t) ==
  /\ \/ Goes(t, "print", "put")
     \/ Goes(t, "ask", "putask")
  /\ StartsPrint(t, Texts[t])
  /\ UNCHANGED halter

\* A character, or a return and a newline: only the thread with the lock sends.
PutCharacter(t) ==
  /\ Runs(t)
  /\ pc[t] \in {"put", "putask", "last words"} /\ putting[t] # <<>>
  /\ sent' = Append(sent, uart_put(Head(putting[t])))
  /\ putting' = [putting EXCEPT ![t] = Tail(@)]
  /\ UNCHANGED <<halter, holder, pc, expected, prints, inputVars, switchVars>>

\* waitForClick() goes on to go_click().
EndPrint(t) ==
  /\ \/ Goes(t, "put", "idle")
     \/ Goes(t, "putask", "click")
     \/ Goes(t, "last words", "halted")
  /\ putting[t] = <<>>
  /\ Gives(t, "uart")
  /\ wanted' = IF pc[t] = "putask" THEN {"go"} ELSE wanted
  /\ UNCHANGED <<halter, outputVars, inputVars, down, presses, clicks>>

TurnsOff(t) == halter' = t

\* panic() turns interrupts off and smashes the lock; a text that was being
\* printed or a scan ends where it is.
ConsolePanic(t) ==
  /\ halter = Nobody /\ Goes(t, "idle", "panic")
  /\ TurnsOff(t)
  /\ Gives(t, "uart")
  /\ expected' = sent
  /\ UNCHANGED <<putting, sent, prints, inputVars, switchVars>>

PanicPrints(t) ==
  /\ Goes(t, "panic", "last words")
  /\ StartsPrint(t, PanicText)
  /\ UNCHANGED halter

-----------------------------------------------------------------------------
(* Input *)

\* A character for which there is no room is lost.
Types ==
  /\ keysTyped < Len(Keys)
  /\ keysTyped' = keysTyped + 1
  /\ fifo' = IF Len(fifo) < RxDepth THEN Append(fifo, Keys[keysTyped + 1])
             ELSE fifo
  /\ UNCHANGED <<halter, holder, pc, outputVars, lastRead, heard, number,
                 numbers, scans, switchVars>>

uart_scanf(t) ==
  /\ Goes(t, "idle", "scan")
  /\ scans < MaxScans
  /\ scans' = scans + 1
  /\ UNCHANGED <<halter, holder, outputVars, keysTyped, fifo, lastRead,
                 heard, number, numbers, switchVars>>

LockInput(t) ==
  /\ Goes(t, "scan", "get")
  /\ Takes(t, "uart")
  /\ number' = [number EXCEPT ![t] = <<>>]
  /\ UNCHANGED <<halter, outputVars, keysTyped, fifo, lastRead, heard,
                 numbers, scans, switchVars>>

\* uart_recv() waits for a character, with the lock.
Received == IF fifo = <<>> THEN {} ELSE {Head(fifo)}

\* vfscanf() takes a character: first the one it gave back.
NextCharacter(c) ==
  \/ /\ lastRead = <<c>>
     /\ UNCHANGED <<fifo, heard>>
  \/ /\ lastRead = <<>> /\ c \in Received
     /\ fifo' = Tail(fifo)
     /\ heard' = Heard(c)

\* Spaces before the number are skipped; the one after it is given back.
GetCharacter(t) ==
  /\ Runs(t) /\ pc[t] = "get"
  /\ \E c \in Received \cup ToSet(lastRead) :
       /\ NextCharacter(c)
       /\ \/ /\ c # Space
             /\ number' = [number EXCEPT ![t] = Append(@, c)]
             /\ lastRead' = <<>>
             /\ UNCHANGED <<pc, numbers>>
          \/ /\ c = Space /\ number[t] = <<>>
             /\ lastRead' = <<>>
             /\ UNCHANGED <<pc, number, numbers>>
          \/ /\ c = Space /\ number[t] # <<>>
             /\ lastRead' = <<c>>
             /\ numbers' = Append(numbers, number[t])
             /\ number' = [number EXCEPT ![t] = <<>>]
             /\ pc' = [pc EXCEPT ![t] = "got"]
  /\ UNCHANGED <<halter, holder, outputVars, keysTyped, scans, switchVars>>

EndScan(t) ==
  /\ Goes(t, "got", "idle")
  /\ Gives(t, "uart")
  /\ UNCHANGED <<halter, consoleVars>>

-----------------------------------------------------------------------------
(* Clicks *)

Switch == {"go", "stop"}

\* A contact bounces: it may close several times for one press.
Contact(switch) ==
  /\ \/ switch \in down /\ down' = down \ {switch} /\ UNCHANGED presses
     \/ /\ switch \notin down /\ down' = down \cup {switch}
        /\ presses < MaxPresses /\ presses' = presses + 1
  /\ UNCHANGED <<halter, holder, pc, outputVars, inputVars, wanted, clicks>>

Clicks(t, switches) ==
  /\ t = Clicker /\ clicks < MaxClicks
  /\ Goes(t, "idle", "click")
  /\ wanted' = switches
  /\ UNCHANGED <<halter, holder, outputVars, inputVars, down, presses, clicks>>

go_click(t) == Clicks(t, {"go"})

stop_click(t) == Clicks(t, {"stop"})

\* The switch it answers is looked at once more, which nothing here tells apart.
either_click(t) == Clicks(t, Switch)

\* while (!SWITCH_GO()), and the delay of 100 us.
Pressed(t) ==
  /\ Goes(t, "click", "pressed")
  /\ wanted \cap down # {}
  /\ UNCHANGED <<halter, holder, consoleVars>>

\* Mutant: the click does not wait for the release.
StillDown == TRUE

Released == wanted \cap down = {}

\* while (SWITCH_GO())
ClickEnds(t) ==
  /\ Goes(t, "pressed", "idle")
  /\ Released
  /\ clicks' = clicks + 1
  /\ UNCHANGED <<halter, holder, outputVars, inputVars, down, wanted, presses>>

-----------------------------------------------------------------------------

ConsoleNext ==
  \/ Types
  \/ \E switch \in Switch : Contact(switch)
  \/ \E t \in Thread :
       \/ uart_printf(t) \/ waitForClick(t) \/ LockOutput(t) \/ PutCharacter(t)
       \/ EndPrint(t) \/ ConsolePanic(t) \/ PanicPrints(t)
       \/ uart_scanf(t) \/ LockInput(t) \/ GetCharacter(t) \/ EndScan(t)
       \/ go_click(t) \/ stop_click(t) \/ either_click(t)
       \/ Pressed(t) \/ ClickEnds(t)

-----------------------------------------------------------------------------
(* Properties *)

\* What one call prints is not mixed with what another does, in uart_vprintf()
\* or in panic_P(): what was sent is the texts in the order in which their
\* callers got the lock, the last perhaps in part, and the text that a panic
\* cut off.
TextsAreWhole ==
  /\ IsPrefix(sent, expected)
  /\ holder["uart"] = Nobody /\ halter = Nobody => sent = expected

\* After a panic its text is the last thing on the line, and all of it is there
\* when the board stops.
PanicIsTold ==
  \A t \in Thread : pc[t] = "halted" => IsSuffix(Wire(PanicText), sent)

\* Two threads that scan do not share out the digits of one number: the scans
\* return the numbers on the line, each whole and in order, as far as the
\* receiver had room for them.
NumbersAreWhole == numbers = heard.done

\* Each click takes a press of its own: a switch that is held is one click, and
\* either_click() with both switches pressed, in any order, is one too.
OneClickAPress == clicks <= presses
=============================================================================
