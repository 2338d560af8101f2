----------------------------- MODULE TextScreen -----------------------------
(***************************************************************************)
(* What lcd.h promises: the LCD is one line of Size characters; a newline  *)
(* makes the next character clear it.  Nothing is promised of what is      *)
(* shown (known = FALSE) after a reset or after the display was written to *)
(* behind the driver's back, until it is cleared.                          *)
(***************************************************************************)
EXTENDS Naturals, Sequences

CONSTANTS Size, Newline, Blank

VARIABLES
  text,       \* what is still to be printed
  shown, cursor, clearing, known

screenVars == <<text, shown, cursor, clearing, known>>

Cleared == [p \in 0 .. Size - 1 |-> Blank]

ScreenInit == known = FALSE /\ text = <<>>

AskToPrint == /\ text = <<>> /\ text' # <<>>
              /\ UNCHANGED <<shown, cursor, clearing, known>>

PrintOne ==
  LET ch == Head(text)
      before == IF clearing THEN Cleared ELSE shown
      p == IF clearing THEN 0 ELSE cursor % Size
  IN
  /\ text # <<>> /\ text' = Tail(text)
  /\ known' = (known \/ clearing)
  /\ clearing' = (ch = Newline)
  /\ cursor' = IF ch = Newline THEN p ELSE p + 1
  /\ known' => shown' = IF ch = Newline THEN before
                        ELSE [before EXCEPT ![p] = ch]

MoveTo(p) ==
  /\ cursor' = p
  /\ UNCHANGED <<text, clearing, known>>
  /\ known => UNCHANGED shown

Clear == /\ shown' = Cleared /\ cursor' = 0 /\ known' = TRUE
         /\ UNCHANGED clearing
         /\ text # text' => text' # <<>>   \* a panic prints something

Start == /\ text = <<>> /\ text' = <<>>
         /\ shown' = Cleared /\ cursor' = 0 /\ known' = TRUE
         /\ clearing' = FALSE

Disturb == known' = FALSE

ScreenNext == \/ AskToPrint \/ PrintOne
              \/ \E p \in 0 .. Size : MoveTo(p)
              \/ Clear \/ Start \/ Disturb

ScreenSpec == ScreenInit /\ [][ScreenNext]_screenVars
=============================================================================
