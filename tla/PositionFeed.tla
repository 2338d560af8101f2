---------------------------- MODULE PositionFeed ----------------------------
(***************************************************************************)
(* What the robot's program may rely on about the positions it is sent:    *)
(* it sees whole packets, never a mixture, and never goes back to an       *)
(* earlier one.  A packet is known by the numbers of the packets its       *)
(* two positions come from.                                                *)
(***************************************************************************)
EXTENDS Naturals

VARIABLES
  latest,     \* the positions last accepted from the radio
  copied,     \* the copy of them the position daemon took last
  seen        \* what the accessors return

Nothing == [us |-> 0, them |-> 0]

Init == latest = Nothing /\ copied = Nothing /\ seen = Nothing

\* A packet is accepted: positions are replaced by later ones or kept.
Accept ==
  /\ latest' \in [us : Nat, them : Nat]
  /\ latest'.us >= latest.us
  /\ latest'.them > latest.them
  /\ UNCHANGED <<copied, seen>>

Copy == copied' = latest /\ UNCHANGED <<latest, seen>>

Publish == seen' = copied /\ UNCHANGED <<latest, copied>>

Next == Accept \/ Copy \/ Publish

Spec == Init /\ [][Next]_<<latest, copied, seen>>
=============================================================================
