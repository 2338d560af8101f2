----------------------------- MODULE MCDrivers ------------------------------
(***************************************************************************)
(* Small instances of the drivers for TLC: the constants of Drivers that a *)
(* .cfg cannot write. The bounds are explained in README.md.               *)
(***************************************************************************)
EXTENDS Drivers

MCUses == <<{24}, {25}>>
MCMaxResets == [e \in 24 .. 25 |-> 25 - e]
MCVelocities == {-5}
MCAsks == [t1 |-> {"adc1", "rf", "flash", "adc"},
           t2 |-> {"adc2", "motor", "adc"}, t3 |-> {"rf"}]
MCDegrees == {-5}
MCConTexts == [t1 |-> <<11, 10>>, t2 |-> <<21, 22>>]
MCConPanicText == <<31, 32>>
MCKeys == <<1, 2, 0, 3>>
MCStrings == {<<1, 2, 3>>, <<4, 0, 0>>, <<5, 6, 0>>}
MCBlock == {<<7, 32, 48, 8>>, <<9>>}
MCLcdTexts == {<<"a">>, <<"b", "a", "b">>, <<"newline">>, <<"newline", "b">>}
MCLcdPanicText == <<"b", "b", "a">>
=============================================================================
