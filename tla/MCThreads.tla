----------------------------- MODULE MCThreads -----------------------------
(* Small instances of Threads for TLC. *)
EXTENDS Threads

MCDelays == {0, 1, 2}
MCShortDelays == {1}
=============================================================================
