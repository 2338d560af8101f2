------------------------------ MODULE MCLocks ------------------------------
(* Small instances of Locks for TLC. *)
EXTENDS Locks

MCShortDelays == {1}
=============================================================================
