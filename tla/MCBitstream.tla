---------------------------- MODULE MCBitstream -----------------------------
(* Small instances of Bitstream for TLC. *)
EXTENDS Bitstream

MCRaw == UNION {[1 .. n -> {1, 13}] : n \in 1 .. 8}
MCInstalled == <<1, 1, 13, 2>>

Spec == BitInit /\ [][BitNext]_bitVars
=============================================================================
