----------------------------- MODULE MCEncoders -----------------------------
(* Two threads that use one encoder, for TLC. *)
EXTENDS Encoders

MCShared == <<{24}, {24}>>
MCResets == [e \in {24} |-> 1]
=============================================================================
