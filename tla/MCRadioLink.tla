---------------------------- MODULE MCRadioLink ----------------------------
(* Small instances of RadioLink for TLC. *)
EXTENDS RadioLink
=============================================================================
