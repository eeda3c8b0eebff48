----------------------------- MODULE MCKeying -----------------------------
(***************************************************************************)
(* An instance of Keying for TLC: the center, a call station and a         *)
(* broadcast station.                                                      *)
(***************************************************************************)
EXTENDS Keying

CONSTANTS c, s, b
=============================================================================
