-------------------------- MODULE MCWidgetRegistry --------------------------
(***************************************************************************)
(* Instances of WidgetRegistry for TLC.                                    *)
(***************************************************************************)
EXTENDS WidgetRegistry

CONSTANTS c, b, d, e, joined

MCExt         == {c, b, d, e}
MCBroadcaster == {b, d, e}

\* All, or one station only: lists without a station and empty ones occur.
MCAtStart     == {MCExt, {b}}

\* The names of a stored task: numbers, or the text of several numbers.
MCName == {c, b, d, e, joined}
=============================================================================
