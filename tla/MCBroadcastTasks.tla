-------------------------- MODULE MCBroadcastTasks --------------------------
(***************************************************************************)
(* Instances of BroadcastTasks for TLC.                                    *)
(***************************************************************************)
EXTENDS BroadcastTasks

CONSTANTS a, b

MCStation == {a, b}

\* Plans of two tasks: the second offset (2) overflows an int of Half = 2, or it
\* fits (1) and the first task is due at once.
MCSetting == {[start |-> 1, gap |-> 2, times |-> 2, stations |-> {a}],
              [start |-> 0, gap |-> 1, times |-> 2, stations |-> {a}]}

\* Plans of one task each.
MCSettingSingle == {[start |-> 1, gap |-> 1, times |-> 1, stations |-> {a}]}

\* The failures the program recovers from by itself.
MCRecoverable == {"insert", "delete", "crash"}

\* One plan for two stations.
MCSettingTwoStations == {[start |-> 1, gap |-> 1, times |-> 2, stations |-> {a, b}]}
=============================================================================
