------------------------------ MODULE TaskStore ------------------------------
(***************************************************************************)
(* What the planned-broadcast store promises, without its threads, queues, *)
(* copies and transactions: a plan that was submitted is stored once or    *)
(* not at all, and then with all its tasks at once, at the times planned,  *)
(* under numbers that were never used before; a task leaves when its time  *)
(* has come or because the operator asked for it, and no other task leaves *)
(* with it.                                                                *)
(* BroadcastTasks implements this module.                                  *)
(***************************************************************************)
EXTENDS Integers, Sequences

CONSTANTS
    Setting,   \* plans an operator may submit: [start, gap, times, stations]
    Half       \* offsets from here on may be wrong: the client has no int for them

VARIABLES
    now,       \* the time
    table,     \* the tasks stored: [id, time, stations, plan]
    issued,    \* the last number handed out to a task
    plans,     \* the plans submitted
    waiting,   \* the plans submitted that are not stored and not given up
    asked      \* the tasks the operator has asked to remove

vars == <<now, table, issued, plans, waiting, asked>>

Init ==
    /\ now = 0 /\ table = {} /\ issued = 0
    /\ plans = <<>> /\ waiting = {} /\ asked = {}

Submit ==
    /\ \E s \in Setting : plans' = Append(plans, s)
    /\ waiting' = waiting \cup {Len(plans) + 1}
    /\ UNCHANGED <<now, table, issued, asked>>

\* The tasks in new are those of plan p, under the next numbers, one for each, at
\* the times of the plan.
AreTheTasksOf(p, new) ==
    /\ {r.id : r \in new} = (issued + 1)..(issued + plans[p].times)
    /\ \A r, q \in new : r.id = q.id => r = q
    /\ \A r \in new : r.plan = p /\ r.stations = plans[p].stations
    /\ \A r \in new : LET offset == (r.id - issued - 1) * plans[p].gap
                      IN  offset < Half => r.time = plans[p].start + offset

Store(p) ==
    /\ waiting' = waiting \ {p}
    /\ table \subseteq table' /\ AreTheTasksOf(p, table' \ table)
    /\ issued' = issued + plans[p].times
    /\ UNCHANGED <<now, plans, asked>>

Ask(i) ==
    /\ asked' = asked \cup {i}
    /\ UNCHANGED <<now, table, issued, plans, waiting>>

\* Another request for the same task may remain.
Remove(i) ==
    /\ i \in asked \/ \E r \in table : r.id = i /\ r.time <= now
    /\ table' = {r \in table : r.id # i}
    /\ asked' \in {asked, asked \ {i}}
    /\ UNCHANGED <<now, issued, plans, waiting>>

\* Requests are answered without effect, fail, or are lost with the client.
GiveUp ==
    /\ waiting' \subseteq waiting /\ asked' \subseteq asked
    /\ UNCHANGED <<now, table, issued, plans>>

Tick ==
    /\ now' = now + 1
    /\ UNCHANGED <<table, issued, plans, waiting, asked>>

Next ==
    \/ Submit \/ GiveUp \/ Tick
    \/ \E p \in waiting : Store(p)
    \/ \E i \in 1..issued : Ask(i) \/ Remove(i)

Spec == Init /\ [][Next]_vars
=============================================================================
