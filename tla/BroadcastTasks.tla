--------------------------- MODULE BroadcastTasks ---------------------------
(***************************************************************************)
(* The planned-broadcast store of the VHF client: zchxBroadcastTaskMgr     *)
(* (its own thread, a 10 s timer), DBServices (its own thread, fed by      *)
(* queued signals), the SQLite table behind it, and the task list the      *)
(* operator sees and deletes from.                                         *)
(*                                                                         *)
(* The database is the truth; mTasklist is a copy of it that the manager   *)
(* scans; the list on the screen is a copy of that copy.  All three are    *)
(* updated by different threads, so each may be behind the one before it.  *)
(***************************************************************************)
EXTENDS Integers, FiniteSets, Sequences

CONSTANTS
    Station,     \* extension numbers of the coast stations
    Setting,     \* plans an operator may submit: [start, gap, times, stations]
    Half,        \* 2^(w-1) for the int in which the offset of a task is computed
    Window,      \* 10 * TASK_CHECK_INTERVAL: how late a task may still be played
    MinGap,      \* shortest and longest time between the starts of two runs of
    MaxGap,      \* slotCheckTaskBroadcastNow
    MaxTime,     \* bound: last value of the clock
    MaxPlans,    \* bound: plans submitted
    MaxQueue,    \* bound: no check or user request starts with a longer queue
    MaxLists,    \* bound: task lists on their way to the screen
    MaxFaults,   \* bound: failures and crashes of one behaviour
    Fault        \* the failures considered

FaultKind == {"init", "insert", "delete", "query", "crash"}

\* controlwindow.cpp:540 takes no plan without a task.
ASSUME SettingAssumption ==
    Setting \subseteq [start : Int, gap : Nat, times : Nat \ {0}, stations : SUBSET Station]
\* A task that has become due is checked before it is late: the timer fires every
\* tenth part of Window.
ASSUME BoundAssumption ==
    /\ Half \in Nat \ {0}
    /\ Window \in Nat /\ MinGap \in Nat /\ MaxGap \in Nat /\ MinGap <= MaxGap
    /\ MaxGap <= Window + 1
    /\ MaxTime \in Nat /\ MaxPlans \in Nat /\ MaxQueue \in Nat /\ MaxLists \in Nat
    /\ MaxFaults \in Nat
    /\ Fault \subseteq FaultKind

VARIABLES
    now,         \* QDateTime::currentMSecsSinceEpoch
    up,          \* the client is running
    rows,        \* the broadcast_task table (survives a crash)
    lastId,      \* the AUTOINCREMENT counter of the table (survives a crash)
    dbQueue,     \* signals queued for the DBServices thread
    dbPc,        \* where that thread is: idle, insert, refresh
    txn,         \* the transaction of updateBroadTaskList
    cache,       \* DBServices::mTasklist
    initSignal,  \* signalDbInitFinished is queued for the manager
    checking,    \* the manager is inside slotCheckTaskBroadcastNow
    taken,       \* its local list "total"
    jobs,        \* its local list "jobs"
    lastCheck,   \* its local "cur": when the last check started
    lists,       \* signalSendTaskList values queued for the window
    shown,       \* the rows of ui->tableWidget
    choice,      \* the row the operator was asked to confirm the deletion of
    plans,       \* history: the settings submitted
    played,      \* history: ids whose broadcast was emitted at least once
    excused,     \* history: ids whose removal failed or was lost in a crash
    since,       \* history: when each listed id (last) entered mTasklist
    faults       \* how many faults have happened

dbVars  == <<rows, lastId, dbPc, txn, cache, since>>
mgrVars == <<initSignal, checking, taken, jobs, lastCheck, played>>
guiVars == <<shown, choice>>
vars    == <<now, up, rows, lastId, dbQueue, dbPc, txn, cache, initSignal, checking,
             taken, jobs, lastCheck, lists, shown, choice, plans, played, excused,
             since, faults>>

-----------------------------------------------------------------------------
(* Data *)

\* A task as slotRecvTaskSetting makes it, and as a row of the table.  The
\* stations are joined into one text by updateBroadTaskList.
Task == [time : Int, stations : SUBSET Station, plan : Nat]
Row  == [id : Nat, time : Int, stations : SUBSET Station, plan : Nat]

\* A task as the rest of the program sees it: mBroadExtIdList is a list of
\* names.  A name is the set of the extension numbers its text holds, so "a"
\* is {a} and the text "a,b" is {a, b}.
Listed == [id : Nat, time : Int, names : SUBSET (SUBSET Station), plan : Nat]

Ids(S)     == {r.id : r \in S}
Earliest(S) == {t \in S : \A u \in S : t.time <= u.time}

\* The loop of slotRecvTaskSetting: mStartTime + i * mTimeGap * 1000, where the
\* product is an int.  A build may keep the product in 64 bits or let it wrap.
Wrap(x) == ((x + Half) % (2 * Half)) - Half
Offset(x, wraps) == IF wraps THEN Wrap(x) ELSE x
TasksOf(s, p, wraps) ==
    [i \in 1..s.times |->
        [time |-> s.start + Offset((i - 1) * s.gap, wraps),
         stations |-> s.stations, plan |-> p]]

\* Mutant of ReadBack: two columns are mixed up.
ReadBackSwapped(r) == [id |-> r.time, time |-> r.id, names |-> {r.stations}, plan |-> r.plan]

\* queryBroadcastTaskList: toStringList() on the text column is a list of one
\* name, the whole text.
ReadBack(r) == [id |-> r.id, time |-> r.time, names |-> {r.stations}, plan |-> r.plan]

NoTxn == [todo |-> <<>>, added |-> {}, seq |-> 0]

Init_Req  == [op |-> "init"]
Query_Req == [op |-> "query"]
InsertReq(tasks) == [op |-> "insert", tasks |-> tasks]
RemoveReq(t, by) == [op |-> "remove", task |-> t, by |-> by]

Request == [op : {"init", "query"}]
           \cup [op : {"insert"}, tasks : Seq(Task)]
           \cup [op : {"remove"}, task : Listed, by : {"check", "user"}]

\* The tasks whose removal is asked for by a signal still in the queue.
Removals(q) == {q[i].task : i \in {j \in DOMAIN q : q[j].op = "remove"}}
PendingRemovals == Removals(dbQueue)

Fails(kind) == kind \in Fault /\ faults < MaxFaults /\ faults' = faults + 1

-----------------------------------------------------------------------------
Init ==
    /\ now = 0 /\ up = TRUE
    /\ rows = {} /\ lastId = 0
    /\ dbQueue = <<Init_Req>> /\ dbPc = "idle" /\ txn = NoTxn
    /\ cache = {} /\ since = [i \in {} |-> 0]
    /\ initSignal = FALSE /\ checking = FALSE
    /\ taken = {} /\ jobs = {} /\ lastCheck = 0
    /\ lists = <<>> /\ shown = {} /\ choice = {}
    /\ plans = <<>> /\ played = {} /\ excused = {} /\ faults = 0

-----------------------------------------------------------------------------
(* The DBServices thread *)

Serves(op) == up /\ dbPc = "idle" /\ dbQueue # <<>> /\ Head(dbQueue).op = op

\* slotInitDBTables: the manager is told only when the table is there.
DbInit ==
    /\ Serves("init")
    /\ dbQueue' = Tail(dbQueue)
    /\ \/ initSignal' = TRUE /\ UNCHANGED faults
       \/ Fails("init") /\ UNCHANGED initSignal
    /\ UNCHANGED <<now, up, dbVars, checking, taken, jobs, lastCheck, played, lists,
                   guiVars, plans, excused>>

\* Mutant of LastIssued: PRIMARY KEY without AUTOINCREMENT.
LargestInUse ==
    CHOOSE i \in Ids(rows) \cup {0} : \A r \in rows : r.id <= i

\* The id column is AUTOINCREMENT: SQLite goes on from the last id it handed out.
LastIssued == lastId

\* slotInsertTaskList / updateBroadTaskList: open the transaction,
DbBeginInsert ==
    /\ Serves("insert")
    /\ dbQueue' = Tail(dbQueue)
    /\ dbPc' = "insert"
    /\ txn' = [todo |-> Head(dbQueue).tasks, added |-> {}, seq |-> LastIssued]
    /\ UNCHANGED <<now, up, rows, lastId, cache, since, mgrVars, lists, guiVars,
                   plans, excused, faults>>

\* insert the tasks one by one (SQLite hands out the next id),
DbInsertRow ==
    /\ up /\ dbPc = "insert" /\ txn.todo # <<>>
    /\ LET t == Head(txn.todo) IN
       txn' = [todo  |-> Tail(txn.todo),
               added |-> txn.added \cup {[id |-> txn.seq + 1, time |-> t.time,
                                          stations |-> t.stations, plan |-> t.plan]},
               seq   |-> txn.seq + 1]
    /\ UNCHANGED <<now, up, rows, lastId, dbPc, dbQueue, cache, since, mgrVars, lists,
                   guiVars, plans, excused, faults>>

\* Mutant of DbInsertFails: the rows inserted so far are kept.
DbInsertKeeps ==
    /\ up /\ dbPc = "insert"
    /\ Fails("insert")
    /\ rows' = rows \cup txn.added /\ lastId' = txn.seq
    /\ txn' = NoTxn /\ dbPc' = "refresh"
    /\ UNCHANGED <<now, up, dbQueue, cache, since, mgrVars, lists, guiVars, plans, excused>>

\* roll everything back if one insert fails.  A commit that fails (its result is
\* ignored, SQLite has rolled back, and with one connection nobody locks the
\* file) does the same,
DbInsertFails ==
    /\ up /\ dbPc = "insert"
    /\ Fails("insert")
    /\ txn' = NoTxn /\ dbPc' = "refresh"
    /\ UNCHANGED <<now, up, rows, lastId, dbQueue, cache, since, mgrVars, lists,
                   guiVars, plans, excused>>

\* or commit.  Either way the list is queried next, in the same slot.
DbCommit ==
    /\ up /\ dbPc = "insert" /\ txn.todo = <<>>
    /\ rows' = rows \cup txn.added
    /\ lastId' = txn.seq
    /\ txn' = NoTxn /\ dbPc' = "refresh"
    /\ UNCHANGED <<now, up, dbQueue, cache, since, mgrVars, lists, guiVars, plans,
                   excused, faults>>

\* Mutant of Without: the smallest id counts as no id.
WithoutOrWiped(id) == IF id > 1 THEN {r \in rows : r.id # id} ELSE {}

\* delBroadcastTask: without a positive id the where clause is empty.
Without(id) == IF id > 0 THEN {r \in rows : r.id # id} ELSE {}

\* Mutant of DbRemove: the list is not queried again.
DbRemoveOnly ==
    /\ Serves("remove")
    /\ rows' = Without(Head(dbQueue).task.id)
    /\ dbQueue' = Tail(dbQueue)
    /\ UNCHANGED <<now, up, lastId, dbPc, txn, cache, since, mgrVars, lists, guiVars,
                   plans, excused, faults>>

\* slotRemoveTask: the list is queried next whether the delete worked or not.
DbRemove ==
    /\ Serves("remove")
    /\ LET id == Head(dbQueue).task.id IN
       \/ /\ rows' = Without(id)
          /\ UNCHANGED <<excused, faults>>
       \/ /\ Fails("delete")
          /\ excused' = excused \cup {id}
          /\ UNCHANGED rows
    /\ dbQueue' = Tail(dbQueue)
    /\ dbPc' = "refresh"
    /\ UNCHANGED <<now, up, lastId, txn, cache, since, mgrVars, lists, guiVars, plans>>

DbQuery ==
    /\ Serves("query")
    /\ dbQueue' = Tail(dbQueue)
    /\ dbPc' = "refresh"
    /\ UNCHANGED <<now, up, rows, lastId, txn, cache, since, mgrVars, lists, guiVars,
                   plans, excused, faults>>

\* slotQueryTaskList, under mTaskMutex: clear, select, send the list on.
DbRefresh ==
    /\ up /\ dbPc = "refresh" /\ Len(lists) < MaxLists
    /\ \/ cache' = {ReadBack(r) : r \in rows} /\ UNCHANGED faults
       \/ cache' = {} /\ Fails("query")
    /\ since' = [i \in Ids(cache') |-> IF i \in Ids(cache) THEN since[i] ELSE now]
    /\ lists' = Append(lists, cache')
    /\ dbPc' = "idle"
    /\ UNCHANGED <<now, up, rows, lastId, txn, dbQueue, mgrVars, guiVars, plans, excused>>

-----------------------------------------------------------------------------
(* The manager thread *)

\* slotDBInitFinished -> updateTask.
MgrDBInitFinished ==
    /\ up /\ ~checking /\ initSignal
    /\ initSignal' = FALSE
    /\ dbQueue' = Append(dbQueue, Query_Req)
    /\ UNCHANGED <<now, up, dbVars, checking, taken, jobs, lastCheck, played, lists,
                   guiVars, plans, excused, faults>>

\* Mutant of MgrRecvTaskSetting: the signal is connected twice.
MgrRecvTaskSettingTwice ==
    /\ up /\ ~checking /\ Len(plans) < MaxPlans
    /\ \E s \in Setting, wraps \in BOOLEAN :
          /\ plans' = Append(plans, s)
          /\ LET request == InsertReq(TasksOf(s, Len(plans) + 1, wraps)) IN
             dbQueue' = dbQueue \o <<request, request>>
    /\ UNCHANGED <<now, up, dbVars, mgrVars, lists, guiVars, excused, faults>>

\* slotRecvTaskSetting for Task_Planning.  A Task_Immediately setting is emitted at
\* once and reaches neither the table nor any of its copies.
MgrRecvTaskSetting ==
    /\ up /\ ~checking /\ Len(plans) < MaxPlans
    /\ \E s \in Setting, wraps \in BOOLEAN :
          /\ plans' = Append(plans, s)
          /\ dbQueue' = Append(dbQueue, InsertReq(TasksOf(s, Len(plans) + 1, wraps)))
    /\ UNCHANGED <<now, up, dbVars, mgrVars, lists, guiVars, excused, faults>>

\* slotCheckTaskBroadcastNow: read the clock and copy mTasklist under the mutex,
CheckTake ==
    /\ up /\ ~checking /\ Len(dbQueue) < MaxQueue
    /\ now - lastCheck >= MinGap \/ now = MaxTime
    /\ checking' = TRUE /\ lastCheck' = now
    /\ taken' = cache /\ jobs' = {}
    /\ UNCHANGED <<now, up, dbVars, dbQueue, initSignal, played, lists, guiVars, plans,
                   excused, faults>>

\* Mutant of IsLate: no window.
IsLateAtOnce(t) == lastCheck > t.time

IsLate(t) == lastCheck - t.time > Window

\* Mutants of AskRemoval: only the late tasks, only the tasks to be played.
AskRemovalIfLate(t) == IF IsLate(t) THEN Append(dbQueue, RemoveReq(t, "check")) ELSE dbQueue
AskRemovalIfJob(t)  == IF IsLate(t) THEN dbQueue ELSE Append(dbQueue, RemoveReq(t, "check"))

AskRemoval(t) == Append(dbQueue, RemoveReq(t, "check"))

\* take the first task off while it is due, keeping it as a job unless it is
\* more than Window late, and asking for its removal in both cases,
CheckNext ==
    /\ up /\ checking
    /\ \E t \in Earliest(taken) :
          /\ t.time <= lastCheck
          /\ jobs' = IF IsLate(t) THEN jobs ELSE jobs \cup {t}
          /\ dbQueue' = AskRemoval(t)
          /\ taken' = taken \ {t}
    /\ UNCHANGED <<now, up, dbVars, initSignal, checking, lastCheck, played, lists,
                   guiVars, plans, excused, faults>>

\* stop at the first task of the future, when only such are left, and emit the jobs.
CheckEnd ==
    /\ up /\ checking
    /\ \A t \in taken : t.time > lastCheck
    /\ played' = played \cup Ids(jobs)
    /\ checking' = FALSE /\ taken' = {} /\ jobs' = {}
    /\ UNCHANGED <<now, up, dbVars, dbQueue, initSignal, lastCheck, lists, guiVars,
                   plans, excused, faults>>

-----------------------------------------------------------------------------
(* The window *)

\* slotRecvTotalBroadTaskList; it also runs while the question box is open.
GuiShow ==
    /\ up /\ lists # <<>>
    /\ shown' = Head(lists) /\ lists' = Tail(lists)
    /\ UNCHANGED <<now, up, dbVars, dbQueue, mgrVars, choice, plans, excused, faults>>

\* on_task_del_clicked: the id is read before the operator is asked,
GuiAskDelete ==
    /\ up /\ choice = {}
    /\ \E t \in shown : choice' = {t}
    /\ UNCHANGED <<now, up, dbVars, dbQueue, mgrVars, lists, shown, plans, excused, faults>>

\* and the answer may come when the list has changed.
GuiAnswer ==
    /\ up /\ choice # {}
    /\ choice' = {}
    /\ \/ UNCHANGED dbQueue
       \/ /\ Len(dbQueue) < MaxQueue
          /\ \E t \in choice : dbQueue' = Append(dbQueue, RemoveReq(t, "user"))
    /\ UNCHANGED <<now, up, dbVars, mgrVars, lists, shown, plans, excused, faults>>

-----------------------------------------------------------------------------
(* The surroundings *)

\* The timer makes the manager check at least every MaxGap while it runs.
TimePasses ==
    /\ now < MaxTime
    /\ up => now - lastCheck < MaxGap
    /\ now' = now + 1
    /\ UNCHANGED <<up, dbVars, dbQueue, mgrVars, lists, guiVars, plans, excused, faults>>

\* The client is killed: everything but the database file is gone, a
\* transaction that was not committed included.
Crash ==
    /\ up /\ Fails("crash")
    /\ up' = FALSE
    /\ excused' = excused \cup Ids(PendingRemovals)
    /\ dbQueue' = <<>> /\ dbPc' = "idle" /\ txn' = NoTxn /\ cache' = {} /\ since' = [i \in {} |-> 0]
    /\ initSignal' = FALSE /\ checking' = FALSE /\ taken' = {} /\ jobs' = {}
    /\ lists' = <<>> /\ shown' = {} /\ choice' = {}
    /\ UNCHANGED <<now, rows, lastId, lastCheck, plans, played>>

\* zchxBroadcastTaskMgr is constructed again: signalInitDBTables, timer started.
Start ==
    /\ ~up
    /\ up' = TRUE
    /\ dbQueue' = <<Init_Req>>
    /\ lastCheck' = now
    /\ UNCHANGED <<now, dbVars, initSignal, checking, taken, jobs, played, lists,
                   guiVars, plans, excused, faults>>

-----------------------------------------------------------------------------
DbStep  == \/ DbInit \/ DbBeginInsert \/ DbInsertRow \/ DbInsertFails \/ DbCommit
           \/ DbRemove \/ DbQuery \/ DbRefresh
MgrStep == MgrDBInitFinished \/ MgrRecvTaskSetting \/ CheckTake \/ CheckNext \/ CheckEnd
GuiStep == GuiShow \/ GuiAskDelete \/ GuiAnswer

Next == DbStep \/ MgrStep \/ GuiStep \/ TimePasses \/ Crash \/ Start

Spec == Init /\ [][Next]_vars

\* Qt delivers every queued signal to a thread whose loop runs, the timer keeps
\* firing, the watchdog restarts a client that is gone, and time goes on.
Fairness ==
    /\ WF_vars(DbStep)
    /\ SF_vars(MgrDBInitFinished)
    /\ SF_vars(CheckTake) /\ WF_vars(CheckNext) /\ WF_vars(CheckEnd)
    /\ WF_vars(GuiShow)
    /\ WF_vars(TimePasses) /\ WF_vars(Start)

FairSpec == Spec /\ Fairness

-----------------------------------------------------------------------------
(* Properties *)

\* Every variable holds a value of its type.
TypeOK ==
    /\ now \in Nat /\ up \in BOOLEAN /\ lastCheck \in Nat /\ faults \in Nat
    /\ rows \subseteq Row /\ lastId \in Nat
    /\ dbQueue \in Seq(Request)
    /\ dbPc \in {"idle", "insert", "refresh"}
    /\ txn \in [todo : Seq(Task), added : SUBSET Row, seq : Nat]
    /\ cache \subseteq Listed /\ taken \subseteq Listed /\ jobs \subseteq Listed
    /\ shown \subseteq Listed /\ choice \subseteq Listed
    /\ initSignal \in BOOLEAN /\ checking \in BOOLEAN
    /\ lists \in Seq(SUBSET Listed)
    /\ plans \in Seq(Setting)
    /\ played \subseteq Nat /\ excused \subseteq Nat
    /\ since \in [Ids(cache) -> Nat]

\* The tasks held in the lists on their way to the screen.
InLists(ls) == UNION {ls[i] : i \in DOMAIN ls}

\* Every copy of a task that is held outside the table: by the manager's check,
\* by the list on the screen or on its way there, by the operator's open
\* question, or by a removal request.
Copies == cache \cup taken \cup jobs \cup shown \cup choice \cup PendingRemovals
          \cup InLists(lists)

\* An id that some thread still holds never names another task than the one the
\* thread saw: removals by a stale id (removeTask, on_task_del_clicked) cannot
\* delete a task that was planned later, not even across a restart.
IdsNameOneTask ==
    \A c \in Copies, r \in rows : c.id = r.id => c.time = r.time /\ c.plan = r.plan

\* Between two slots of the DBServices thread the list the manager scans holds
\* only tasks of the table: a removal that was processed is never followed by a
\* check that starts with the removed task (slotRemoveTask requeries itself).
CacheIsCurrent == dbPc = "idle" => cache \subseteq {ReadBack(r) : r \in rows}

\* The ids whose removal is asked for, or was interfered with by a fault.
Covered == Ids(PendingRemovals) \cup excused

\* A task that was broadcast is in the table only while its removal is queued,
\* unless that removal failed or was lost in a crash.  So without these faults a
\* second broadcast needs a DBServices thread that falls behind the timer.
PlayedIsBeingRemoved ==
    \A r \in rows : r.id \in played => r.id \in Covered

\* The time of row r has come, or the operator asked for the removal of r.
MayLeave(r) ==
    \/ r.time <= now
    \/ /\ dbQueue # <<>> /\ Head(dbQueue).op = "remove"
       /\ Head(dbQueue).by = "user" /\ Head(dbQueue).task.id = r.id

\* A task leaves the table only when its time has come or the operator asked
\* for the removal of this very task; no removal wipes the table.
LeavesOnlyWhenDue == [][\A r \in rows \ rows' : MayLeave(r)]_vars

\* The tasks of one plan reach the table all together or not at all, whichever
\* insert fails and whenever the client dies (updateBroadTaskList).
PlanIsAllOrNothing ==
    [][\A p \in DOMAIN plans :
          LET new == {r \in rows' \ rows : r.plan = p} IN
          new = {} \/ Cardinality(new) = plans[p].times]_vars

\* slotCheckTaskBroadcastNow drops a task that was never broadcast only if the
\* task entered mTasklist too late: planned late, after a restart, or after a
\* query that failed.
DropIsJustified ==
    [][\A t \in taken \ taken' :
          (checking' /\ t \notin jobs' /\ t.id \notin played /\ t.id \in DOMAIN since)
             => since[t.id] > t.time + Window - MaxGap]_vars

\* Ids the table can hold in a bounded model.
MaybeId == 1..MaxPlans * 2

\* A due task eventually leaves the table (every removal that fails is asked for
\* again by a later check), however often the client is restarted.
DueTasksLeave ==
    \A i \in MaybeId :
        (\E r \in rows : r.id = i /\ r.time <= MaxTime) ~> (i \notin Ids(rows))

\* vhfdatadefines.h:32 calls mBroadExtIdList the stations to broadcast on: what
\* is read back names the stations the operator ticked.
StationsSurviveTheStore ==
    \A t \in cache : t.names = {{s} : s \in plans[t.plan].stations}

-----------------------------------------------------------------------------
(* The promise of the store *)

\* The plans whose insertion is queued or under way.
PlansIn(tasks) == {tasks[i].plan : i \in DOMAIN tasks}
Inserts(q) == {i \in DOMAIN q : q[i].op = "insert"}
PlansQueued(q) == UNION {PlansIn(q[i].tasks) : i \in Inserts(q)}
PlansOf(t) == PlansIn(t.todo) \cup {r.plan : r \in t.added}
PlansWaiting == PlansQueued(dbQueue) \cup PlansOf(txn)

\* The ids whose removal the operator has asked for.
IdsAskedIn(q) ==
    {q[i].task.id : i \in {j \in DOMAIN q : q[j].op = "remove" /\ q[j].by = "user"}}
IdsAsked == IdsAskedIn(dbQueue)

Promise == INSTANCE TaskStore WITH
    table <- rows, issued <- lastId, waiting <- PlansWaiting, asked <- IdsAsked

\* The threads, the queue, the transaction and the restarts together do no more
\* than an atomic store: a plan is stored once and whole under new numbers, and
\* one removal takes one task, whose time has come or which the operator named.
StoreKeepsItsPromise == Promise!Spec

-----------------------------------------------------------------------------
(* The inductive invariant behind the safety properties *)

\* Every id in use was handed out by the counter, which never goes back.
IdsAreIssued ==
    /\ \A r \in rows : r.id \in 1..lastId
    /\ \A c \in Copies : c.id \in 1..lastId
    /\ played \subseteq 1..lastId

RowsAreDistinct == \A r, s \in rows : r.id = s.id => r = s

\* The ids of an open transaction are new and distinct.
TxnIsFresh ==
    dbPc = "insert" =>
        /\ txn.seq >= lastId
        /\ \A r \in txn.added : r.id \in (lastId + 1)..txn.seq
        /\ \A r, s \in txn.added : r.id = s.id => r = s

JobsAreBeingRemoved == \A r \in rows : r.id \in Ids(jobs) => r.id \in Covered

\* The manager asks only for the removal of tasks that are due.
IsDue(r, t) == r.op = "remove" /\ r.by = "check" => r.task.time <= t
ChecksAreDue ==
    /\ lastCheck <= now
    /\ \A i \in DOMAIN dbQueue : IsDue(dbQueue[i], now)

\* Nothing is queued in a client that does not run.
DownIsEmpty == ~up => dbQueue = <<>>

IInv ==
    /\ DownIsEmpty
    /\ TypeOK /\ IdsAreIssued /\ RowsAreDistinct /\ TxnIsFresh /\ ChecksAreDue
    /\ IdsNameOneTask /\ CacheIsCurrent /\ PlayedIsBeingRemoved /\ JobsAreBeingRemoved
=============================================================================
