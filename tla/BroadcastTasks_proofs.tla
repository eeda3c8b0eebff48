----------------------- MODULE BroadcastTasks_proofs ------------------------
(***************************************************************************)
(* Proofs about BroadcastTasks: no stale id ever deletes another task, the *)
(* scanned list is never ahead of the table, a broadcast task stays in the *)
(* table only while its removal is on the way, and a task leaves the table *)
(* only when it is due or the operator asked for it.                       *)
(***************************************************************************)
EXTENDS BroadcastTasks, TLAPS

-----------------------------------------------------------------------------
(* Queues *)

\* The removals of a queue to which a request is appended.
LEMMA RemovalsAppend ==
    ASSUME NEW q \in Seq(Request), NEW r \in Request
    PROVE  Removals(Append(q, r)) = IF r.op = "remove" THEN Removals(q) \cup {r.task}
                                    ELSE Removals(q)
<1>1. DOMAIN Append(q, r) = DOMAIN q \cup {Len(q) + 1}
    OBVIOUS
<1>2. \A i \in DOMAIN q : Append(q, r)[i] = q[i]
    OBVIOUS
<1>3. Append(q, r)[Len(q) + 1] = r
    OBVIOUS
<1>4. Len(q) + 1 \notin DOMAIN q
    OBVIOUS
<1> QED
    BY <1>1, <1>2, <1>3, <1>4 DEF Removals

\* The removals of a queue whose head is taken off.
LEMMA RemovalsTail ==
    ASSUME NEW q \in Seq(Request), q # <<>>
    PROVE  /\ Removals(Tail(q)) \subseteq Removals(q)
           /\ Head(q).op = "remove" =>
                /\ Head(q).task \in Removals(q)
                /\ Removals(q) = Removals(Tail(q)) \cup {Head(q).task}
           /\ Head(q).op # "remove" => Removals(Tail(q)) = Removals(q)
<1>1. DOMAIN q = 1..Len(q) /\ Len(q) \in Nat /\ Len(q) > 0
    OBVIOUS
<1>2. DOMAIN Tail(q) = 1..(Len(q) - 1)
    BY <1>1
<1>3. \A i \in 1..(Len(q) - 1) : Tail(q)[i] = q[i + 1]
    BY <1>1
<1>4. Head(q) = q[1]
    OBVIOUS
<1>5. \A i \in DOMAIN Tail(q) : i + 1 \in DOMAIN q
    BY <1>1, <1>2
<1>6. \A i \in DOMAIN q : i # 1 => i - 1 \in DOMAIN Tail(q) /\ q[i] = Tail(q)[i - 1]
    BY <1>1, <1>2, <1>3
<1>7. 1 \in DOMAIN q
    BY <1>1
<1>8. ASSUME NEW t \in Removals(Tail(q))
      PROVE  t \in Removals(q)
    <2>1. PICK i \in DOMAIN Tail(q) : Tail(q)[i].op = "remove" /\ t = Tail(q)[i].task
        BY <1>8 DEF Removals
    <2>2. i + 1 \in DOMAIN q /\ Tail(q)[i] = q[i + 1]
        BY <1>2, <1>3, <1>5
    <2> QED
        BY <2>1, <2>2 DEF Removals
<1>9. ASSUME NEW t \in Removals(q), t \notin Removals(Tail(q))
       PROVE  Head(q).op = "remove" /\ t = Head(q).task
    <2>1. PICK i \in DOMAIN q : q[i].op = "remove" /\ t = q[i].task
        BY <1>9 DEF Removals
    <2>2. i = 1
        BY <2>1, <1>6, <1>9 DEF Removals
    <2> QED
        BY <2>1, <2>2, <1>4
<1>10. Head(q).op = "remove" => Head(q).task \in Removals(q)
    BY <1>4, <1>7 DEF Removals
<1> QED
    BY <1>8, <1>9, <1>10

\* The lists on their way to the screen when one is appended.
LEMMA InListsAppend ==
    ASSUME NEW ls \in Seq(SUBSET Listed), NEW S \in SUBSET Listed
    PROVE  InLists(Append(ls, S)) = InLists(ls) \cup S
<1>1. DOMAIN Append(ls, S) = DOMAIN ls \cup {Len(ls) + 1}
    OBVIOUS
<1>2. \A i \in DOMAIN ls : Append(ls, S)[i] = ls[i]
    OBVIOUS
<1>3. Append(ls, S)[Len(ls) + 1] = S
    OBVIOUS
<1>4. Len(ls) + 1 \notin DOMAIN ls
    OBVIOUS
<1> QED
    BY <1>1, <1>2, <1>3, <1>4 DEF InLists

\* The same when one is taken off.
LEMMA InListsTail ==
    ASSUME NEW ls \in Seq(SUBSET Listed), ls # <<>>
    PROVE  InLists(Tail(ls)) \subseteq InLists(ls) /\ Head(ls) \subseteq InLists(ls)
<1>1. DOMAIN ls = 1..Len(ls) /\ Len(ls) \in Nat /\ Len(ls) > 0
    OBVIOUS
<1>2. \A i \in DOMAIN Tail(ls) : i + 1 \in DOMAIN ls /\ Tail(ls)[i] = ls[i + 1]
    BY <1>1
<1>3. Head(ls) = ls[1] /\ 1 \in DOMAIN ls
    BY <1>1
<1> QED
    BY <1>2, <1>3 DEF InLists

\* What is read back from a row is a listed task with its id, time and plan.
LEMMA ReadBackType ==
    \A r \in Row : /\ ReadBack(r) \in Listed
                   /\ ReadBack(r).id = r.id
                   /\ ReadBack(r).time = r.time
                   /\ ReadBack(r).plan = r.plan
    BY DEF ReadBack, Row, Listed

\* The generated tasks are tasks, whatever the width of int.
LEMMA TasksOfType ==
    ASSUME NEW s \in Setting, NEW p \in Nat, NEW w \in BOOLEAN
    PROVE  TasksOf(s, p, w) \in Seq(Task)
<1>1. /\ s.start \in Int /\ s.gap \in Nat /\ s.times \in Nat
      /\ s.stations \in SUBSET Station
    BY SettingAssumption
<1>2. \A x \in Int : Offset(x, w) \in Int
    <2>1. 2 * Half \in Nat /\ 2 * Half > 0 /\ Half \in Int
        BY BoundAssumption
    <2>2. \A x \in Int : (x + Half) % (2 * Half) \in Int
        BY <2>1
    <2> QED
        BY <2>1, <2>2 DEF Offset, Wrap
<1>3. \A i \in 1..s.times : (i - 1) * s.gap \in Int
    BY <1>1
<1>4. \A i \in 1..s.times : s.start + Offset((i - 1) * s.gap, w) \in Int
    BY <1>1, <1>2, <1>3
<1>5. TasksOf(s, p, w) \in [1..s.times -> Task]
    BY <1>1, <1>4 DEF TasksOf, Task
<1> QED
    BY <1>1, <1>5

\* The fields of the requests, and the requests the actions build.
LEMMA RequestFields ==
    /\ \A r \in Request : /\ r.op = "insert" => r.tasks \in Seq(Task)
                          /\ r.op = "remove" => r.task \in Listed
    /\ Init_Req \in Request /\ Query_Req \in Request
    /\ \A ts \in Seq(Task) : InsertReq(ts) \in Request
    /\ \A t \in Listed, by \in {"check", "user"} : RemoveReq(t, by) \in Request
<1>1. \A r \in Request : /\ r.op = "insert" => r.tasks \in Seq(Task)
                         /\ r.op = "remove" => r.task \in Listed
    <2>1. SUFFICES ASSUME NEW r \in Request
                   PROVE  /\ r.op = "insert" => r.tasks \in Seq(Task)
                          /\ r.op = "remove" => r.task \in Listed
        OBVIOUS
    <2>2. CASE r \in [op : {"init", "query"}]
        BY <2>2
    <2>3. CASE r \in [op : {"insert"}, tasks : Seq(Task)]
        BY <2>3
    <2>4. CASE r \in [op : {"remove"}, task : Listed, by : {"check", "user"}]
        BY <2>4
    <2> QED
        BY <2>2, <2>3, <2>4 DEF Request
<1>2. Init_Req \in Request /\ Query_Req \in Request
    BY DEF Init_Req, Query_Req, Request
<1>3. \A ts \in Seq(Task) : InsertReq(ts) \in Request
    BY DEF InsertReq, Request
<1>4. \A t \in Listed, by \in {"check", "user"} : RemoveReq(t, by) \in Request
    BY DEF RemoveReq, Request
<1> QED
    BY <1>1, <1>2, <1>3, <1>4

\* Taking the head off a queue leaves a queue.
LEMMA HeadTail ==
    ASSUME NEW S, NEW q \in Seq(S), q # <<>>
    PROVE  Head(q) \in S /\ Tail(q) \in Seq(S)
    OBVIOUS

-----------------------------------------------------------------------------
(* Types *)

\* The initial state is well typed.
LEMMA TypeInit == Init => TypeOK
<1> SUFFICES ASSUME Init PROVE TypeOK
    OBVIOUS
<1>1. dbQueue \in Seq(Request) /\ lists \in Seq(SUBSET Listed) /\ plans \in Seq(Setting)
    BY RequestFields DEF Init
<1>2. txn \in [todo : Seq(Task), added : SUBSET Row, seq : Nat]
    BY DEF Init, NoTxn
<1>3. since \in [Ids(cache) -> Nat]
    BY DEF Init, Ids
<1> QED
    BY <1>1, <1>2, <1>3 DEF Init, TypeOK

\* A closed transaction is a transaction.
LEMMA NoTxnType == NoTxn \in [todo : Seq(Task), added : SUBSET Row, seq : Nat]
    BY DEF NoTxn

\* A failure counts the faults on.
LEMMA FailsType == \A kind : faults \in Nat /\ Fails(kind) => faults' \in Nat
    BY DEF Fails

\* The steps of the DBServices thread keep the types.
LEMMA TypeDbStep == TypeOK /\ DbStep => TypeOK'
<1> SUFFICES ASSUME TypeOK, DbStep PROVE TypeOK'
    OBVIOUS
<1> USE DEF TypeOK, dbVars, mgrVars, guiVars
<1>1. CASE DbInit
    <2>1. dbQueue' \in Seq(Request)
        BY <1>1, HeadTail DEF DbInit, Serves
    <2>2. faults' \in Nat
        BY <1>1, FailsType DEF DbInit
    <2>3. initSignal' \in BOOLEAN
        BY <1>1 DEF DbInit
    <2> QED
        BY <1>1, <2>1, <2>2, <2>3 DEF DbInit
<1>2. CASE DbBeginInsert
    <2>1. dbQueue' \in Seq(Request) /\ Head(dbQueue) \in Request
        BY <1>2, HeadTail DEF DbBeginInsert, LastIssued, Serves
    <2>3. Head(dbQueue).tasks \in Seq(Task)
        <3>1. Head(dbQueue).op = "insert"
            BY <1>2 DEF DbBeginInsert, LastIssued, Serves
        <3> QED
            BY <3>1, <2>1, RequestFields
    <2>2. txn' \in [todo : Seq(Task), added : SUBSET Row, seq : Nat]
        BY <1>2, <2>3 DEF DbBeginInsert, LastIssued
    <2> QED
        BY <1>2, <2>1, <2>2 DEF DbBeginInsert, LastIssued
<1>3. CASE DbInsertRow
    <2> DEFINE t == Head(txn.todo)
               new == [id |-> txn.seq + 1, time |-> t.time, stations |-> t.stations,
                       plan |-> t.plan]
    <2>1. t \in Task /\ Tail(txn.todo) \in Seq(Task)
        BY <1>3, HeadTail DEF DbInsertRow
    <2>2. new \in Row
        BY <2>1 DEF Task, Row
    <2>3. txn' = [todo |-> Tail(txn.todo), added |-> txn.added \cup {new},
                  seq |-> txn.seq + 1]
        BY <1>3 DEF DbInsertRow
    <2>4. txn' \in [todo : Seq(Task), added : SUBSET Row, seq : Nat]
        BY <2>1, <2>2, <2>3
    <2> QED
        BY <1>3, <2>4 DEF DbInsertRow
<1>4. CASE DbInsertFails
    BY <1>4, NoTxnType DEF DbInsertFails, Fails
<1>5. CASE DbCommit
    BY <1>5, NoTxnType DEF DbCommit
<1>6. CASE DbRemove
    <2>1. dbQueue' \in Seq(Request) /\ Head(dbQueue).task \in Listed
        BY <1>6, RequestFields, HeadTail DEF DbRemove, Serves
    <2>2. Head(dbQueue).task.id \in Nat
        BY <2>1 DEF Listed
    <2>3. faults' \in Nat
        BY <1>6, FailsType DEF DbRemove
    <2>4. excused' \subseteq Nat
        BY <1>6, <2>2 DEF DbRemove
    <2>5. rows' \subseteq Row
        BY <1>6 DEF DbRemove, Without
    <2> QED
        BY <1>6, <2>1, <2>3, <2>4, <2>5 DEF DbRemove
<1>7. CASE DbQuery
    BY <1>7, HeadTail DEF DbQuery, Serves
<1>8. CASE DbRefresh
    <2>1. cache' \subseteq Listed /\ faults' \in Nat
        BY <1>8, ReadBackType DEF DbRefresh, Fails
    <2>2. lists' \in Seq(SUBSET Listed)
        BY <1>8, <2>1 DEF DbRefresh
    <2>3. since' \in [Ids(cache') -> Nat]
        BY <1>8 DEF DbRefresh
    <2> QED
        BY <1>8, <2>1, <2>2, <2>3 DEF DbRefresh
<1> QED
    BY <1>1, <1>2, <1>3, <1>4, <1>5, <1>6, <1>7, <1>8 DEF DbStep

\* So do the steps of the manager thread,
LEMMA TypeMgrStep == TypeOK /\ MgrStep => TypeOK'
<1> SUFFICES ASSUME TypeOK, MgrStep PROVE TypeOK'
    OBVIOUS
<1> USE DEF TypeOK, dbVars, mgrVars, guiVars
<1>1. CASE MgrDBInitFinished
    <2>1. dbQueue' \in Seq(Request)
        BY <1>1, RequestFields DEF MgrDBInitFinished
    <2>2. initSignal' \in BOOLEAN
        BY <1>1 DEF MgrDBInitFinished
    <2> QED
        BY <1>1, <2>1, <2>2 DEF MgrDBInitFinished
<1>2. CASE MgrRecvTaskSetting
    <2>1. PICK s \in Setting, w \in BOOLEAN :
              /\ plans' = Append(plans, s)
              /\ dbQueue' = Append(dbQueue, InsertReq(TasksOf(s, Len(plans) + 1, w)))
        BY <1>2 DEF MgrRecvTaskSetting
    <2>2. TasksOf(s, Len(plans) + 1, w) \in Seq(Task)
        BY TasksOfType
    <2>3. dbQueue' \in Seq(Request) /\ plans' \in Seq(Setting)
        BY <2>1, <2>2, RequestFields
    <2> QED
        BY <1>2, <2>3 DEF MgrRecvTaskSetting
<1>3. CASE CheckTake
    BY <1>3 DEF CheckTake
<1>4. CASE CheckNext
    <2>1. PICK t \in Earliest(taken) :
              /\ jobs' = IF lastCheck - t.time > Window THEN jobs ELSE jobs \cup {t}
              /\ dbQueue' = Append(dbQueue, RemoveReq(t, "check"))
              /\ taken' = taken \ {t}
        BY <1>4 DEF CheckNext, IsLate, AskRemoval
    <2>2. t \in Listed
        BY <2>1 DEF Earliest
    <2>3. dbQueue' \in Seq(Request)
        BY <2>1, <2>2, RequestFields
    <2> QED
        BY <1>4, <2>1, <2>2, <2>3 DEF CheckNext, IsLate, AskRemoval
<1>5. CASE CheckEnd
    <2>1. Ids(jobs) \subseteq Nat
        BY DEF Ids, Listed
    <2> QED
        BY <1>5, <2>1 DEF CheckEnd
<1> QED
    BY <1>1, <1>2, <1>3, <1>4, <1>5 DEF MgrStep

\* and those of the window and the surroundings.
LEMMA TypeOtherStep == TypeOK /\ (GuiStep \/ TimePasses \/ Crash \/ Start) => TypeOK'
<1> SUFFICES ASSUME TypeOK, GuiStep \/ TimePasses \/ Crash \/ Start PROVE TypeOK'
    OBVIOUS
<1> USE DEF TypeOK, dbVars, mgrVars, guiVars
<1>1. CASE GuiShow
    BY <1>1, HeadTail DEF GuiShow
<1>2. CASE GuiAskDelete
    BY <1>2 DEF GuiAskDelete
<1>3. CASE GuiAnswer
    <2>1. CASE UNCHANGED dbQueue
        BY <1>3, <2>1 DEF GuiAnswer
    <2>2. CASE \E t \in choice : dbQueue' = Append(dbQueue, RemoveReq(t, "user"))
        <3>1. PICK t \in Listed : dbQueue' = Append(dbQueue, RemoveReq(t, "user"))
            BY <2>2
        <3>2. dbQueue' \in Seq(Request)
            BY <3>1, RequestFields
        <3> QED
            BY <1>3, <3>2 DEF GuiAnswer
    <2> QED
        BY <1>3, <2>1, <2>2 DEF GuiAnswer
<1>4. CASE TimePasses
    BY <1>4 DEF TimePasses
<1>5. CASE Crash
    <2>1. Ids(PendingRemovals) \subseteq Nat
        BY RequestFields DEF Ids, PendingRemovals, Removals, Listed
    <2>2. since' \in [Ids(cache') -> Nat]
        BY <1>5 DEF Crash, Ids
    <2>3. faults' \in Nat
        BY <1>5, FailsType DEF Crash
    <2>4. excused' \subseteq Nat
        BY <1>5, <2>1 DEF Crash
    <2>5. dbQueue' \in Seq(Request) /\ lists' \in Seq(SUBSET Listed)
        BY <1>5 DEF Crash
    <2>6. up' \in BOOLEAN /\ initSignal' \in BOOLEAN /\ checking' \in BOOLEAN
        BY <1>5 DEF Crash
    <2> QED
        BY <1>5, <2>2, <2>3, <2>4, <2>5, <2>6, NoTxnType DEF Crash
<1>6. CASE Start
    BY <1>6, RequestFields DEF Start
<1> QED
    BY <1>1, <1>2, <1>3, <1>4, <1>5, <1>6 DEF GuiStep

\* Every variable keeps its type, whatever the settings, bounds and faults.
THEOREM TypeCorrect == Spec => []TypeOK
<1>1. TypeOK /\ [Next]_vars => TypeOK'
    <2> SUFFICES ASSUME TypeOK, [Next]_vars PROVE TypeOK'
        OBVIOUS
    <2>1. CASE UNCHANGED vars
        BY <2>1 DEF TypeOK, vars
    <2>2. CASE Next
        BY <2>2, TypeDbStep, TypeMgrStep, TypeOtherStep DEF Next
    <2> QED
        BY <2>1, <2>2
<1> QED
    BY <1>1, TypeInit, PTL DEF Spec

-----------------------------------------------------------------------------
(* What a step does to the queue, the copies, the rows and the jobs *)

\* A removal request is made for a task of the check or of the open question.
LEMMA RemovalsStep ==
    TypeOK /\ Next => PendingRemovals' \subseteq PendingRemovals \cup taken \cup choice
<1> SUFFICES ASSUME TypeOK, Next
             PROVE  PendingRemovals' \subseteq PendingRemovals \cup taken \cup choice
    OBVIOUS
<1>1. CASE UNCHANGED dbQueue
    BY <1>1 DEF PendingRemovals
<1>2. CASE dbQueue # <<>> /\ dbQueue' = Tail(dbQueue)
    BY <1>2, RemovalsTail DEF PendingRemovals, TypeOK
<1>3. CASE dbQueue' = <<>> \/ dbQueue' = <<Init_Req>>
    BY <1>3 DEF PendingRemovals, Removals, Init_Req
<1>4. CASE MgrDBInitFinished
    BY <1>4, RemovalsAppend, RequestFields
    DEF MgrDBInitFinished, PendingRemovals, TypeOK, Query_Req
<1>5. CASE MgrRecvTaskSetting
    <2>1. PICK s \in Setting, w \in BOOLEAN :
              dbQueue' = Append(dbQueue, InsertReq(TasksOf(s, Len(plans) + 1, w)))
        BY <1>5 DEF MgrRecvTaskSetting
    <2>2. InsertReq(TasksOf(s, Len(plans) + 1, w)) \in Request
        BY TasksOfType, RequestFields DEF TypeOK
    <2>3. InsertReq(TasksOf(s, Len(plans) + 1, w)).op # "remove"
        BY DEF InsertReq
    <2> QED
        BY <2>1, <2>2, <2>3, RemovalsAppend DEF PendingRemovals, TypeOK
<1>6. CASE \E t \in taken \cup choice, by \in {"check", "user"} :
              dbQueue' = Append(dbQueue, RemoveReq(t, by))
    <2>1. PICK t \in taken \cup choice, by \in {"check", "user"} :
              dbQueue' = Append(dbQueue, RemoveReq(t, by))
        BY <1>6
    <2>2. RemoveReq(t, by) \in Request
        BY RequestFields DEF TypeOK
    <2>3. RemoveReq(t, by).op = "remove" /\ RemoveReq(t, by).task = t
        BY DEF RemoveReq
    <2>4. Removals(dbQueue') = Removals(dbQueue) \cup {t}
        BY <2>1, <2>2, <2>3, RemovalsAppend DEF TypeOK
    <2> QED
        BY <2>4 DEF PendingRemovals
<1>7. CASE DbStep
    BY <1>1, <1>2, <1>7 DEF DbStep, DbInit, DbBeginInsert, LastIssued, DbInsertRow,
        DbInsertFails, DbCommit,
       DbRemove, DbQuery, DbRefresh, Serves
<1>8. CASE MgrStep
    <2>1. CASE CheckNext
        BY <2>1, <1>6 DEF CheckNext, IsLate, AskRemoval, Earliest
    <2>2. CASE CheckTake \/ CheckEnd
        BY <2>2, <1>1 DEF CheckTake, CheckEnd
    <2> QED
        BY <1>8, <1>4, <1>5, <2>1, <2>2 DEF MgrStep
<1>9. CASE GuiStep
    BY <1>9, <1>1, <1>6 DEF GuiStep, GuiShow, GuiAskDelete, GuiAnswer
<1>10. CASE TimePasses \/ Crash \/ Start
    BY <1>10, <1>1, <1>3 DEF TimePasses, Crash, Start
<1> QED
    BY <1>7, <1>8, <1>9, <1>10 DEF Next

\* The list the manager scans is only ever filled from the table.
LEMMA CacheStep ==
    Next => \/ UNCHANGED cache
            \/ cache' = {}
            \/ cache' = {ReadBack(r) : r \in rows}
    BY DEF Next, DbStep, MgrStep, GuiStep, DbInit, DbBeginInsert, LastIssued,
        DbInsertRow, DbInsertFails,
       DbCommit, DbRemove, DbQuery, DbRefresh, MgrDBInitFinished, MgrRecvTaskSetting, CheckTake,
       CheckNext, IsLate, AskRemoval, CheckEnd, GuiShow, GuiAskDelete, GuiAnswer,
           TimePasses, Crash, Start, dbVars

\* A list on its way to the screen is the list just scanned from the table.
LEMMA ListsStep ==
    TypeOK /\ TypeOK' /\ Next => InLists(lists') \subseteq InLists(lists) \cup cache'
<1> SUFFICES ASSUME TypeOK, TypeOK', Next
             PROVE  InLists(lists') \subseteq InLists(lists) \cup cache'
    OBVIOUS
<1>1. CASE UNCHANGED lists
    BY <1>1
<1>2. CASE lists' = <<>>
    BY <1>2 DEF InLists
<1>3. CASE DbRefresh
    BY <1>3, InListsAppend DEF DbRefresh, TypeOK
<1>4. CASE GuiShow
    BY <1>4, InListsTail DEF GuiShow, TypeOK
<1> QED
    BY <1>1, <1>2, <1>3, <1>4
    DEF Next, DbStep, MgrStep, GuiStep, DbInit, DbBeginInsert, LastIssued, DbInsertRow,
        DbInsertFails,
       DbCommit, DbRemove, DbQuery, MgrDBInitFinished, MgrRecvTaskSetting, CheckTake,
       CheckNext, IsLate, AskRemoval, CheckEnd, GuiAskDelete, GuiAnswer, TimePasses,
           Crash, Start

\* So every copy of a task comes from an older copy or from a row.
LEMMA CopiesStep ==
    TypeOK /\ TypeOK' /\ Next => Copies' \subseteq Copies \cup {ReadBack(r) : r \in rows}
<1> SUFFICES ASSUME TypeOK, TypeOK', Next
             PROVE  Copies' \subseteq Copies \cup {ReadBack(r) : r \in rows}
    OBVIOUS
<1>1. cache' \subseteq cache \cup {ReadBack(r) : r \in rows}
    BY CacheStep
<1>2. InLists(lists') \subseteq InLists(lists) \cup cache'
    BY ListsStep
<1>3. PendingRemovals' \subseteq PendingRemovals \cup taken \cup choice
    BY RemovalsStep
<1>4. taken' \subseteq taken \cup cache /\ jobs' \subseteq jobs \cup taken
    BY DEF Next, DbStep, MgrStep, GuiStep, DbInit, DbBeginInsert, LastIssued,
        DbInsertRow, DbInsertFails,
       DbCommit, DbRemove, DbQuery, DbRefresh, MgrDBInitFinished, MgrRecvTaskSetting, CheckTake,
       CheckNext, IsLate, AskRemoval, CheckEnd, GuiShow, GuiAskDelete, GuiAnswer,
           TimePasses, Crash, Start, mgrVars,
       Earliest
<1>5. shown' \subseteq shown \cup InLists(lists) /\ choice' \subseteq choice \cup shown
    <2>1. CASE GuiShow
        BY <2>1, InListsTail DEF GuiShow, TypeOK
    <2> QED
        BY <2>1 DEF Next, DbStep, MgrStep, GuiStep, DbInit, DbBeginInsert, LastIssued,
            DbInsertRow,
           DbInsertFails, DbCommit, DbRemove, DbQuery, DbRefresh, MgrDBInitFinished,
           MgrRecvTaskSetting, CheckTake, CheckNext, IsLate, AskRemoval, CheckEnd,
               GuiAskDelete, GuiAnswer,
           TimePasses, Crash, Start, guiVars
<1> QED
    BY <1>1, <1>2, <1>3, <1>4, <1>5 DEF Copies

\* The table changes by losing rows, or by a commit.
LEMMA RowsStep ==
    Next => \/ rows' \subseteq rows /\ lastId' = lastId
            \/ dbPc = "insert" /\ rows' = rows \cup txn.added /\ lastId' = txn.seq
    BY DEF Next, DbStep, MgrStep, GuiStep, DbInit, DbBeginInsert, LastIssued,
        DbInsertRow, DbInsertFails,
       DbCommit, DbRemove, Without, DbQuery, DbRefresh, MgrDBInitFinished, MgrRecvTaskSetting,
       CheckTake, CheckNext, IsLate, AskRemoval, CheckEnd, GuiShow, GuiAskDelete,
           GuiAnswer, TimePasses, Crash,
       Start, dbVars

\* Old and new rows are told apart by the counter.
LEMMA IssuedStep ==
    IInv /\ TypeOK' /\ Next => IdsAreIssued' /\ RowsAreDistinct' /\ IdsNameOneTask'
<1> SUFFICES ASSUME IInv, TypeOK', Next
             PROVE  IdsAreIssued' /\ RowsAreDistinct' /\ IdsNameOneTask'
    OBVIOUS
<1>1. \A r \in rows : r \in Row /\ r.id \in Nat /\ r.id \in 1..lastId
    BY DEF IInv, TypeOK, IdsAreIssued, Row
<1>2. lastId \in Nat /\ lastId' \in Nat /\ lastId' >= lastId
    BY RowsStep DEF IInv, TypeOK, TxnIsFresh
<1>3. \A c \in Copies' : \/ c \in Copies
                         \/ \E r \in rows : /\ c.id = r.id /\ c.time = r.time
                                            /\ c.plan = r.plan
    BY CopiesStep, ReadBackType, <1>1 DEF IInv
<1>4. \A c \in Copies' : c.id \in 1..lastId
    BY <1>1, <1>3 DEF IInv, IdsAreIssued
<1>5. \A r \in rows' : \/ r \in rows
                       \/ r \in txn.added /\ dbPc = "insert" /\ r.id > lastId
                                            /\ r.id <= lastId'
    <2>1. CASE rows' \subseteq rows
        BY <2>1
    <2>2. CASE dbPc = "insert" /\ rows' = rows \cup txn.added /\ lastId' = txn.seq
        <3>1. \A r \in txn.added : r.id \in (lastId + 1)..txn.seq
            BY <2>2 DEF IInv, TxnIsFresh
        <3>2. txn.seq \in Nat /\ \A r \in txn.added : r.id \in Nat
            BY DEF IInv, TypeOK, Row
        <3> QED
            BY <2>2, <3>1, <3>2, <1>2
    <2> QED
        BY <2>1, <2>2, RowsStep
<1>6. RowsAreDistinct'
    BY <1>1, <1>2, <1>5 DEF IInv, RowsAreDistinct, TxnIsFresh
<1>7. IdsNameOneTask'
    <2>1. SUFFICES ASSUME NEW c \in Copies', NEW r \in rows', c.id = r.id
                   PROVE  c.time = r.time /\ c.plan = r.plan
        BY DEF IdsNameOneTask
    <2>2. r \in rows
        BY <2>1, <1>2, <1>4, <1>5
    <2>3. CASE c \in Copies
        BY <2>1, <2>2, <2>3 DEF IInv, IdsNameOneTask
    <2>4. CASE \E s \in rows : c.id = s.id /\ c.time = s.time /\ c.plan = s.plan
        BY <2>1, <2>2, <2>4 DEF IInv, RowsAreDistinct
    <2> QED
        BY <1>3, <2>3, <2>4
<1>8. played' \subseteq 1..lastId
    <2>1. played' \subseteq played \cup Ids(jobs)
        BY DEF Next, DbStep, MgrStep, GuiStep, DbInit, DbBeginInsert, LastIssued,
            DbInsertRow,
           DbInsertFails, DbCommit, DbRemove, DbQuery, DbRefresh, MgrDBInitFinished,
           MgrRecvTaskSetting, CheckTake, CheckNext, IsLate, AskRemoval, CheckEnd,
               GuiShow, GuiAskDelete,
           GuiAnswer, TimePasses, Crash, Start, mgrVars
    <2>2. Ids(jobs) \subseteq 1..lastId
        BY DEF IInv, IdsAreIssued, Copies, Ids
    <2> QED
        BY <2>1, <2>2 DEF IInv, IdsAreIssued
<1>9. \A r \in rows' : r.id \in 1..lastId'
    <2>1. \A r \in rows' : r.id \in Nat
        BY DEF TypeOK, Row
    <2> QED
        BY <1>1, <1>2, <1>5, <2>1
<1>10. 1..lastId \subseteq 1..lastId'
    BY <1>2
<1> QED
    BY <1>4, <1>6, <1>7, <1>8, <1>9, <1>10 DEF IdsAreIssued

\* An open transaction numbers its rows on from the counter.
LEMMA TxnStep == IInv /\ Next => TxnIsFresh'
<1> SUFFICES ASSUME IInv, Next, dbPc' = "insert"
             PROVE  /\ txn'.seq >= lastId'
                    /\ \A r \in txn'.added : r.id \in (lastId' + 1)..txn'.seq
                    /\ \A r, s \in txn'.added : r.id = s.id => r = s
    BY DEF TxnIsFresh
<1>1. CASE DbBeginInsert
    BY <1>1 DEF DbBeginInsert, LastIssued, IInv, TypeOK
<1>2. CASE DbInsertRow
    <2> DEFINE t == Head(txn.todo)
               new == [id |-> txn.seq + 1, time |-> t.time, stations |-> t.stations,
                       plan |-> t.plan]
    <2>1. /\ dbPc = "insert" /\ lastId' = lastId
          /\ txn'.added = txn.added \cup {new} /\ txn'.seq = txn.seq + 1
        BY <1>2 DEF DbInsertRow
    <2>2. txn.seq \in Nat /\ lastId \in Nat
        BY DEF IInv, TypeOK
    <2>3. /\ txn.seq >= lastId
          /\ \A r \in txn.added : r.id \in (lastId + 1)..txn.seq
          /\ \A r, s \in txn.added : r.id = s.id => r = s
        BY <2>1 DEF IInv, TxnIsFresh
    <2>4. new.id = txn.seq + 1
        OBVIOUS
    <2> QED
        BY <2>1, <2>2, <2>3, <2>4
<1>3. CASE UNCHANGED <<dbPc, txn, lastId>>
    BY <1>3 DEF IInv, TxnIsFresh
<1> QED
    BY <1>1, <1>2, <1>3
    DEF Next, DbStep, MgrStep, GuiStep, DbInit, DbInsertFails, DbCommit, DbRemove, DbQuery,
       DbRefresh, MgrDBInitFinished, MgrRecvTaskSetting, CheckTake, CheckNext, IsLate,
           AskRemoval, CheckEnd,
       GuiShow, GuiAskDelete, GuiAnswer, TimePasses, Crash, Start, dbVars

\* A removal that is asked for stays so until the row is gone, or a fault is
\* on record.
LEMMA CoveredStep ==
    IInv /\ Next => \A r \in rows' : r.id \in Covered => r.id \in Covered'
<1> SUFFICES ASSUME IInv, Next, NEW r \in rows', r.id \in Covered
             PROVE  r.id \in Covered'
    OBVIOUS
<1> USE DEF IInv, TypeOK, dbVars, mgrVars, guiVars, Serves
<1>1. excused \subseteq excused'
    BY DEF Next, DbStep, MgrStep, GuiStep, DbInit, DbBeginInsert, LastIssued,
        DbInsertRow, DbInsertFails,
       DbCommit, DbRemove, DbQuery, DbRefresh, MgrDBInitFinished, MgrRecvTaskSetting,
       CheckTake, CheckNext, IsLate, AskRemoval, CheckEnd, GuiShow, GuiAskDelete,
           GuiAnswer, TimePasses, Crash,
       Start
<1>2. CASE PendingRemovals \subseteq PendingRemovals'
    BY <1>1, <1>2 DEF Covered, Ids
<1>3. CASE UNCHANGED dbQueue
    BY <1>2, <1>3 DEF PendingRemovals
<1>4. CASE DbInit \/ DbBeginInsert \/ DbQuery
    BY <1>2, <1>4, RemovalsTail DEF DbInit, DbBeginInsert, LastIssued, DbQuery,
        PendingRemovals
<1>5. CASE DbRemove
    <2> DEFINE t == Head(dbQueue).task
    <2>1. /\ PendingRemovals = PendingRemovals' \cup {t}
          /\ t \in PendingRemovals
        BY <1>5, RemovalsTail DEF DbRemove, PendingRemovals
    <2>2. t.id \in 1..lastId
        BY <2>1 DEF IdsAreIssued, Copies
    <2>3. r.id # t.id \/ t.id \in excused'
        BY <1>5, <2>2 DEF DbRemove, Without
    <2> QED
        BY <1>1, <2>1, <2>3 DEF Covered, Ids
<1>6. CASE Crash
    BY <1>6 DEF Crash, Covered
<1>7. CASE Start
    <2>1. PendingRemovals = {}
        BY <1>7 DEF Start, DownIsEmpty, PendingRemovals, Removals
    <2> QED
        BY <1>2, <2>1
<1>8. CASE \E q \in Request : dbQueue' = Append(dbQueue, q)
    <2>1. PICK q \in Request : dbQueue' = Append(dbQueue, q)
        BY <1>8
    <2>2. Removals(dbQueue) \subseteq Removals(dbQueue')
        BY <2>1, RemovalsAppend
    <2> QED
        BY <1>2, <2>2 DEF PendingRemovals
<1>9. CASE DbStep
    BY <1>3, <1>4, <1>5, <1>9 DEF DbStep, DbInsertRow, DbInsertFails, DbCommit, DbRefresh
<1>10. CASE MgrStep
    <2>1. CASE MgrDBInitFinished
        BY <2>1, <1>8, RequestFields DEF MgrDBInitFinished
    <2>2. CASE MgrRecvTaskSetting
        <3>1. PICK s \in Setting, w \in BOOLEAN :
                  dbQueue' = Append(dbQueue, InsertReq(TasksOf(s, Len(plans) + 1, w)))
            BY <2>2 DEF MgrRecvTaskSetting
        <3>2. InsertReq(TasksOf(s, Len(plans) + 1, w)) \in Request
            BY TasksOfType, RequestFields
        <3> QED
            BY <1>8, <3>1, <3>2
    <2>3. CASE CheckNext
        BY <2>3, <1>8, RequestFields DEF CheckNext, IsLate, AskRemoval, Earliest
    <2>4. CASE CheckTake \/ CheckEnd
        BY <2>4, <1>3 DEF CheckTake, CheckEnd
    <2> QED
        BY <1>10, <2>1, <2>2, <2>3, <2>4 DEF MgrStep
<1>11. CASE GuiStep
    BY <1>11, <1>3, <1>8, RequestFields DEF GuiStep, GuiShow, GuiAskDelete, GuiAnswer
<1> QED
    BY <1>3, <1>6, <1>7, <1>9, <1>10, <1>11 DEF Next, TimePasses

\* The manager's jobs are tasks whose removal it has asked for.
LEMMA PlayedStep ==
    IInv /\ TypeOK' /\ Next => PlayedIsBeingRemoved' /\ JobsAreBeingRemoved'
<1> SUFFICES ASSUME IInv, TypeOK', Next
             PROVE  PlayedIsBeingRemoved' /\ JobsAreBeingRemoved'
    OBVIOUS
<1>1. \A r \in rows' : r.id \in played \cup Ids(jobs) => r \in rows
    <2>1. played \cup Ids(jobs) \subseteq 1..lastId
        BY DEF IInv, IdsAreIssued, Copies, Ids
    <2>2. CASE rows' \subseteq rows
        BY <2>2
    <2>3. CASE dbPc = "insert" /\ rows' = rows \cup txn.added
        <3>1. \A r \in txn.added : r.id \in (lastId + 1)..txn.seq /\ r.id \in Nat
            BY <2>3 DEF IInv, TxnIsFresh, TypeOK, Row
        <3>2. lastId \in Nat /\ txn.seq \in Nat
            BY DEF IInv, TypeOK
        <3> QED
            BY <2>1, <2>3, <3>1, <3>2
    <2> QED
        BY <2>2, <2>3, RowsStep
<1>2. \A r \in rows' : r.id \in played \cup Ids(jobs) => r.id \in Covered'
    BY <1>1, CoveredStep DEF IInv, PlayedIsBeingRemoved, JobsAreBeingRemoved
<1>3. CASE CheckNext
    <2>1. PICK t \in Earliest(taken) :
              /\ jobs' = IF lastCheck - t.time > Window THEN jobs ELSE jobs \cup {t}
              /\ dbQueue' = Append(dbQueue, RemoveReq(t, "check"))
        BY <1>3 DEF CheckNext, IsLate, AskRemoval
    <2>2. RemoveReq(t, "check") \in Request
        BY RequestFields DEF Earliest, IInv, TypeOK
    <2>3. t \in PendingRemovals'
        BY <2>1, <2>2, RemovalsAppend DEF PendingRemovals, IInv, TypeOK, RemoveReq
    <2>4. t.id \in Covered'
        BY <2>3 DEF Covered, Ids
    <2>5. Ids(jobs') \subseteq Ids(jobs) \cup {t.id}
        BY <2>1 DEF Ids
    <2>6. played' = played
        BY <1>3 DEF CheckNext, IsLate, AskRemoval
    <2> QED
        BY <1>2, <2>4, <2>5, <2>6 DEF PlayedIsBeingRemoved, JobsAreBeingRemoved
<1>4. CASE played' \subseteq played \cup Ids(jobs) /\ jobs' \subseteq jobs
    BY <1>2, <1>4 DEF PlayedIsBeingRemoved, JobsAreBeingRemoved, Ids
<1> QED
    BY <1>3, <1>4 DEF Next, DbStep, MgrStep, GuiStep, DbInit, DbBeginInsert, LastIssued,
        DbInsertRow,
       DbInsertFails, DbCommit, DbRemove, DbQuery, DbRefresh, MgrDBInitFinished,
       MgrRecvTaskSetting, CheckTake, CheckEnd, GuiShow, GuiAskDelete, GuiAnswer,
       TimePasses, Crash, Start, mgrVars

\* The list is either refreshed from the table or about to be.
LEMMA CurrentStep == IInv /\ Next => CacheIsCurrent'
<1> SUFFICES ASSUME IInv, Next, dbPc' = "idle"
             PROVE  cache' \subseteq {ReadBack(r) : r \in rows'}
    BY DEF CacheIsCurrent
<1>1. CASE DbRefresh
    BY <1>1 DEF DbRefresh
<1>2. CASE Crash
    BY <1>2 DEF Crash
<1>3. CASE UNCHANGED <<dbPc, cache, rows>>
    BY <1>3 DEF IInv, CacheIsCurrent
<1> QED
    BY <1>1, <1>2, <1>3
    DEF Next, DbStep, MgrStep, GuiStep, DbInit, DbBeginInsert, LastIssued, DbInsertRow,
        DbInsertFails,
       DbCommit, DbRemove, DbQuery, MgrDBInitFinished, MgrRecvTaskSetting, CheckTake,
       CheckNext, IsLate, AskRemoval, CheckEnd, GuiShow, GuiAskDelete, GuiAnswer,
           TimePasses, Start, dbVars

\* Only due tasks are asked to be removed by a check.
LEMMA DueStep == IInv /\ TypeOK' /\ Next => ChecksAreDue'
<1> SUFFICES ASSUME IInv, TypeOK', Next
             PROVE  ChecksAreDue'
    OBVIOUS
<1>1. lastCheck' <= now' /\ now <= now'
    BY DEF IInv, TypeOK, ChecksAreDue, Next, DbStep, MgrStep, GuiStep, DbInit,
        DbBeginInsert, LastIssued,
       DbInsertRow, DbInsertFails, DbCommit, DbRemove, DbQuery, DbRefresh, MgrDBInitFinished,
       MgrRecvTaskSetting, CheckTake, CheckNext, IsLate, AskRemoval, CheckEnd, GuiShow,
           GuiAskDelete, GuiAnswer,
       TimePasses, Crash, Start, mgrVars
<1>2. \A i \in DOMAIN dbQueue : IsDue(dbQueue[i], now')
    <2>1. SUFFICES ASSUME NEW i \in DOMAIN dbQueue, dbQueue[i].op = "remove",
                          dbQueue[i].by = "check"
                   PROVE  dbQueue[i].task.time <= now'
        BY DEF IsDue
    <2>2. dbQueue[i].task.time <= now
        BY <2>1 DEF IInv, ChecksAreDue, IsDue
    <2>3. dbQueue[i].task.time \in Int
        BY <2>1, RequestFields DEF IInv, TypeOK, Listed
    <2>4. now \in Int /\ now' \in Int
        BY DEF IInv, TypeOK
    <2> QED
        BY <1>1, <2>2, <2>3, <2>4
<1>3. CASE UNCHANGED dbQueue
    BY <1>1, <1>2, <1>3 DEF ChecksAreDue
<1>4. CASE dbQueue # <<>> /\ dbQueue' = Tail(dbQueue)
    <2>1. \A i \in DOMAIN Tail(dbQueue) :
              i + 1 \in DOMAIN dbQueue /\ Tail(dbQueue)[i] = dbQueue[i + 1]
        BY <1>4 DEF IInv, TypeOK
    <2> QED
        BY <1>1, <1>2, <1>4, <2>1 DEF ChecksAreDue
<1>5. CASE dbQueue' = <<>> \/ dbQueue' = <<Init_Req>>
    BY <1>1, <1>5 DEF ChecksAreDue, IsDue, Init_Req
<1>6. CASE \E q \in Request : dbQueue' = Append(dbQueue, q) /\ IsDue(q, now')
    <2>1. PICK q \in Request : dbQueue' = Append(dbQueue, q) /\ IsDue(q, now')
        BY <1>6
    <2>2. \A i \in DOMAIN dbQueue' : \/ i \in DOMAIN dbQueue /\ dbQueue'[i] = dbQueue[i]
                                   \/ dbQueue'[i] = q
        <3>1. /\ \A i \in DOMAIN dbQueue : Append(dbQueue, q)[i] = dbQueue[i]
              /\ Append(dbQueue, q)[Len(dbQueue) + 1] = q
            BY DEF IInv, TypeOK
        <3>2. DOMAIN Append(dbQueue, q) = DOMAIN dbQueue \cup {Len(dbQueue) + 1}
            BY DEF IInv, TypeOK
        <3> QED
            BY <2>1, <3>1, <3>2
    <2> QED
        BY <1>1, <1>2, <2>1, <2>2 DEF ChecksAreDue
<1>7. CASE MgrDBInitFinished
    BY <1>6, <1>7, RequestFields DEF MgrDBInitFinished, IsDue, Query_Req
<1>8. CASE MgrRecvTaskSetting
    <2>1. PICK s \in Setting, w \in BOOLEAN :
              dbQueue' = Append(dbQueue, InsertReq(TasksOf(s, Len(plans) + 1, w)))
        BY <1>8 DEF MgrRecvTaskSetting
    <2>2. InsertReq(TasksOf(s, Len(plans) + 1, w)) \in Request
        BY TasksOfType, RequestFields DEF IInv, TypeOK
    <2>3. IsDue(InsertReq(TasksOf(s, Len(plans) + 1, w)), now')
        BY DEF InsertReq, IsDue
    <2> QED
        BY <1>6, <2>1, <2>2, <2>3
<1>9. CASE CheckNext
    <2>1. PICK t \in Earliest(taken) :
              t.time <= lastCheck /\ dbQueue' = Append(dbQueue, RemoveReq(t, "check"))
        BY <1>9 DEF CheckNext, IsLate, AskRemoval
    <2>2. RemoveReq(t, "check") \in Request /\ t.time \in Int
        BY RequestFields DEF Earliest, IInv, TypeOK, Listed
    <2>3. t.time <= now'
        BY <1>1, <2>1, <2>2 DEF IInv, TypeOK, ChecksAreDue
    <2>4. IsDue(RemoveReq(t, "check"), now')
        BY <2>3 DEF IsDue, RemoveReq
    <2> QED
        BY <1>6, <2>1, <2>2, <2>4
<1>10. CASE GuiAnswer
    <2>1. \A t \in choice : /\ RemoveReq(t, "user") \in Request
                            /\ IsDue(RemoveReq(t, "user"), now')
        BY RequestFields DEF IInv, TypeOK, RemoveReq, IsDue
    <2> QED
        BY <1>3, <1>6, <1>10, <2>1 DEF GuiAnswer
<1> QED
    BY <1>3, <1>4, <1>5, <1>7, <1>8, <1>9, <1>10
    DEF Next, DbStep, MgrStep, GuiStep, DbInit, DbBeginInsert, LastIssued, DbInsertRow,
        DbInsertFails,
       DbCommit, DbRemove, DbQuery, DbRefresh, CheckTake, CheckEnd, GuiShow, GuiAskDelete,
       TimePasses, Crash, Start, Serves

\* The queue of a client that does not run stays empty.
LEMMA DownStep == IInv /\ Next => DownIsEmpty'
    BY DEF IInv, DownIsEmpty, Next, DbStep, MgrStep, GuiStep, DbInit, DbBeginInsert,
        LastIssued,
       DbInsertRow, DbInsertFails, DbCommit, DbRemove, DbQuery, DbRefresh, MgrDBInitFinished,
       MgrRecvTaskSetting, CheckTake, CheckNext, IsLate, AskRemoval, CheckEnd, GuiShow,
           GuiAskDelete, GuiAnswer,
       TimePasses, Crash, Start, Serves

-----------------------------------------------------------------------------
(* The theorems *)

\* IInv holds initially.
LEMMA InvInit == Init => IInv
<1> SUFFICES ASSUME Init PROVE IInv
    OBVIOUS
<1>1. Copies = {} /\ Covered = {}
    BY DEF Init, Copies, Covered, InLists, PendingRemovals, Removals, Init_Req, Ids
<1>2. ChecksAreDue
    BY DEF Init, ChecksAreDue, IsDue, Init_Req
<1>3. DownIsEmpty
    BY DEF Init, DownIsEmpty
<1>4. IdsAreIssued /\ RowsAreDistinct /\ TxnIsFresh /\ IdsNameOneTask
    BY <1>1 DEF Init, IdsAreIssued, RowsAreDistinct, TxnIsFresh, IdsNameOneTask
<1>5. CacheIsCurrent /\ PlayedIsBeingRemoved /\ JobsAreBeingRemoved
    BY DEF Init, CacheIsCurrent, PlayedIsBeingRemoved, JobsAreBeingRemoved
<1> QED
    BY TypeInit, <1>2, <1>3, <1>4, <1>5 DEF IInv

\* No step breaks IInv.
LEMMA InvStep == IInv /\ [Next]_vars => IInv'
<1> SUFFICES ASSUME IInv, [Next]_vars PROVE IInv'
    OBVIOUS
<1>1. CASE UNCHANGED vars
    BY <1>1 DEF vars, IInv, TypeOK, IdsAreIssued, RowsAreDistinct, TxnIsFresh, ChecksAreDue,
       IdsNameOneTask, CacheIsCurrent, PlayedIsBeingRemoved, JobsAreBeingRemoved, DownIsEmpty,
       Copies, Covered, PendingRemovals
<1>2. CASE Next
    <2>1. TypeOK'
        BY <1>2, TypeDbStep, TypeMgrStep, TypeOtherStep DEF IInv, Next
    <2> QED
        BY <1>2, <2>1, IssuedStep, TxnStep, DueStep, CurrentStep, PlayedStep, DownStep DEF IInv
<1> QED
    BY <1>1, <1>2

\* The inductive invariant holds in every reachable state.
THEOREM InvCorrect == Spec => []IInv
    BY InvInit, InvStep, PTL DEF Spec

\* No thread ever holds an id that has come to name another task.
THEOREM StaleIdsAreHarmless == Spec => []IdsNameOneTask
<1>1. IInv => IdsNameOneTask
    BY DEF IInv
<1> QED
    BY <1>1, InvCorrect, PTL

\* Between two slots of the database thread the scanned list holds only rows.
THEOREM CacheNeverAhead == Spec => []CacheIsCurrent
<1>1. IInv => CacheIsCurrent
    BY DEF IInv
<1> QED
    BY <1>1, InvCorrect, PTL

\* A broadcast task that is still stored is being removed, or a fault is known.
THEOREM PlayedLeaves == Spec => []PlayedIsBeingRemoved
<1>1. IInv => PlayedIsBeingRemoved
    BY DEF IInv
<1> QED
    BY <1>1, InvCorrect, PTL

\* Nothing leaves the table before its time, unless the operator asked for it.
THEOREM NothingLostEarly == Spec => LeavesOnlyWhenDue
<1>1. IInv /\ [Next]_vars => [\A r \in rows \ rows' : MayLeave(r)]_vars
    <2> SUFFICES ASSUME IInv, Next, NEW r \in rows \ rows'
                 PROVE  MayLeave(r)
        OBVIOUS
    <2>1. DbRemove
        BY DEF Next, DbStep, MgrStep, GuiStep, DbInit, DbBeginInsert, LastIssued,
            DbInsertRow,
           DbInsertFails, DbCommit, DbQuery, DbRefresh, MgrDBInitFinished, MgrRecvTaskSetting,
           CheckTake, CheckNext, IsLate, AskRemoval, CheckEnd, GuiShow, GuiAskDelete,
               GuiAnswer, TimePasses,
           Crash, Start, dbVars
    <2> DEFINE q == Head(dbQueue)
    <2>2. dbQueue \in Seq(Request) /\ dbQueue # <<>> /\ q.op = "remove"
        BY <2>1 DEF DbRemove, Serves, IInv, TypeOK
    <2>3. q.task \in PendingRemovals
        BY <2>2, RemovalsTail DEF PendingRemovals
    <2>4. q.task.id \in 1..lastId
        BY <2>3 DEF IInv, IdsAreIssued, Copies
    <2>5. r.id = q.task.id
        BY <2>1, <2>4 DEF DbRemove, Without
    <2>6. r.time = q.task.time
        BY <2>3, <2>5 DEF IInv, IdsNameOneTask, Copies
    <2>7. q.by \in {"check", "user"}
        BY <2>2, HeadTail DEF Request
    <2>8. q.by = "check" => q.task.time <= now
        <3>1. 1 \in DOMAIN dbQueue /\ dbQueue[1] = q
            BY <2>2
        <3> QED
            BY <2>2, <3>1 DEF IInv, ChecksAreDue, IsDue
    <2> QED
        BY <2>2, <2>5, <2>6, <2>7, <2>8 DEF MayLeave
<1> QED
    BY <1>1, InvCorrect, PTL DEF Spec, LeavesOnlyWhenDue
=============================================================================
