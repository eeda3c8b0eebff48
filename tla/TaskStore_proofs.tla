-------------------------- MODULE TaskStore_proofs ---------------------------
(***************************************************************************)
(* BroadcastTasks implements TaskStore: whatever its threads, its queue,   *)
(* its transactions and its restarts do is a step of the atomic store or   *)
(* none at all.  From the same invariant: a plan reaches the table whole   *)
(* or not at all, and a task is dropped only if the list got it too late.  *)
(***************************************************************************)
EXTENDS BroadcastTasks_proofs, FiniteSetTheorems

-----------------------------------------------------------------------------
(* The invariant behind the promise of the store *)

\* The row that SQLite makes of a task.
RowOf(t, id) == [id |-> id, time |-> t.time, stations |-> t.stations, plan |-> t.plan]

\* A queued insertion is the whole of a plan that was submitted,
RequestsArePlans ==
    \A i \in Inserts(dbQueue) : \E p \in DOMAIN plans, w \in BOOLEAN :
        dbQueue[i].tasks = TasksOf(plans[p], p, w)

\* and no plan waits twice, in the queue or in the transaction.
OncePerPlan(q) ==
    \A i, j \in Inserts(q) : PlansIn(q[i].tasks) \cap PlansIn(q[j].tasks) # {} => i = j
PlansWaitOnce == OncePerPlan(dbQueue) /\ PlansQueued(dbQueue) \cap PlansOf(txn) = {}

ClosedIsEmpty == dbPc # "insert" => txn = NoTxn

\* The first n of the tasks ts are inserted under the next numbers, the others are
\* to do.
IsInserted(ts, n) ==
    /\ n <= Len(ts) /\ txn.seq = lastId + n
    /\ Len(txn.todo) = Len(ts) - n
    /\ \A i \in DOMAIN txn.todo : txn.todo[i] = ts[n + i]
    /\ txn.added = {RowOf(ts[i], lastId + i) : i \in 1..n}

\* An open transaction inserts one plan, in order.
TxnIsAPlan ==
    dbPc = "insert" =>
        \E p \in DOMAIN plans, w \in BOOLEAN : \E n \in 0..plans[p].times :
            IsInserted(TasksOf(plans[p], p, w), n)

StoreInv == RequestsArePlans /\ PlansWaitOnce /\ ClosedIsEmpty /\ TxnIsAPlan

-----------------------------------------------------------------------------
(* The invariant behind the tasks that are dropped *)

\* Whoever holds the same task holds it with the same time.
CopiesAgree == \A c, d \in Copies : c.id = d.id => c.time = d.time

ChecksKeepTime ==
    /\ up => now - lastCheck <= MaxGap
    /\ ~up => ~checking /\ cache = {}
    /\ ~checking => taken = {} /\ jobs = {}
    /\ \A i \in DOMAIN since : since[i] <= now

\* Task c came into the list too late to be played.
CameLate(c) == c.id \in DOMAIN since /\ since[c.id] > c.time + Window - MaxGap

\* A task in the list is played or to be played, or came too late, or is waiting in
\* the check, or it came since the last check began, or its time did.
ListIsChecked ==
    \A c \in cache :
        \/ c.id \in played \/ c.id \in Ids(jobs) \/ CameLate(c)
        \/ c.id \in Ids(taken)
        \/ since[c.id] >= lastCheck \/ c.time > lastCheck

\* A task that the check is going to drop was played or came too late.
TakenIsChecked ==
    \A c \in taken : c.id \in DOMAIN since /\ IsLate(c) => c.id \in played \/ CameLate(c)

DropInv == CopiesAgree /\ ChecksKeepTime /\ ListIsChecked /\ TakenIsChecked

-----------------------------------------------------------------------------
(* Queues of requests *)

\* The tasks of a plan, one for each time it is to be played.
LEMMA TasksOfPlan ==
    ASSUME NEW s \in Setting, NEW p \in Nat, NEW w \in BOOLEAN
    PROVE  /\ TasksOf(s, p, w) \in Seq(Task)
           /\ s.times \in Nat \ {0} /\ Len(TasksOf(s, p, w)) = s.times
           /\ DOMAIN TasksOf(s, p, w) = 1..s.times
           /\ \A i \in 1..s.times :
                /\ TasksOf(s, p, w)[i].plan = p
                /\ TasksOf(s, p, w)[i].stations = s.stations
                /\ TasksOf(s, p, w)[i].time = s.start + Offset((i - 1) * s.gap, w)
           /\ PlansIn(TasksOf(s, p, w)) = {p}
<1>1. s.times \in Nat \ {0}
    BY SettingAssumption
<1>2. TasksOf(s, p, w) \in Seq(Task)
    BY TasksOfType
<1>3. DOMAIN TasksOf(s, p, w) = 1..s.times
    BY DEF TasksOf
<1>4. Len(TasksOf(s, p, w)) = s.times
    BY <1>1, <1>2, <1>3
<1>5. \A i \in 1..s.times :
          /\ TasksOf(s, p, w)[i].plan = p
          /\ TasksOf(s, p, w)[i].stations = s.stations
          /\ TasksOf(s, p, w)[i].time = s.start + Offset((i - 1) * s.gap, w)
    BY DEF TasksOf
<1>6. PlansIn(TasksOf(s, p, w)) = {p}
    <2>1. 1 \in 1..s.times
        BY <1>1
    <2> QED
        BY <1>3, <1>5, <2>1 DEF PlansIn
<1> QED
    BY <1>1, <1>2, <1>3, <1>4, <1>5, <1>6

\* What is read off a queue to which a request is appended.
LEMMA ReadAppend ==
    ASSUME NEW q \in Seq(Request), NEW r \in Request
    PROVE  /\ r.op = "insert" =>
                PlansQueued(Append(q, r)) = PlansQueued(q) \cup PlansIn(r.tasks)
           /\ r.op # "insert" => PlansQueued(Append(q, r)) = PlansQueued(q)
           /\ r.op = "remove" /\ r.by = "user" =>
                IdsAskedIn(Append(q, r)) = IdsAskedIn(q) \cup {r.task.id}
           /\ ~(r.op = "remove" /\ r.by = "user") => IdsAskedIn(Append(q, r)) = IdsAskedIn(q)
           /\ \A i \in Inserts(Append(q, r)) :
                \/ i \in Inserts(q) /\ Append(q, r)[i] = q[i]
                \/ i = Len(q) + 1 /\ r.op = "insert" /\ Append(q, r)[i] = r
<1> DEFINE a == Append(q, r)
<1>1. DOMAIN a = DOMAIN q \cup {Len(q) + 1}
    OBVIOUS
<1>2. \A i \in DOMAIN q : a[i] = q[i]
    OBVIOUS
<1>3. a[Len(q) + 1] = r
    OBVIOUS
<1>4. Len(q) + 1 \notin DOMAIN q
    OBVIOUS
<1> HIDE DEF a
<1>5. \A i \in DOMAIN a : \/ i \in DOMAIN q /\ a[i] = q[i]
                          \/ i = Len(q) + 1 /\ a[i] = r
    BY <1>1, <1>2, <1>3
<1>6. \A i \in DOMAIN q : i \in DOMAIN a /\ a[i] = q[i]
    BY <1>1, <1>2
<1>7. Len(q) + 1 \in DOMAIN a
    BY <1>1
<1>8. \A i \in Inserts(a) : \/ i \in Inserts(q) /\ a[i] = q[i]
                            \/ i = Len(q) + 1 /\ r.op = "insert" /\ a[i] = r
    BY <1>5 DEF Inserts
<1>9. Inserts(q) \subseteq Inserts(a)
    BY <1>6 DEF Inserts
<1>10. r.op = "insert" => Len(q) + 1 \in Inserts(a)
    BY <1>3, <1>7 DEF Inserts
<1>11. r.op = "insert" => PlansQueued(a) = PlansQueued(q) \cup PlansIn(r.tasks)
    <2> SUFFICES ASSUME r.op = "insert"
                 PROVE  PlansQueued(a) = PlansQueued(q) \cup PlansIn(r.tasks)
        OBVIOUS
    <2>1. \A p : p \in PlansQueued(a) => p \in PlansQueued(q) \cup PlansIn(r.tasks)
        BY <1>8 DEF PlansQueued
    <2>2. \A p : p \in PlansQueued(q) => p \in PlansQueued(a)
        BY <1>6, <1>9 DEF PlansQueued, Inserts
    <2>3. \A p : p \in PlansIn(r.tasks) => p \in PlansQueued(a)
        BY <1>3, <1>10 DEF PlansQueued
    <2> QED
        BY <2>1, <2>2, <2>3
<1>12. r.op # "insert" => PlansQueued(a) = PlansQueued(q)
    <2> SUFFICES ASSUME r.op # "insert" PROVE PlansQueued(a) = PlansQueued(q)
        OBVIOUS
    <2>1. \A p : p \in PlansQueued(a) => p \in PlansQueued(q)
        BY <1>8 DEF PlansQueued
    <2>2. \A p : p \in PlansQueued(q) => p \in PlansQueued(a)
        BY <1>6, <1>9 DEF PlansQueued, Inserts
    <2> QED
        BY <2>1, <2>2
<1>13. r.op = "remove" /\ r.by = "user" =>
          IdsAskedIn(a) = IdsAskedIn(q) \cup {r.task.id}
    BY <1>3, <1>5, <1>6, <1>7 DEF IdsAskedIn
<1>14. ~(r.op = "remove" /\ r.by = "user") => IdsAskedIn(a) = IdsAskedIn(q)
    BY <1>5, <1>6 DEF IdsAskedIn
<1> QED
    BY <1>8, <1>11, <1>12, <1>13, <1>14 DEF a

\* What is read off a queue whose head is taken off.
LEMMA ReadTail ==
    ASSUME NEW q \in Seq(Request), q # <<>>
    PROVE  /\ Head(q).op = "insert" =>
                PlansQueued(q) = PlansQueued(Tail(q)) \cup PlansIn(Head(q).tasks)
           /\ Head(q).op # "insert" => PlansQueued(Tail(q)) = PlansQueued(q)
           /\ Head(q).op = "remove" /\ Head(q).by = "user" =>
                IdsAskedIn(q) = IdsAskedIn(Tail(q)) \cup {Head(q).task.id}
           /\ ~(Head(q).op = "remove" /\ Head(q).by = "user") =>
                IdsAskedIn(Tail(q)) = IdsAskedIn(q)
           /\ 1 \in DOMAIN q /\ Head(q) = q[1]
           /\ \A i \in DOMAIN Tail(q) : /\ i \in Nat \ {0} /\ i + 1 \in DOMAIN q
                                        /\ Tail(q)[i] = q[i + 1]
<1> DEFINE t == Tail(q)
           h == Head(q)
<1>1. DOMAIN q = 1..Len(q) /\ Len(q) \in Nat /\ Len(q) > 0
    OBVIOUS
<1>2. DOMAIN t = 1..(Len(q) - 1)
    BY <1>1
<1>3. \A i \in 1..(Len(q) - 1) : t[i] = q[i + 1]
    BY <1>1
<1>4. h = q[1] /\ 1 \in DOMAIN q
    BY <1>1
<1> HIDE DEF t, h
<1>5. \A i \in DOMAIN t : i \in Nat \ {0} /\ i + 1 \in DOMAIN q /\ t[i] = q[i + 1]
    BY <1>1, <1>2, <1>3
<1>6. \A i \in DOMAIN q : i = 1 \/ (i - 1 \in DOMAIN t /\ q[i] = t[i - 1])
    BY <1>1, <1>2, <1>3
<1>7. \A p : p \in PlansQueued(t) => p \in PlansQueued(q)
    BY <1>5 DEF PlansQueued, Inserts
<1>8. \A p : p \in PlansQueued(q) =>
          p \in PlansQueued(t) \/ (h.op = "insert" /\ p \in PlansIn(h.tasks))
    BY <1>4, <1>6 DEF PlansQueued, Inserts
<1>9. h.op = "insert" => \A p : p \in PlansIn(h.tasks) => p \in PlansQueued(q)
    BY <1>4 DEF PlansQueued, Inserts
<1>10. h.op = "insert" => PlansQueued(q) = PlansQueued(t) \cup PlansIn(h.tasks)
    BY <1>7, <1>8, <1>9
<1>11. h.op # "insert" => PlansQueued(t) = PlansQueued(q)
    BY <1>7, <1>8
<1>12. \A x : x \in IdsAskedIn(t) => x \in IdsAskedIn(q)
    BY <1>5 DEF IdsAskedIn
<1>13. \A x : x \in IdsAskedIn(q) =>
          x \in IdsAskedIn(t) \/ (h.op = "remove" /\ h.by = "user" /\ x = h.task.id)
    BY <1>4, <1>6 DEF IdsAskedIn
<1>14. h.op = "remove" /\ h.by = "user" => h.task.id \in IdsAskedIn(q)
    BY <1>4 DEF IdsAskedIn
<1>15. h.op = "remove" /\ h.by = "user" => IdsAskedIn(q) = IdsAskedIn(t) \cup {h.task.id}
    BY <1>12, <1>13, <1>14
<1>16. ~(h.op = "remove" /\ h.by = "user") => IdsAskedIn(t) = IdsAskedIn(q)
    BY <1>12, <1>13
<1> QED
    BY <1>4, <1>5, <1>10, <1>11, <1>15, <1>16 DEF t, h

\* A request for another plan may join the queue,
LEMMA OnceAppend ==
    ASSUME NEW q \in Seq(Request), NEW r \in Request, OncePerPlan(q),
           r.op = "insert" => PlansIn(r.tasks) \cap PlansQueued(q) = {}
    PROVE  OncePerPlan(Append(q, r))
<1>1. SUFFICES ASSUME NEW i \in Inserts(Append(q, r)), NEW j \in Inserts(Append(q, r)),
                      PlansIn(Append(q, r)[i].tasks) \cap PlansIn(Append(q, r)[j].tasks) # {}
               PROVE  i = j
    BY DEF OncePerPlan
<1>2. /\ \/ i \in Inserts(q) /\ Append(q, r)[i] = q[i]
         \/ i = Len(q) + 1 /\ r.op = "insert" /\ Append(q, r)[i] = r
      /\ \/ j \in Inserts(q) /\ Append(q, r)[j] = q[j]
         \/ j = Len(q) + 1 /\ r.op = "insert" /\ Append(q, r)[j] = r
    BY ReadAppend
<1>3. \A k \in Inserts(q) : PlansIn(q[k].tasks) \subseteq PlansQueued(q)
    BY DEF PlansQueued
<1> QED
    BY <1>1, <1>2, <1>3 DEF OncePerPlan

\* and the first one may leave.
LEMMA OnceTail ==
    ASSUME NEW q \in Seq(Request), q # <<>>, OncePerPlan(q)
    PROVE  /\ OncePerPlan(Tail(q))
           /\ Head(q).op = "insert" => PlansIn(Head(q).tasks) \cap PlansQueued(Tail(q)) = {}
<1>1. \A i \in Inserts(Tail(q)) : /\ i \in Nat \ {0} /\ i + 1 \in Inserts(q)
                                  /\ Tail(q)[i] = q[i + 1]
    BY ReadTail DEF Inserts
<1>2. OncePerPlan(Tail(q))
    <2>1. SUFFICES ASSUME NEW i \in Inserts(Tail(q)), NEW j \in Inserts(Tail(q)),
                          PlansIn(Tail(q)[i].tasks) \cap PlansIn(Tail(q)[j].tasks) # {}
                   PROVE  i = j
        BY DEF OncePerPlan
    <2>2. i + 1 = j + 1
        BY <1>1, <2>1 DEF OncePerPlan
    <2> QED
        BY <1>1, <2>2
<1>3. ASSUME Head(q).op = "insert",
             NEW p \in PlansIn(Head(q).tasks), p \in PlansQueued(Tail(q))
      PROVE  FALSE
    <2>1. PICK i \in Inserts(Tail(q)) : p \in PlansIn(Tail(q)[i].tasks)
        BY <1>3 DEF PlansQueued
    <2>2. i + 1 \in Inserts(q) /\ p \in PlansIn(q[i + 1].tasks)
        BY <1>1, <2>1
    <2>4. i + 1 # 1
        BY <1>1
    <2>3. 1 \in Inserts(q) /\ p \in PlansIn(q[1].tasks)
        BY <1>3, ReadTail DEF Inserts
    <2> QED
        BY <2>2, <2>3, <2>4 DEF OncePerPlan
<1> QED
    BY <1>2, <1>3

\* A plan that waits was submitted.
LEMMA QueuedAreSubmitted ==
    TypeOK /\ RequestsArePlans =>
        /\ PlansQueued(dbQueue) \subseteq DOMAIN plans
        /\ \A p \in DOMAIN plans : plans[p] \in Setting /\ p \in Nat
<1> SUFFICES ASSUME TypeOK, RequestsArePlans
             PROVE  /\ PlansQueued(dbQueue) \subseteq DOMAIN plans
                    /\ \A p \in DOMAIN plans : plans[p] \in Setting /\ p \in Nat
    OBVIOUS
<1>1. \A p \in DOMAIN plans : plans[p] \in Setting /\ p \in Nat
    BY DEF TypeOK
<1>2. ASSUME NEW i \in Inserts(dbQueue), NEW p \in PlansIn(dbQueue[i].tasks)
      PROVE  p \in DOMAIN plans
    <2>1. PICK r \in DOMAIN plans, w \in BOOLEAN : dbQueue[i].tasks = TasksOf(plans[r], r, w)
        BY DEF RequestsArePlans
    <2>2. PlansIn(dbQueue[i].tasks) = {r}
        BY <1>1, <2>1, TasksOfPlan
    <2> QED
        BY <1>2, <2>2
<1> QED
    BY <1>1, <1>2 DEF PlansQueued

-----------------------------------------------------------------------------
(* The steps and the invariant *)

\* A queue that lost its head, or got a request that is not an insertion, is as
\* good as before.
LEMMA QueueStep ==
    ASSUME TypeOK, StoreInv, UNCHANGED plans,
           \/ UNCHANGED dbQueue
           \/ dbQueue # <<>> /\ dbQueue' = Tail(dbQueue)
           \/ \E r \in Request : r.op # "insert" /\ dbQueue' = Append(dbQueue, r)
    PROVE  /\ RequestsArePlans' /\ OncePerPlan(dbQueue)'
           /\ PlansQueued(dbQueue)' \subseteq PlansQueued(dbQueue)
<1>1. dbQueue \in Seq(Request) /\ OncePerPlan(dbQueue)
    BY DEF TypeOK, StoreInv, PlansWaitOnce
<1>2. CASE UNCHANGED dbQueue
    BY <1>1, <1>2 DEF StoreInv, RequestsArePlans
<1>3. CASE dbQueue # <<>> /\ dbQueue' = Tail(dbQueue)
    <2>1. \A i \in Inserts(dbQueue') : i + 1 \in Inserts(dbQueue) /\ dbQueue'[i] = dbQueue[i + 1]
        BY <1>1, <1>3, ReadTail DEF Inserts
    <2>2. RequestsArePlans'
        BY <2>1 DEF StoreInv, RequestsArePlans
    <2>3. OncePerPlan(dbQueue')
        BY <1>1, <1>3, OnceTail
    <2>4. PlansQueued(dbQueue') \subseteq PlansQueued(dbQueue)
        BY <1>1, <1>3, ReadTail
    <2> QED
        BY <2>2, <2>3, <2>4
<1>4. CASE \E r \in Request : r.op # "insert" /\ dbQueue' = Append(dbQueue, r)
    <2>1. PICK r \in Request : r.op # "insert" /\ dbQueue' = Append(dbQueue, r)
        BY <1>4
    <2>2. \A i \in Inserts(dbQueue') : i \in Inserts(dbQueue) /\ dbQueue'[i] = dbQueue[i]
        BY <1>1, <2>1, ReadAppend
    <2>3. RequestsArePlans'
        BY <2>2 DEF StoreInv, RequestsArePlans
    <2>4. OncePerPlan(dbQueue')
        BY <1>1, <2>1, OnceAppend
    <2>5. PlansQueued(dbQueue') = PlansQueued(dbQueue)
        BY <1>1, <2>1, ReadAppend
    <2> QED
        BY <2>3, <2>4, <2>5
<1> QED
    BY <1>2, <1>3, <1>4

\* A closed transaction holds no plan.
LEMMA ClosedTxn == PlansOf(NoTxn) = {}
    BY DEF PlansOf, PlansIn, NoTxn

\* An open transaction holds its plan, in tasks or in rows.
LEMMA OpenTxn ==
    ASSUME TypeOK, NEW p \in DOMAIN plans, NEW w \in BOOLEAN, NEW n \in 0..plans[p].times,
           IsInserted(TasksOf(plans[p], p, w), n)
    PROVE  PlansOf(txn) = {p}
<1> DEFINE ts == TasksOf(plans[p], p, w)
<1>1. plans[p] \in Setting /\ p \in Nat
    BY DEF TypeOK
<1>2. /\ Len(ts) = plans[p].times /\ plans[p].times \in Nat \ {0} /\ n \in Nat
      /\ \A i \in 1..plans[p].times : ts[i].plan = p
    BY <1>1, TasksOfPlan
<1> HIDE DEF ts
<1>3. /\ n <= Len(ts) /\ Len(txn.todo) = Len(ts) - n
      /\ \A i \in DOMAIN txn.todo : txn.todo[i] = ts[n + i]
      /\ txn.added = {RowOf(ts[i], lastId + i) : i \in 1..n}
    BY DEF IsInserted, ts
<1>4. DOMAIN txn.todo = 1..(Len(ts) - n)
    BY <1>3 DEF TypeOK
<1>5. \A i \in DOMAIN txn.todo : txn.todo[i].plan = p
    BY <1>2, <1>3, <1>4
<1>6. \A i \in 1..n : RowOf(ts[i], lastId + i).plan = p
    BY <1>2 DEF RowOf
<1>7. PlansOf(txn) \subseteq {p}
    BY <1>3, <1>5, <1>6 DEF PlansOf, PlansIn
<1>8. p \in PlansOf(txn)
    <2>1. CASE n = 0
        <3>1. 1 \in DOMAIN txn.todo
            BY <1>2, <1>4, <2>1
        <3> QED
            BY <1>5, <3>1 DEF PlansOf, PlansIn
    <2>2. CASE n # 0
        <3>1. 1 \in 1..n
            BY <1>2, <2>2
        <3>2. RowOf(ts[1], lastId + 1) \in txn.added /\ RowOf(ts[1], lastId + 1).plan = p
            BY <1>3, <1>6, <3>1
        <3> QED
            BY <3>2 DEF PlansOf
    <2> QED
        BY <2>1, <2>2
<1> QED
    BY <1>7, <1>8

\* The manager's new plan is like no other that waits.
LEMMA SubmitStep == TypeOK /\ StoreInv /\ MgrRecvTaskSetting => StoreInv'
<1> SUFFICES ASSUME TypeOK, StoreInv, MgrRecvTaskSetting PROVE StoreInv'
    OBVIOUS
<1> USE DEF StoreInv
<1>1. PICK s \in Setting, w \in BOOLEAN :
          /\ plans' = Append(plans, s)
          /\ dbQueue' = Append(dbQueue, InsertReq(TasksOf(s, Len(plans) + 1, w)))
    BY DEF MgrRecvTaskSetting
<1> DEFINE p == Len(plans) + 1
           r == InsertReq(TasksOf(s, p, w))
<1>2. dbQueue \in Seq(Request) /\ plans \in Seq(Setting) /\ p \in Nat
    BY DEF TypeOK
<1>3. r \in Request /\ r.op = "insert" /\ r.tasks = TasksOf(s, p, w) /\ PlansIn(r.tasks) = {p}
    BY <1>2, TasksOfPlan, RequestFields DEF InsertReq
<1>4. /\ \A k \in DOMAIN plans : k \in DOMAIN plans' /\ plans'[k] = plans[k]
      /\ p \in DOMAIN plans' /\ plans'[p] = s /\ p \notin DOMAIN plans
    BY <1>1, <1>2
<1>5. UNCHANGED <<dbPc, txn, lastId>>
    BY DEF MgrRecvTaskSetting, dbVars
<1> HIDE DEF p, r
<1>6. \A i \in Inserts(dbQueue') : \/ i \in Inserts(dbQueue) /\ dbQueue'[i] = dbQueue[i]
                                   \/ dbQueue'[i] = r
    BY <1>1, <1>2, <1>3, ReadAppend DEF p, r
<1>7. RequestsArePlans'
    <2>1. SUFFICES ASSUME NEW i \in Inserts(dbQueue')
                   PROVE  \E k \in DOMAIN plans', v \in BOOLEAN :
                              dbQueue'[i].tasks = TasksOf(plans'[k], k, v)
        BY DEF RequestsArePlans
    <2>2. CASE i \in Inserts(dbQueue) /\ dbQueue'[i] = dbQueue[i]
        BY <1>4, <2>2 DEF RequestsArePlans
    <2>3. CASE dbQueue'[i] = r
        BY <1>3, <1>4, <2>3
    <2> QED
        BY <1>6, <2>2, <2>3
<1>8. PlansQueued(dbQueue) \subseteq DOMAIN plans
    BY QueuedAreSubmitted
<1>9. OncePerPlan(dbQueue')
    BY <1>1, <1>2, <1>3, <1>4, <1>8, OnceAppend DEF PlansWaitOnce, p, r
<1>10. PlansQueued(dbQueue') = PlansQueued(dbQueue) \cup {p}
    BY <1>1, <1>2, <1>3, ReadAppend DEF p, r
<1>11. PlansOf(txn) \subseteq DOMAIN plans
    <2>1. CASE dbPc # "insert"
        BY <2>1, ClosedTxn DEF ClosedIsEmpty
    <2>2. CASE dbPc = "insert"
        <3>1. PICK k \in DOMAIN plans, v \in BOOLEAN : \E n \in 0..plans[k].times :
                  IsInserted(TasksOf(plans[k], k, v), n)
            BY <2>2 DEF TxnIsAPlan
        <3>2. PlansOf(txn) = {k}
            BY <3>1, OpenTxn
        <3> QED
            BY <3>2
    <2> QED
        BY <2>1, <2>2
<1>12. PlansWaitOnce'
    BY <1>4, <1>5, <1>9, <1>10, <1>11 DEF PlansWaitOnce
<1>13. TxnIsAPlan'
    <2>1. SUFFICES ASSUME dbPc = "insert"
                   PROVE  (\E k \in DOMAIN plans, v \in BOOLEAN : \E n \in 0..plans[k].times :
                              IsInserted(TasksOf(plans[k], k, v), n))'
        BY <1>5 DEF TxnIsAPlan
    <2>2. PICK k \in DOMAIN plans, v \in BOOLEAN : \E n \in 0..plans[k].times :
              IsInserted(TasksOf(plans[k], k, v), n)
        BY <2>1 DEF TxnIsAPlan
    <2>3. k \in DOMAIN plans' /\ plans'[k] = plans[k]
        BY <1>4
    <2>4. \A n : IsInserted(TasksOf(plans[k], k, v), n)
                 => IsInserted(TasksOf(plans[k], k, v), n)'
        BY <1>5, <2>3 DEF IsInserted
    <2> QED
        BY <2>2, <2>3, <2>4
<1>14. ClosedIsEmpty'
    BY <1>5 DEF ClosedIsEmpty
<1> QED
    BY <1>7, <1>12, <1>13, <1>14

\* The transaction is opened with the plan at the head of the queue.
LEMMA BeginStep ==
    TypeOK /\ StoreInv /\ DbBeginInsert =>
        StoreInv' /\ PlansOf(txn)' = PlansIn(Head(dbQueue).tasks)
<1> SUFFICES ASSUME TypeOK, StoreInv, DbBeginInsert
             PROVE  StoreInv' /\ PlansOf(txn)' = PlansIn(Head(dbQueue).tasks)
    OBVIOUS
<1> USE DEF StoreInv
<1> DEFINE h == Head(dbQueue)
<1>1. /\ dbQueue # <<>> /\ h.op = "insert" /\ dbQueue' = Tail(dbQueue)
      /\ dbPc' = "insert" /\ txn' = [todo |-> h.tasks, added |-> {}, seq |-> lastId]
      /\ UNCHANGED <<plans, lastId>>
    BY DEF DbBeginInsert, Serves, LastIssued
<1>2. dbQueue \in Seq(Request) /\ lastId \in Nat
    BY DEF TypeOK
<1>3. /\ RequestsArePlans' /\ OncePerPlan(dbQueue)'
    BY <1>1, QueueStep
<1>4. 1 \in Inserts(dbQueue) /\ dbQueue[1] = h
    BY <1>1, <1>2, ReadTail DEF Inserts
<1>5. PICK p \in DOMAIN plans, w \in BOOLEAN : h.tasks = TasksOf(plans[p], p, w)
    BY <1>4 DEF RequestsArePlans
<1> DEFINE ts == TasksOf(plans[p], p, w)
<1>6. ts \in Seq(Task) /\ plans[p].times \in Nat \ {0}
    BY TasksOfPlan, QueuedAreSubmitted
<1>7. PlansOf(txn') = PlansIn(h.tasks)
    BY <1>1 DEF PlansOf
<1>8. PlansIn(h.tasks) \cap PlansQueued(Tail(dbQueue)) = {}
    BY <1>1, <1>2, OnceTail DEF PlansWaitOnce
<1>9. PlansWaitOnce'
    BY <1>1, <1>3, <1>7, <1>8 DEF PlansWaitOnce
<1>10. TxnIsAPlan'
    <2>1. IsInserted(ts, 0)'
        <3> HIDE DEF ts
        <3>1. /\ 0 <= Len(ts) /\ Len(ts) = Len(ts) - 0
              /\ \A i \in DOMAIN ts : ts[i] = ts[0 + i]
            BY <1>6
        <3>2. {RowOf(ts[i], lastId + i) : i \in 1..0} = {}
            OBVIOUS
        <3>3. ts' = ts
            BY <1>1 DEF ts
        <3>4. /\ txn'.todo = ts /\ txn'.added = {} /\ txn'.seq = lastId' + 0
            BY <1>1, <1>2, <1>5 DEF ts
        <3> QED
            BY <1>1, <3>1, <3>2, <3>3, <3>4 DEF IsInserted
    <2>2. p \in DOMAIN plans' /\ 0 \in 0..plans'[p].times
        BY <1>1, <1>6
    <2> QED
        BY <2>1, <2>2 DEF TxnIsAPlan
<1>11. ClosedIsEmpty'
    BY <1>1 DEF ClosedIsEmpty
<1> QED
    BY <1>3, <1>7, <1>9, <1>10, <1>11

\* One task after the other becomes a row of the transaction.
LEMMA InsertStep ==
    TypeOK /\ StoreInv /\ DbInsertRow => StoreInv' /\ PlansOf(txn)' = PlansOf(txn)
<1> SUFFICES ASSUME TypeOK, StoreInv, DbInsertRow
             PROVE  StoreInv' /\ PlansOf(txn)' = PlansOf(txn)
    OBVIOUS
<1> USE DEF StoreInv
<1> DEFINE t == Head(txn.todo)
           new == RowOf(t, txn.seq + 1)
<1>1. /\ dbPc = "insert" /\ txn.todo # <<>>
      /\ txn' = [todo |-> Tail(txn.todo), added |-> txn.added \cup {new}, seq |-> txn.seq + 1]
      /\ UNCHANGED <<plans, lastId, dbPc, dbQueue>>
    BY DEF DbInsertRow, RowOf
<1>2. txn.todo \in Seq(Task) /\ txn.seq \in Nat /\ lastId \in Nat
    BY DEF TypeOK
<1>3. /\ t = txn.todo[1] /\ 1 \in DOMAIN txn.todo
      /\ Len(txn.todo) \in Nat \ {0} /\ Len(Tail(txn.todo)) = Len(txn.todo) - 1
      /\ \A i \in DOMAIN Tail(txn.todo) : /\ i \in Nat \ {0} /\ i + 1 \in DOMAIN txn.todo
                                          /\ Tail(txn.todo)[i] = txn.todo[i + 1]
      /\ \A i \in DOMAIN txn.todo : i = 1 \/ (i - 1 \in DOMAIN Tail(txn.todo)
                                              /\ Tail(txn.todo)[i - 1] = txn.todo[i])
    BY <1>1, <1>2
<1>4. PICK p \in DOMAIN plans, w \in BOOLEAN : \E n \in 0..plans[p].times :
          IsInserted(TasksOf(plans[p], p, w), n)
    BY <1>1 DEF TxnIsAPlan
<1> DEFINE ts == TasksOf(plans[p], p, w)
<1>5. PICK n \in 0..plans[p].times : IsInserted(ts, n)
    BY <1>4
<1>6. /\ plans[p].times \in Nat \ {0} /\ Len(ts) = plans[p].times
    BY TasksOfPlan, QueuedAreSubmitted
<1>7. ts' = ts
    BY <1>1
<1> HIDE DEF ts
<1>8. /\ n \in Nat /\ n <= Len(ts) /\ txn.seq = lastId + n
      /\ Len(txn.todo) = Len(ts) - n
      /\ \A i \in DOMAIN txn.todo : txn.todo[i] = ts[n + i]
      /\ txn.added = {RowOf(ts[i], lastId + i) : i \in 1..n}
    BY <1>5, <1>6 DEF IsInserted
<1>9. n + 1 \in 0..plans[p].times /\ n + 1 <= Len(ts)
    BY <1>3, <1>6, <1>8
<1>10. new = RowOf(ts[n + 1], lastId + (n + 1))
    BY <1>2, <1>3, <1>8
<1>11. 1..(n + 1) = 1..n \cup {n + 1}
    BY <1>8
<1>12. txn'.added = {RowOf(ts[i], lastId + i) : i \in 1..(n + 1)}
    <2> HIDE DEF new
    <2> QED
        BY <1>1, <1>8, <1>10, <1>11
<1>13. /\ txn'.seq = lastId + (n + 1)
       /\ Len(txn'.todo) = Len(ts) - (n + 1)
       /\ \A i \in DOMAIN txn'.todo : txn'.todo[i] = ts[(n + 1) + i]
    <2>1. txn'.seq = txn.seq + 1 /\ txn'.todo = Tail(txn.todo)
        BY <1>1
    <2>2. txn'.seq = lastId + (n + 1)
        BY <1>2, <1>8, <2>1
    <2>3. Len(txn'.todo) = Len(ts) - (n + 1)
        BY <1>3, <1>6, <1>8, <2>1
    <2>4. ASSUME NEW i \in DOMAIN txn'.todo
          PROVE  txn'.todo[i] = ts[(n + 1) + i]
        <3>1. i \in Nat /\ i + 1 \in DOMAIN txn.todo /\ txn'.todo[i] = txn.todo[i + 1]
            BY <1>3, <2>1
        <3>2. txn.todo[i + 1] = ts[n + (i + 1)] /\ n + (i + 1) = (n + 1) + i
            BY <1>8, <3>1
        <3> QED
            BY <3>1, <3>2
    <2> QED
        BY <2>2, <2>3, <2>4
<1>14. IsInserted(ts, n + 1)'
    BY <1>1, <1>7, <1>9, <1>12, <1>13 DEF IsInserted
<1>15. TxnIsAPlan'
    <2>1. p \in DOMAIN plans' /\ n + 1 \in 0..plans'[p].times
        BY <1>1, <1>9
    <2> QED
        BY <1>14, <2>1 DEF TxnIsAPlan, ts
<1>16. PlansOf(txn') = PlansOf(txn)
    <2>1. new.plan = t.plan
        BY DEF RowOf
    <2>2. PlansIn(txn.todo) = PlansIn(Tail(txn.todo)) \cup {t.plan}
        <3> DEFINE a == txn.todo
                   b == Tail(txn.todo)
        <3>1. /\ \A i \in DOMAIN a : i = 1 \/ (i - 1 \in DOMAIN b /\ b[i - 1] = a[i])
              /\ \A i \in DOMAIN b : i + 1 \in DOMAIN a /\ b[i] = a[i + 1]
              /\ 1 \in DOMAIN a /\ t = a[1]
            BY <1>3
        <3> HIDE DEF a, b, t
        <3>2. PlansIn(a) \subseteq PlansIn(b) \cup {t.plan}
            BY <3>1 DEF PlansIn
        <3>3. PlansIn(b) \subseteq PlansIn(a) /\ t.plan \in PlansIn(a)
            BY <3>1 DEF PlansIn
        <3> QED
            BY <3>2, <3>3 DEF a, b
    <2>3. {r.plan : r \in txn.added \cup {new}} = {r.plan : r \in txn.added} \cup {t.plan}
        BY <2>1
    <2>4. txn'.todo = Tail(txn.todo) /\ txn'.added = txn.added \cup {new}
        BY <1>1
    <2> HIDE DEF t, new
    <2> QED
        BY <2>2, <2>3, <2>4 DEF PlansOf
<1>17. RequestsArePlans' /\ PlansWaitOnce' /\ ClosedIsEmpty'
    <2>1. ClosedIsEmpty'
        BY <1>1 DEF ClosedIsEmpty
    <2>2. PlansWaitOnce'
        BY <1>1, <1>16 DEF PlansWaitOnce
    <2> QED
        BY <1>1, <2>1, <2>2 DEF RequestsArePlans
<1> QED
    BY <1>15, <1>16, <1>17

\* Every other step closes the transaction or leaves it alone.
LEMMA OtherStoreStep ==
    ASSUME TypeOK, StoreInv, UNCHANGED plans,
           \/ UNCHANGED dbQueue
           \/ dbQueue # <<>> /\ dbQueue' = Tail(dbQueue)
           \/ \E r \in Request : r.op # "insert" /\ dbQueue' = Append(dbQueue, r),
           \/ txn' = NoTxn /\ dbPc' # "insert"
           \/ UNCHANGED <<txn, lastId>> /\ (dbPc' = "insert" <=> dbPc = "insert")
    PROVE  StoreInv'
<1> USE DEF StoreInv
<1>1. /\ RequestsArePlans' /\ OncePerPlan(dbQueue)'
      /\ PlansQueued(dbQueue)' \subseteq PlansQueued(dbQueue)
    BY QueueStep
<1>2. CASE txn' = NoTxn /\ dbPc' # "insert"
    BY <1>1, <1>2, ClosedTxn DEF PlansWaitOnce, ClosedIsEmpty, TxnIsAPlan
<1>3. CASE UNCHANGED <<txn, lastId>> /\ (dbPc' = "insert" <=> dbPc = "insert")
    <2>1. PlansWaitOnce' /\ ClosedIsEmpty'
        BY <1>1, <1>3 DEF PlansWaitOnce, ClosedIsEmpty
    <2>2. TxnIsAPlan'
        BY <1>3 DEF TxnIsAPlan, IsInserted
    <2> QED
        BY <1>1, <2>1, <2>2
<1> QED
    BY <1>2, <1>3

\* No step breaks the invariant.
LEMMA StoreStep == IInv /\ StoreInv /\ [Next]_vars => StoreInv'
<1> SUFFICES ASSUME IInv, StoreInv, [Next]_vars PROVE StoreInv'
    OBVIOUS
<1>1. TypeOK
    BY DEF IInv
<1>2. CASE UNCHANGED vars
    BY <1>1, <1>2, OtherStoreStep DEF vars
<1>3. CASE DbBeginInsert
    BY <1>1, <1>3, BeginStep
<1>4. CASE DbInsertRow
    BY <1>1, <1>4, InsertStep
<1>5. CASE DbInsertFails \/ DbCommit
    BY <1>1, <1>5, OtherStoreStep DEF DbInsertFails, DbCommit
<1>6. CASE DbInit \/ DbRemove \/ DbQuery
    BY <1>1, <1>6, OtherStoreStep DEF DbInit, DbRemove, DbQuery, Serves, dbVars
<1>7. CASE DbRefresh
    BY <1>1, <1>7, OtherStoreStep DEF DbRefresh
<1>8. CASE MgrDBInitFinished
    <2>1. Query_Req \in Request /\ Query_Req.op # "insert"
        BY RequestFields DEF Query_Req
    <2> QED
        BY <1>1, <1>8, <2>1, OtherStoreStep DEF MgrDBInitFinished, dbVars
<1>9. CASE MgrRecvTaskSetting
    BY <1>1, <1>9, SubmitStep
<1>10. CASE CheckTake \/ CheckEnd
    BY <1>1, <1>10, OtherStoreStep DEF CheckTake, CheckEnd, dbVars
<1>11. CASE CheckNext
    <2>1. PICK t \in Listed : dbQueue' = Append(dbQueue, RemoveReq(t, "check"))
        BY <1>1, <1>11 DEF CheckNext, AskRemoval, Earliest, TypeOK
    <2>2. RemoveReq(t, "check") \in Request /\ RemoveReq(t, "check").op # "insert"
        BY RequestFields DEF RemoveReq
    <2> QED
        BY <1>1, <1>11, <2>1, <2>2, OtherStoreStep DEF CheckNext, dbVars
<1>12. CASE GuiShow \/ GuiAskDelete \/ TimePasses
    BY <1>1, <1>12, OtherStoreStep DEF GuiShow, GuiAskDelete, TimePasses, dbVars
<1>13. CASE GuiAnswer
    <2>1. \A t \in choice : /\ RemoveReq(t, "user") \in Request
                            /\ RemoveReq(t, "user").op # "insert"
        BY <1>1, RequestFields DEF RemoveReq, TypeOK
    <2>2. UNCHANGED <<plans, txn, lastId, dbPc>>
        BY <1>13 DEF GuiAnswer, dbVars
    <2>3. \/ UNCHANGED dbQueue
          \/ \E t \in choice : dbQueue' = Append(dbQueue, RemoveReq(t, "user"))
        BY <1>13 DEF GuiAnswer
    <2> QED
        BY <1>1, <2>1, <2>2, <2>3, OtherStoreStep
<1>14. CASE Crash
    <2>1. dbQueue' = <<>> /\ txn' = NoTxn /\ dbPc' # "insert"
        BY <1>14 DEF Crash
    <2>2. Inserts(<<>>) = {}
        BY DEF Inserts
    <2>3. PlansQueued(<<>>) = {}
        BY <2>2 DEF PlansQueued
    <2> QED
        BY <2>1, <2>2, <2>3 DEF StoreInv, RequestsArePlans, PlansWaitOnce, OncePerPlan,
           ClosedIsEmpty, TxnIsAPlan
<1>15. CASE Start
    <2>1. dbQueue = <<>> /\ dbQueue' = <<Init_Req>>
        BY <1>15 DEF Start, IInv, DownIsEmpty
    <2>2. dbQueue' = Append(dbQueue, Init_Req)
        BY <2>1
    <2>3. Init_Req \in Request /\ Init_Req.op # "insert"
        BY RequestFields DEF Init_Req
    <2> QED
        BY <1>1, <1>15, <2>2, <2>3, OtherStoreStep DEF Start, dbVars
<1> QED
    BY <1>2, <1>3, <1>4, <1>5, <1>6, <1>7, <1>8, <1>9, <1>10, <1>11, <1>12, <1>13, <1>14,
       <1>15 DEF Next, DbStep, MgrStep, GuiStep

\* The first client has nothing queued but its own start.
LEMMA StoreInit == Init => StoreInv
<1> SUFFICES ASSUME Init PROVE StoreInv
    OBVIOUS
<1>1. Inserts(dbQueue) = {}
    BY DEF Init, Inserts, Init_Req
<1>2. PlansQueued(dbQueue) = {}
    BY <1>1 DEF PlansQueued
<1> QED
    BY <1>1, <1>2 DEF Init, StoreInv, RequestsArePlans, PlansWaitOnce, OncePerPlan,
       ClosedIsEmpty, TxnIsAPlan

\* What waits in the queue or in the transaction is whole plans, each of them once:
\* updateBroadTaskList works through one plan at a time, in order.
THEOREM StoreCorrect == Spec => [](IInv /\ StoreInv)
<1>1. Init => IInv /\ StoreInv
    BY InvInit, StoreInit
<1>2. (IInv /\ StoreInv) /\ [Next]_vars => (IInv /\ StoreInv)'
    BY InvStep, StoreStep
<1> QED
    BY <1>1, <1>2, PTL DEF Spec

-----------------------------------------------------------------------------
(* The promise of the store *)

\* An offset that fits into an int is the planned one, whatever the build does.
LEMMA OffsetFits ==
    ASSUME NEW x \in Nat, x < Half, NEW w \in BOOLEAN
    PROVE  Offset(x, w) = x
<1>1. Half \in Nat \ {0}
    BY BoundAssumption
<1>2. (x + Half) \in Nat /\ 2 * Half \in Nat \ {0} /\ x + Half < 2 * Half
    BY <1>1
<1>3. \A a \in Nat, b \in Nat \ {0} : a < b => a % b = a
    OBVIOUS
<1>4. (x + Half) % (2 * Half) = x + Half
    <2> DEFINE a == x + Half
               b == 2 * Half
    <2> HIDE DEF a, b
    <2>1. a \in Nat /\ b \in Nat \ {0} /\ a < b
        BY <1>2 DEF a, b
    <2>2. a % b = a
        BY <1>3, <2>1
    <2> QED
        BY <2>2 DEF a, b
<1>5. Wrap(x) = x
    BY <1>1, <1>4 DEF Wrap
<1> QED
    BY <1>5 DEF Offset

\* What a transaction with nothing to do has added: the whole of its plan.
LEMMA WholePlan ==
    ASSUME IInv, StoreInv, dbPc = "insert", txn.todo = <<>>
    PROVE  \E p \in DOMAIN plans :
              /\ PlansOf(txn) = {p} /\ plans[p] \in Setting
              /\ txn.seq = lastId + plans[p].times
              /\ {r.id : r \in txn.added} = (lastId + 1)..(lastId + plans[p].times)
              /\ \A r \in txn.added : /\ r.plan = p /\ r.stations = plans[p].stations
                                      /\ r.id \in (lastId + 1)..(lastId + plans[p].times)
                                      /\ LET offset == (r.id - lastId - 1) * plans[p].gap
                                         IN  offset < Half => r.time = plans[p].start + offset
<1>1. TypeOK /\ lastId \in Nat
    BY DEF IInv, TypeOK
<1>2. PICK p \in DOMAIN plans, w \in BOOLEAN : \E n \in 0..plans[p].times :
          IsInserted(TasksOf(plans[p], p, w), n)
    BY DEF StoreInv, TxnIsAPlan
<1> DEFINE ts == TasksOf(plans[p], p, w)
           s == plans[p]
<1>3. PICK n \in 0..s.times : IsInserted(ts, n)
    BY <1>2
<1>4. s \in Setting /\ p \in Nat
    BY <1>1, QueuedAreSubmitted DEF StoreInv
<1>5. s.start \in Int /\ s.gap \in Nat
    BY <1>4, SettingAssumption
<1>6. /\ s.times \in Nat \ {0} /\ Len(ts) = s.times
      /\ \A i \in 1..s.times : /\ ts[i].plan = p /\ ts[i].stations = s.stations
                               /\ ts[i].time = s.start + Offset((i - 1) * s.gap, w)
    BY <1>4, TasksOfPlan
<1>7. PlansOf(txn) = {p}
    BY <1>1, <1>3, OpenTxn
<1> HIDE DEF ts, s
<1>8. n = s.times
    <2>1. Len(txn.todo) = 0 /\ Len(txn.todo) = Len(ts) - n
        BY <1>3 DEF IsInserted
    <2> QED
        BY <1>6, <2>1
<1>9. /\ txn.seq = lastId + s.times
      /\ txn.added = {RowOf(ts[i], lastId + i) : i \in 1..s.times}
    BY <1>3, <1>8 DEF IsInserted
<1>10. ASSUME NEW r \in txn.added
       PROVE  /\ r.plan = p /\ r.stations = s.stations
              /\ r.id \in (lastId + 1)..(lastId + s.times)
              /\ LET offset == (r.id - lastId - 1) * s.gap
                 IN  offset < Half => r.time = s.start + offset
    <2>1. PICK i \in 1..s.times : r = RowOf(ts[i], lastId + i)
        BY <1>9
    <2>2. /\ r.id = lastId + i /\ r.plan = p /\ r.stations = s.stations
          /\ r.time = s.start + Offset((i - 1) * s.gap, w)
        BY <1>6, <2>1 DEF RowOf
    <2>3. i \in Nat /\ r.id \in (lastId + 1)..(lastId + s.times)
        BY <1>1, <1>6, <2>2
    <2>4. r.id - lastId - 1 = i - 1 /\ i - 1 \in Nat
        BY <1>1, <2>2, <2>3
    <2>5. (i - 1) * s.gap \in Nat
        BY <1>5, <2>4
    <2>6. (i - 1) * s.gap < Half => Offset((i - 1) * s.gap, w) = (i - 1) * s.gap
        BY <2>5, OffsetFits
    <2> QED
        BY <2>2, <2>3, <2>4, <2>6
<1>11. {r.id : r \in txn.added} = (lastId + 1)..(lastId + s.times)
    <2>1. ASSUME NEW x \in (lastId + 1)..(lastId + s.times)
          PROVE  \E r \in txn.added : r.id = x
        <3>1. x - lastId \in 1..s.times /\ lastId + (x - lastId) = x
            BY <1>1, <1>6
        <3>2. RowOf(ts[x - lastId], lastId + (x - lastId)) \in txn.added
            BY <1>9, <3>1
        <3>3. RowOf(ts[x - lastId], lastId + (x - lastId)).id = x
            BY <3>1 DEF RowOf
        <3> QED
            BY <3>2, <3>3
    <2> QED
        BY <1>10, <2>1
<1> QED
    BY <1>4, <1>7, <1>9, <1>10, <1>11 DEF s

\* A commit stores one plan: its tasks are the only new rows, and the plan waits no
\* longer.
LEMMA CommitStep ==
    IInv /\ StoreInv /\ DbCommit => \E p \in PlansWaiting : Promise!Store(p)
<1> SUFFICES ASSUME IInv, StoreInv, DbCommit
             PROVE  \E p \in PlansWaiting : Promise!Store(p)
    OBVIOUS
<1>1. /\ dbPc = "insert" /\ txn.todo = <<>>
      /\ rows' = rows \cup txn.added /\ lastId' = txn.seq /\ txn' = NoTxn
      /\ UNCHANGED <<now, plans, dbQueue>>
    BY DEF DbCommit
<1>2. PICK p \in DOMAIN plans :
          /\ PlansOf(txn) = {p} /\ plans[p] \in Setting
          /\ txn.seq = lastId + plans[p].times
          /\ {r.id : r \in txn.added} = (lastId + 1)..(lastId + plans[p].times)
          /\ \A r \in txn.added : /\ r.plan = p /\ r.stations = plans[p].stations
                                  /\ r.id \in (lastId + 1)..(lastId + plans[p].times)
                                  /\ LET offset == (r.id - lastId - 1) * plans[p].gap
                                     IN  offset < Half => r.time = plans[p].start + offset
    BY <1>1, WholePlan
<1>3. \A r \in rows : r.id \in 1..lastId /\ lastId \in Nat
    BY DEF IInv, IdsAreIssued, TypeOK
<1>4. \A r \in txn.added : r.id > lastId
    BY <1>2 DEF IInv, TypeOK
<1>5. rows' \ rows = txn.added
    BY <1>1, <1>3, <1>4
<1>6. \A r, q \in txn.added : r.id = q.id => r = q
    BY <1>1 DEF IInv, TxnIsFresh
<1>7. Promise!AreTheTasksOf(p, rows' \ rows)
    BY <1>2, <1>5, <1>6 DEF Promise!AreTheTasksOf
<1>8. PlansWaiting' = PlansWaiting \ {p}
    <2>1. PlansWaiting = PlansQueued(dbQueue) \cup {p} /\ p \notin PlansQueued(dbQueue)
        BY <1>2 DEF PlansWaiting, StoreInv, PlansWaitOnce
    <2>2. PlansWaiting' = PlansQueued(dbQueue)
        BY <1>1, ClosedTxn DEF PlansWaiting
    <2> QED
        BY <2>1, <2>2
<1>9. IdsAsked' = IdsAsked
    BY <1>1 DEF IdsAsked
<1>10. p \in PlansWaiting
    BY <1>2 DEF PlansWaiting
<1>11. Promise!Store(p)
    BY <1>1, <1>2, <1>7, <1>8, <1>9 DEF Promise!Store
<1> QED
    BY <1>10, <1>11

\* A removal takes the task that was due or asked for, or it changes nothing but the
\* requests.
LEMMA RemoveStep ==
    IInv /\ StoreInv /\ DbRemove => Promise!Next
<1> SUFFICES ASSUME IInv, StoreInv, DbRemove PROVE Promise!Next
    OBVIOUS
<1> DEFINE h == Head(dbQueue)
           i == h.task.id
<1>1. /\ dbQueue \in Seq(Request) /\ dbQueue # <<>> /\ h.op = "remove"
      /\ dbQueue' = Tail(dbQueue)
      /\ rows' = Without(i) \/ rows' = rows
      /\ UNCHANGED <<now, plans, lastId, txn>>
    BY DEF DbRemove, Serves, IInv, TypeOK
<1>2. h \in Request /\ h.by \in {"check", "user"}
    <2>1. h \in Request
        BY <1>1, HeadTail
    <2> QED
        BY <1>1, <2>1 DEF Request
<1>3. h.task \in PendingRemovals
    BY <1>1, RemovalsTail DEF PendingRemovals
<1>4. i \in 1..lastId /\ lastId \in Nat
    BY <1>3 DEF IInv, IdsAreIssued, Copies, TypeOK
<1>5. PlansWaiting' = PlansWaiting
    BY <1>1, ReadTail DEF PlansWaiting
<1>6. IdsAsked' \subseteq IdsAsked /\ (h.by = "user" => IdsAsked = IdsAsked' \cup {i})
      /\ (h.by = "check" => IdsAsked' = IdsAsked)
    BY <1>1, ReadTail DEF IdsAsked
<1> HIDE DEF h, i
<1>7. CASE rows' = rows
    <2>1. Promise!GiveUp
        BY <1>1, <1>5, <1>6, <1>7 DEF Promise!GiveUp
    <2> QED
        BY <2>1 DEF Promise!Next
<1>8. CASE rows' = Without(i) /\ rows' # rows
    <2>1. rows' = {r \in rows : r.id # i}
        BY <1>4, <1>8 DEF Without
    <2>2. PICK r \in rows : r.id = i
        BY <1>8, <2>1
    <2>3. i \in IdsAsked \/ \E q \in rows : q.id = i /\ q.time <= now
        <3>1. CASE h.by = "user"
            BY <1>6, <3>1
        <3>2. CASE h.by = "check"
            <4>1. 1 \in DOMAIN dbQueue /\ dbQueue[1] = h
                BY <1>1, ReadTail DEF h
            <4>2. h.task.time <= now
                BY <1>1, <3>2, <4>1 DEF IInv, ChecksAreDue, IsDue
            <4>3. r.time = h.task.time
                BY <1>3, <2>2 DEF IInv, IdsNameOneTask, Copies, i
            <4> QED
                BY <2>2, <4>2, <4>3
        <3> QED
            BY <1>2, <3>1, <3>2
    <2>4. IdsAsked' \in {IdsAsked, IdsAsked \ {i}}
        BY <1>2, <1>6
    <2>5. Promise!Remove(i)
        BY <1>1, <1>5, <2>1, <2>3, <2>4 DEF Promise!Remove
    <2> QED
        BY <1>4, <2>5 DEF Promise!Next
<1> QED
    BY <1>1, <1>7, <1>8

\* A submitted plan waits from now on.
LEMMA SubmittedStep ==
    TypeOK /\ MgrRecvTaskSetting => Promise!Submit
<1> SUFFICES ASSUME TypeOK, MgrRecvTaskSetting PROVE Promise!Submit
    OBVIOUS
<1>1. PICK s \in Setting, w \in BOOLEAN :
          /\ plans' = Append(plans, s)
          /\ dbQueue' = Append(dbQueue, InsertReq(TasksOf(s, Len(plans) + 1, w)))
    BY DEF MgrRecvTaskSetting
<1> DEFINE p == Len(plans) + 1
           r == InsertReq(TasksOf(s, p, w))
<1>2. dbQueue \in Seq(Request) /\ p \in Nat
    BY DEF TypeOK
<1>3. r \in Request /\ r.op = "insert" /\ PlansIn(r.tasks) = {p}
    BY <1>2, TasksOfPlan, RequestFields DEF InsertReq
<1>4. UNCHANGED <<now, rows, lastId, txn>>
    BY DEF MgrRecvTaskSetting, dbVars
<1> HIDE DEF r
<1>5. /\ PlansQueued(dbQueue') = PlansQueued(dbQueue) \cup {p}
      /\ IdsAskedIn(dbQueue') = IdsAskedIn(dbQueue)
    BY <1>1, <1>2, <1>3, ReadAppend DEF r
<1>6. PlansWaiting' = PlansWaiting \cup {p} /\ IdsAsked' = IdsAsked
    BY <1>4, <1>5 DEF PlansWaiting, IdsAsked
<1> QED
    BY <1>1, <1>4, <1>6 DEF Promise!Submit

\* The operator asks for a task whose number was handed out.
LEMMA AnswerStep ==
    IInv /\ GuiAnswer => Promise!Next \/ UNCHANGED Promise!vars
<1> SUFFICES ASSUME IInv, GuiAnswer PROVE Promise!Next \/ UNCHANGED Promise!vars
    OBVIOUS
<1>1. UNCHANGED <<now, rows, lastId, plans, txn>>
    BY DEF GuiAnswer, dbVars
<1>2. CASE UNCHANGED dbQueue
    BY <1>1, <1>2 DEF Promise!vars, PlansWaiting, IdsAsked
<1>3. CASE \E t \in choice : dbQueue' = Append(dbQueue, RemoveReq(t, "user"))
    <2>1. PICK t \in choice : dbQueue' = Append(dbQueue, RemoveReq(t, "user"))
        BY <1>3
    <2> DEFINE r == RemoveReq(t, "user")
    <2>2. r \in Request /\ r.op = "remove" /\ r.by = "user" /\ r.task = t
        BY RequestFields DEF RemoveReq, IInv, TypeOK
    <2>3. dbQueue \in Seq(Request)
        BY DEF IInv, TypeOK
    <2> HIDE DEF r
    <2>4. /\ PlansQueued(dbQueue') = PlansQueued(dbQueue)
          /\ IdsAskedIn(dbQueue') = IdsAskedIn(dbQueue) \cup {t.id}
        BY <2>1, <2>2, <2>3, ReadAppend DEF r
    <2>5. t.id \in 1..lastId
        BY DEF IInv, IdsAreIssued, Copies
    <2>6. Promise!Ask(t.id)
        BY <1>1, <2>4 DEF Promise!Ask, PlansWaiting, IdsAsked
    <2> QED
        BY <2>5, <2>6 DEF Promise!Next
<1> QED
    BY <1>2, <1>3 DEF GuiAnswer

\* What fails or ends with the client is given up.
LEMMA GiveUpStep ==
    StoreInv /\ (DbInsertFails \/ Crash) => Promise!GiveUp
<1> SUFFICES ASSUME StoreInv, DbInsertFails \/ Crash PROVE Promise!GiveUp
    OBVIOUS
<1>1. PlansOf(txn') = {}
    BY ClosedTxn DEF DbInsertFails, Crash
<1>2. UNCHANGED <<now, rows, lastId, plans>>
    BY DEF DbInsertFails, Crash
<1>3. PlansQueued(<<>>) = {} /\ IdsAskedIn(<<>>) = {}
    <2>1. Inserts(<<>>) = {}
        BY DEF Inserts
    <2> QED
        BY <2>1 DEF PlansQueued, IdsAskedIn
<1>4. dbQueue' = dbQueue \/ dbQueue' = <<>>
    BY DEF DbInsertFails, Crash
<1>5. PlansQueued(dbQueue') \subseteq PlansQueued(dbQueue) /\ IdsAskedIn(dbQueue') \subseteq IdsAskedIn(dbQueue)
    BY <1>3, <1>4
<1> QED
    BY <1>1, <1>2, <1>5 DEF Promise!GiveUp, PlansWaiting, IdsAsked

\* The other steps of the database thread are none of the store's.
LEMMA DbStutter ==
    IInv /\ StoreInv /\ (DbInit \/ DbQuery \/ DbBeginInsert \/ DbInsertRow \/ DbRefresh)
        => UNCHANGED Promise!vars
<1> SUFFICES ASSUME IInv, StoreInv,
                    DbInit \/ DbQuery \/ DbBeginInsert \/ DbInsertRow \/ DbRefresh
             PROVE  UNCHANGED Promise!vars
    OBVIOUS
<1> USE DEF Promise!vars, PlansWaiting, IdsAsked
<1>1. TypeOK /\ dbQueue \in Seq(Request)
    BY DEF IInv, TypeOK
<1>2. UNCHANGED <<now, rows, lastId, plans>>
    BY DEF DbInit, DbQuery, DbBeginInsert, DbInsertRow, DbRefresh, dbVars
<1>3. CASE DbInit \/ DbQuery
    <2>1. /\ dbQueue # <<>> /\ dbQueue' = Tail(dbQueue) /\ txn' = txn
          /\ Head(dbQueue).op # "insert" /\ Head(dbQueue).op # "remove"
        BY <1>3 DEF DbInit, DbQuery, Serves, dbVars
    <2>2. /\ PlansQueued(dbQueue') = PlansQueued(dbQueue)
          /\ IdsAskedIn(dbQueue') = IdsAskedIn(dbQueue)
        BY <1>1, <2>1, ReadTail
    <2> QED
        BY <1>2, <2>1, <2>2
<1>4. CASE DbBeginInsert
    <2>1. /\ dbQueue # <<>> /\ dbQueue' = Tail(dbQueue) /\ Head(dbQueue).op = "insert"
          /\ dbPc # "insert"
        BY <1>4 DEF DbBeginInsert, Serves
    <2>2. PlansOf(txn) = {}
        BY <2>1, ClosedTxn DEF StoreInv, ClosedIsEmpty
    <2>3. PlansOf(txn') = PlansIn(Head(dbQueue).tasks)
        BY <1>1, <1>4, BeginStep
    <2>4. /\ PlansQueued(dbQueue) = PlansQueued(dbQueue') \cup PlansIn(Head(dbQueue).tasks)
          /\ IdsAskedIn(dbQueue') = IdsAskedIn(dbQueue)
        BY <1>1, <2>1, ReadTail
    <2> QED
        BY <1>2, <2>2, <2>3, <2>4
<1>5. CASE DbInsertRow
    <2>1. PlansOf(txn') = PlansOf(txn)
        BY <1>1, <1>5, InsertStep
    <2>2. dbQueue' = dbQueue
        BY <1>5 DEF DbInsertRow
    <2> QED
        BY <1>2, <2>1, <2>2
<1>6. CASE DbRefresh
    BY <1>2, <1>6 DEF DbRefresh
<1> QED
    BY <1>3, <1>4, <1>5, <1>6

\* So are those of the manager, the window and the start, but for the submission and
\* the answer.
LEMMA OtherStutter ==
    IInv /\ (MgrDBInitFinished \/ CheckTake \/ CheckNext \/ CheckEnd \/ GuiShow
             \/ GuiAskDelete \/ Start) => UNCHANGED Promise!vars
<1> SUFFICES ASSUME IInv, MgrDBInitFinished \/ CheckTake \/ CheckNext \/ CheckEnd \/ GuiShow
                          \/ GuiAskDelete \/ Start
             PROVE  UNCHANGED Promise!vars
    OBVIOUS
<1> USE DEF Promise!vars, PlansWaiting, IdsAsked
<1>1. dbQueue \in Seq(Request) /\ taken \subseteq Listed
    BY DEF IInv, TypeOK
<1>2. UNCHANGED <<now, rows, lastId, plans, txn>>
    BY DEF MgrDBInitFinished, CheckTake, CheckNext, CheckEnd, GuiShow, GuiAskDelete, Start, dbVars
<1>3. CASE \E r \in Request : /\ r.op # "insert" /\ ~(r.op = "remove" /\ r.by = "user")
                              /\ dbQueue' = Append(dbQueue, r)
    <2>1. /\ PlansQueued(dbQueue') = PlansQueued(dbQueue)
          /\ IdsAskedIn(dbQueue') = IdsAskedIn(dbQueue)
        BY <1>1, <1>3, ReadAppend
    <2> QED
        BY <1>2, <2>1
<1>4. CASE MgrDBInitFinished
    BY <1>3, <1>4, RequestFields DEF MgrDBInitFinished, Query_Req
<1>5. CASE CheckNext
    <2>1. PICK t \in Listed : dbQueue' = Append(dbQueue, RemoveReq(t, "check"))
        BY <1>1, <1>5 DEF CheckNext, AskRemoval, Earliest
    <2>2. /\ RemoveReq(t, "check") \in Request
          /\ RemoveReq(t, "check").op = "remove" /\ RemoveReq(t, "check").by = "check"
        BY RequestFields DEF RemoveReq
    <2> QED
        BY <1>3, <2>1, <2>2
<1>6. CASE Start
    <2>1. dbQueue' = Append(dbQueue, Init_Req)
        BY <1>6 DEF Start, IInv, DownIsEmpty
    <2> QED
        BY <1>3, <2>1, RequestFields DEF Init_Req
<1>7. CASE CheckTake \/ CheckEnd \/ GuiShow \/ GuiAskDelete
    BY <1>2, <1>7 DEF CheckTake, CheckEnd, GuiShow, GuiAskDelete
<1> QED
    BY <1>4, <1>5, <1>6, <1>7

\* Every step of the threads is one step of the store, or none.
LEMMA PromiseStep ==
    IInv /\ StoreInv /\ [Next]_vars => [Promise!Next]_(Promise!vars)
<1> SUFFICES ASSUME IInv, StoreInv, [Next]_vars
             PROVE  Promise!Next \/ UNCHANGED Promise!vars
    OBVIOUS
<1>1. CASE UNCHANGED vars
    BY <1>1 DEF vars, Promise!vars, PlansWaiting, IdsAsked
<1>2. CASE DbCommit
    BY <1>2, CommitStep DEF Promise!Next
<1>3. CASE DbRemove
    BY <1>3, RemoveStep
<1>4. CASE MgrRecvTaskSetting
    BY <1>4, SubmittedStep DEF Promise!Next, IInv
<1>5. CASE GuiAnswer
    BY <1>5, AnswerStep
<1>6. CASE DbInsertFails \/ Crash
    BY <1>6, GiveUpStep DEF Promise!Next
<1>7. CASE TimePasses
    <2>1. Promise!Tick
        BY <1>7 DEF TimePasses, dbVars, Promise!Tick, PlansWaiting, IdsAsked
    <2> QED
        BY <2>1 DEF Promise!Next
<1>8. CASE \/ DbInit \/ DbQuery \/ DbBeginInsert \/ DbInsertRow \/ DbRefresh
           \/ MgrDBInitFinished \/ CheckTake \/ CheckNext \/ CheckEnd \/ GuiShow
           \/ GuiAskDelete \/ Start
    BY <1>8, DbStutter, OtherStutter
<1> QED
    BY <1>1, <1>2, <1>3, <1>4, <1>5, <1>6, <1>7, <1>8 DEF Next, DbStep, MgrStep, GuiStep

\* The new client's store is the new store.
LEMMA PromiseInit == Init => Promise!Init
<1> SUFFICES ASSUME Init PROVE Promise!Init
    OBVIOUS
<1>1. dbQueue = <<Init_Req>> /\ txn = NoTxn
    BY DEF Init
<1>2. PlansWaiting = {} /\ IdsAsked = {}
    <2>1. Inserts(dbQueue) = {}
        BY <1>1 DEF Inserts, Init_Req
    <2>2. PlansQueued(dbQueue) = {}
        BY <2>1 DEF PlansQueued
    <2>3. IdsAskedIn(dbQueue) = {}
        BY <1>1 DEF IdsAskedIn, Init_Req
    <2> QED
        BY <1>1, <2>2, <2>3, ClosedTxn DEF PlansWaiting, IdsAsked
<1> QED
    BY <1>2 DEF Init, Promise!Init

\* The threads, the queue, the transaction and the restarts of the client implement
\* the atomic store, for all settings, bounds and faults.
THEOREM PromiseIsKept == Spec => StoreKeepsItsPromise
<1>1. Init => Promise!Init
    BY PromiseInit
<1>2. (IInv /\ StoreInv) /\ [Next]_vars => [Promise!Next]_(Promise!vars)
    BY PromiseStep
<1> QED
    BY <1>1, <1>2, StoreCorrect, PTL DEF Spec, StoreKeepsItsPromise, Promise!Spec

\* A set whose members are numbered without a gap has as many members as numbers.
LEMMA NumberedSet ==
    ASSUME NEW S, NEW a \in Nat, NEW n \in Nat,
           {r.id : r \in S} = (a + 1)..(a + n), \A r, q \in S : r.id = q.id => r = q
    PROVE  Cardinality(S) = n
<1> DEFINE I == 1..n
           g == [x \in I |-> CHOOSE r \in S : r.id = a + x]
<1>1. \A x \in I : a + x \in {r.id : r \in S} /\ x \in Int
    OBVIOUS
<1>2. \A x \in I : \E r \in S : r.id = a + x
    BY <1>1
<1>3. \A x \in I : g[x] \in S /\ g[x].id = a + x
    BY <1>2
<1>4. \A r \in S : \E x \in I : r.id = a + x
    <2>1. \A y \in (a + 1)..(a + n) : y - a \in I /\ y = a + (y - a)
        OBVIOUS
    <2> QED
        BY <2>1
<1>5. g \in [I -> S]
    BY <1>3
<1> HIDE DEF g
<1>6. \A x, y \in I : g[x] = g[y] => x = y
    BY <1>1, <1>3
<1>7. \A r \in S : \E x \in I : g[x] = r
    BY <1>3, <1>4
<1> HIDE DEF I
<1>8. g \in Bijection(I, S)
    BY <1>5, <1>6, <1>7 DEF Bijection, Injection, Surjection, IsInjective
<1>9. ExistsBijection(I, S)
    BY <1>8 DEF ExistsBijection
<1> QED
    BY <1>9, FS_CountingElements DEF I

\* The tasks of a plan come into the table in one step, all of them.
THEOREM PlansAreWhole == Spec => PlanIsAllOrNothing
<1>1. ASSUME IInv, StoreInv, Next, NEW p \in DOMAIN plans
      PROVE  LET new == {r \in rows' \ rows : r.plan = p}
             IN  new = {} \/ Cardinality(new) = plans[p].times
    <2> DEFINE new == {r \in rows' \ rows : r.plan = p}
    <2>1. CASE rows' \subseteq rows
        BY <2>1
    <2>2. CASE DbCommit
        <3>1. /\ dbPc = "insert" /\ txn.todo = <<>> /\ rows' = rows \cup txn.added
            BY <2>2 DEF DbCommit
        <3>2. PICK k \in DOMAIN plans :
                  /\ plans[k] \in Setting
                  /\ {r.id : r \in txn.added} = (lastId + 1)..(lastId + plans[k].times)
                  /\ \A r \in txn.added :
                        /\ r.plan = k
                        /\ r.id \in (lastId + 1)..(lastId + plans[k].times)
            BY <1>1, <3>1, WholePlan
        <3>3. lastId \in Nat /\ plans[k].times \in Nat
            BY <1>1, <3>2, SettingAssumption DEF IInv, TypeOK
        <3>4. \A r \in rows : r.id \in 1..lastId
            BY <1>1 DEF IInv, IdsAreIssued
        <3>5. \A r \in txn.added : r \notin rows
            BY <3>2, <3>3, <3>4
        <3>6. rows' \ rows = txn.added
            BY <3>1, <3>5
        <3>7. CASE p # k
            <4>1. new = {}
                BY <3>2, <3>6, <3>7
            <4> QED
                BY <4>1
        <3>8. CASE p = k
            <4>1. new = txn.added
                BY <3>2, <3>6, <3>8
            <4>2. \A r, q \in txn.added : r.id = q.id => r = q
                BY <1>1, <3>1 DEF IInv, TxnIsFresh
            <4>3. Cardinality(txn.added) = plans[k].times
                BY <3>2, <3>3, <4>2, NumberedSet
            <4> QED
                BY <3>8, <4>1, <4>3
        <3> QED
            BY <3>7, <3>8
    <2> QED
        BY <1>1, <2>1, <2>2 DEF Next, DbStep, MgrStep, GuiStep, DbInit, DbBeginInsert,
           DbInsertRow, DbInsertFails, DbRemove, Without, DbQuery, DbRefresh,
           MgrDBInitFinished, MgrRecvTaskSetting, CheckTake, CheckNext, CheckEnd, GuiShow,
           GuiAskDelete, GuiAnswer, TimePasses, Crash, Start, dbVars
<1>2. (IInv /\ StoreInv) /\ [Next]_vars =>
        [\A p \in DOMAIN plans :
            LET new == {r \in rows' \ rows : r.plan = p} IN
            new = {} \/ Cardinality(new) = plans[p].times]_vars
    BY <1>1
<1> QED
    BY <1>2, StoreCorrect, PTL DEF Spec, PlanIsAllOrNothing

-----------------------------------------------------------------------------
(* Tasks that are dropped *)

\* Copies of one task agree, since they were read off one row.
LEMMA AgreeStep == IInv /\ DropInv /\ TypeOK' /\ Next => CopiesAgree'
<1> SUFFICES ASSUME IInv, DropInv, TypeOK', Next,
                    NEW c \in Copies', NEW d \in Copies', c.id = d.id
             PROVE  c.time = d.time
    BY DEF CopiesAgree
<1>1. \A x \in Copies' : \/ x \in Copies
                         \/ \E r \in rows : x.id = r.id /\ x.time = r.time
    <2>1. \A r \in rows : r \in Row
        BY DEF IInv, TypeOK
    <2> QED
        BY <2>1, CopiesStep, ReadBackType DEF IInv
<1>2. \A x \in Copies, r \in rows : x.id = r.id => x.time = r.time
    BY DEF IInv, IdsNameOneTask
<1>3. \A r, s \in rows : r.id = s.id => r = s
    BY DEF IInv, RowsAreDistinct
<1>4. \A x, y \in Copies : x.id = y.id => x.time = y.time
    BY DEF DropInv, CopiesAgree
<1> QED
    BY <1>1, <1>2, <1>3, <1>4

\* The check is never further behind the clock than the timer allows.
LEMMA TimeStep == TypeOK /\ DropInv /\ TypeOK' /\ Next => ChecksKeepTime'
<1> SUFFICES ASSUME TypeOK, DropInv, TypeOK', Next PROVE ChecksKeepTime'
    OBVIOUS
<1> USE DEF DropInv, ChecksKeepTime
<1>1. now \in Nat /\ lastCheck \in Nat /\ MaxGap \in Nat /\ now' \in Nat /\ now <= now'
    <2>1. now' = now \/ now' = now + 1
        BY DEF Next, DbStep, MgrStep, GuiStep, DbInit, DbBeginInsert, DbInsertRow,
           DbInsertFails, DbCommit, DbRemove, DbQuery, DbRefresh, MgrDBInitFinished,
           MgrRecvTaskSetting, CheckTake, CheckNext, CheckEnd, GuiShow, GuiAskDelete,
           GuiAnswer, TimePasses, Crash, Start
    <2> QED
        BY <2>1, BoundAssumption DEF TypeOK
<1>2. up' => now' - lastCheck' <= MaxGap
    <2>1. CASE UNCHANGED <<up, now, lastCheck>>
        BY <2>1
    <2>2. CASE TimePasses
        BY <1>1, <2>2 DEF TimePasses, mgrVars
    <2>3. CASE CheckTake \/ Start
        <3>1. now' = now /\ lastCheck' = now
            BY <2>3 DEF CheckTake, Start
        <3>2. now - now = 0 /\ 0 <= MaxGap
            BY <1>1
        <3> QED
            BY <3>1, <3>2
    <2>4. CASE Crash
        BY <2>4 DEF Crash
    <2> QED
        BY <2>1, <2>2, <2>3, <2>4 DEF Next, DbStep, MgrStep, GuiStep, DbInit,
           DbBeginInsert, DbInsertRow, DbInsertFails, DbCommit, DbRemove, DbQuery,
           DbRefresh, MgrDBInitFinished, MgrRecvTaskSetting, CheckNext, CheckEnd,
           GuiShow, GuiAskDelete, GuiAnswer, mgrVars
<1>3. (~up' => ~checking' /\ cache' = {}) /\ (~checking' => taken' = {} /\ jobs' = {})
    BY DEF Next, DbStep, MgrStep, GuiStep, DbInit, DbBeginInsert, DbInsertRow,
       DbInsertFails, DbCommit, DbRemove, DbQuery, DbRefresh, MgrDBInitFinished,
       MgrRecvTaskSetting, CheckTake, CheckNext, CheckEnd, GuiShow, GuiAskDelete,
       GuiAnswer, TimePasses, Crash, Start, dbVars, mgrVars, Serves
<1>4. \A i \in DOMAIN since' : since'[i] <= now'
    <2>1. \A i \in DOMAIN since : since[i] <= now /\ since[i] \in Nat
        BY DEF TypeOK
    <2>2. CASE UNCHANGED since
        BY <1>1, <2>1, <2>2
    <2>3. CASE DbRefresh
        <3>1. since' = [i \in Ids(cache') |-> IF i \in Ids(cache) THEN since[i] ELSE now]
            BY <2>3 DEF DbRefresh
        <3>2. DOMAIN since = Ids(cache)
            BY DEF TypeOK
        <3>3. \A i \in DOMAIN since' : since'[i] = now \/ (i \in DOMAIN since /\ since'[i] = since[i])
            BY <3>1, <3>2
        <3> QED
            BY <1>1, <2>1, <3>3
    <2>4. CASE Crash
        BY <2>4 DEF Crash
    <2> QED
        BY <2>2, <2>3, <2>4 DEF Next, DbStep, MgrStep, GuiStep, DbInit, DbBeginInsert,
           DbInsertRow, DbInsertFails, DbCommit, DbRemove, DbQuery, MgrDBInitFinished,
           MgrRecvTaskSetting, CheckTake, CheckNext, CheckEnd, GuiShow, GuiAskDelete,
           GuiAnswer, TimePasses, Start, dbVars
<1> QED
    BY <1>2, <1>3, <1>4

\* A refreshed list: an id that was listed keeps its time of entry, a new one enters
\* now.
LEMMA SinceStep ==
    TypeOK /\ DbRefresh =>
        \A i \in DOMAIN since' : since'[i] = now \/ (i \in DOMAIN since /\ since'[i] = since[i])
<1> SUFFICES ASSUME TypeOK, DbRefresh, NEW i \in DOMAIN since'
             PROVE  since'[i] = now \/ (i \in DOMAIN since /\ since'[i] = since[i])
    OBVIOUS
<1>1. since' = [j \in Ids(cache') |-> IF j \in Ids(cache) THEN since[j] ELSE now]
    BY DEF DbRefresh
<1>2. DOMAIN since = Ids(cache)
    BY DEF TypeOK
<1> QED
    BY <1>1, <1>2

\* A check that takes the list finds in it what the last one left for good reason.
LEMMA TakeStep ==
    IInv /\ DropInv /\ CheckTake => ListIsChecked' /\ TakenIsChecked'
<1> SUFFICES ASSUME IInv, DropInv, CheckTake PROVE ListIsChecked' /\ TakenIsChecked'
    OBVIOUS
<1>1. /\ up /\ ~checking /\ lastCheck' = now /\ taken' = cache
      /\ UNCHANGED <<cache, since, played>>
    BY DEF CheckTake, dbVars
<1>2. ListIsChecked'
    BY <1>1 DEF ListIsChecked, Ids
<1>3. ASSUME NEW c \in cache, c.id \in DOMAIN since, now - c.time > Window
      PROVE  c.id \in played \/ since[c.id] > c.time + Window - MaxGap
    <2>1. /\ c.time \in Int /\ now \in Nat /\ lastCheck \in Nat /\ since[c.id] \in Nat
          /\ Window \in Nat /\ MaxGap \in Nat /\ MaxGap <= Window + 1
        BY <1>3, BoundAssumption DEF IInv, TypeOK, Listed
    <2>2. now - lastCheck <= MaxGap /\ jobs = {} /\ taken = {}
        BY <1>1 DEF DropInv, ChecksKeepTime
    <2>3. \/ c.id \in played \/ since[c.id] > c.time + Window - MaxGap
          \/ since[c.id] >= lastCheck \/ c.time > lastCheck
        BY <2>2 DEF DropInv, ListIsChecked, CameLate, Ids
    <2> QED
        BY <1>3, <2>1, <2>2, <2>3
<1>4. TakenIsChecked'
    BY <1>1, <1>3 DEF TakenIsChecked, IsLate, CameLate
<1> QED
    BY <1>2, <1>4

\* A task is taken off the list of the check as a job, or late.
LEMMA NextStep ==
    IInv /\ DropInv /\ CheckNext => ListIsChecked' /\ TakenIsChecked'
<1> SUFFICES ASSUME IInv, DropInv, CheckNext PROVE ListIsChecked' /\ TakenIsChecked'
    OBVIOUS
<1>1. PICK t \in taken : /\ jobs' = (IF IsLate(t) THEN jobs ELSE jobs \cup {t})
                         /\ taken' = taken \ {t}
    BY DEF CheckNext, Earliest
<1>2. UNCHANGED <<cache, since, played, lastCheck>>
    BY DEF CheckNext, dbVars
<1>3. ASSUME NEW c \in cache
      PROVE  \/ c.id \in played \/ c.id \in Ids(jobs') \/ CameLate(c)
             \/ c.id \in Ids(taken')
             \/ since[c.id] >= lastCheck \/ c.time > lastCheck
    <2>1. \/ c.id \in played \/ c.id \in Ids(jobs) \/ CameLate(c) \/ c.id \in Ids(taken)
          \/ since[c.id] >= lastCheck \/ c.time > lastCheck
        BY DEF DropInv, ListIsChecked
    <2>2. Ids(jobs) \subseteq Ids(jobs')
        BY <1>1 DEF Ids
    <2>3. CASE c.id = t.id
        <3>1. c.time = t.time
            BY <2>3 DEF DropInv, CopiesAgree, Copies
        <3>2. c.id \in DOMAIN since
            BY DEF IInv, TypeOK, Ids
        <3>3. CASE IsLate(t)
            BY <2>3, <3>1, <3>2, <3>3 DEF DropInv, TakenIsChecked, CameLate
        <3>4. CASE ~IsLate(t)
            BY <1>1, <2>3, <3>4 DEF Ids
        <3> QED
            BY <3>3, <3>4
    <2>4. CASE c.id # t.id
        <3>1. c.id \in Ids(taken) => c.id \in Ids(taken')
            BY <1>1, <2>4 DEF Ids
        <3> QED
            BY <2>1, <2>2, <3>1
    <2> QED
        BY <2>3, <2>4
<1>4. ListIsChecked'
    BY <1>2, <1>3 DEF ListIsChecked, CameLate
<1>5. TakenIsChecked'
    BY <1>1, <1>2 DEF DropInv, TakenIsChecked, IsLate, CameLate
<1> QED
    BY <1>4, <1>5

\* The end of a check leaves tasks of the future only.
LEMMA EndStep ==
    DropInv /\ CheckEnd => ListIsChecked' /\ TakenIsChecked'
<1> SUFFICES ASSUME DropInv, CheckEnd PROVE ListIsChecked' /\ TakenIsChecked'
    OBVIOUS
<1>1. /\ played' = played \cup Ids(jobs) /\ taken' = {}
      /\ \A t \in taken : t.time > lastCheck
      /\ UNCHANGED <<cache, since, lastCheck>>
    BY DEF CheckEnd, dbVars
<1>2. ASSUME NEW c \in cache
      PROVE  \/ c.id \in played' \/ CameLate(c)
             \/ since[c.id] >= lastCheck \/ c.time > lastCheck
    <2>1. \/ c.id \in played' \/ CameLate(c) \/ c.id \in Ids(taken)
          \/ since[c.id] >= lastCheck \/ c.time > lastCheck
        BY <1>1 DEF DropInv, ListIsChecked
    <2>2. CASE c.id \in Ids(taken)
        <3>1. PICK t \in taken : c.id = t.id
            BY <2>2 DEF Ids
        <3>2. c.time = t.time
            BY <3>1 DEF DropInv, CopiesAgree, Copies
        <3> QED
            BY <1>1, <3>2
    <2> QED
        BY <2>1, <2>2
<1>3. ListIsChecked'
    BY <1>1, <1>2 DEF ListIsChecked, CameLate
<1>4. TakenIsChecked'
    BY <1>1 DEF TakenIsChecked
<1> QED
    BY <1>3, <1>4

\* A refreshed list brings old tasks back as they were, and new ones with the time.
LEMMA RefreshStep ==
    IInv /\ DropInv /\ TypeOK' /\ DbRefresh => ListIsChecked' /\ TakenIsChecked'
<1> SUFFICES ASSUME IInv, DropInv, TypeOK', DbRefresh PROVE ListIsChecked' /\ TakenIsChecked'
    OBVIOUS
<1>1. UNCHANGED <<played, jobs, taken, lastCheck, now>>
    BY DEF DbRefresh, mgrVars
<1>2. cache' \subseteq {ReadBack(r) : r \in rows}
    BY DEF DbRefresh
<1>3. \A i \in DOMAIN since' : since'[i] = now \/ (i \in DOMAIN since /\ since'[i] = since[i])
    BY SinceStep DEF IInv
<1>4. lastCheck <= now /\ lastCheck \in Nat /\ now \in Nat
    BY DEF IInv, TypeOK, ChecksAreDue
<1>5. DOMAIN since' = Ids(cache') /\ DOMAIN since = Ids(cache)
    BY DEF IInv, TypeOK
<1>6. ASSUME NEW c \in cache'
      PROVE  \/ c.id \in played \/ c.id \in Ids(jobs)
             \/ (c.id \in DOMAIN since' /\ since'[c.id] > c.time + Window - MaxGap)
             \/ c.id \in Ids(taken)
             \/ since'[c.id] >= lastCheck \/ c.time > lastCheck
    <2>1. c.id \in DOMAIN since'
        BY <1>5 DEF Ids
    <2>2. CASE since'[c.id] = now
        BY <1>4, <2>2
    <2>3. CASE c.id \in DOMAIN since /\ since'[c.id] = since[c.id]
        <3>1. PICK d \in cache : d.id = c.id
            BY <1>5, <2>3 DEF Ids
        <3>2. PICK r \in rows : c = ReadBack(r)
            BY <1>2
        <3>3. c.id = r.id /\ c.time = r.time
            BY <3>2 DEF ReadBack
        <3>4. d.time = c.time
            BY <3>1, <3>3 DEF IInv, IdsNameOneTask, Copies
        <3>5. \/ d.id \in played \/ d.id \in Ids(jobs) \/ CameLate(d) \/ d.id \in Ids(taken)
              \/ since[d.id] >= lastCheck \/ d.time > lastCheck
            BY DEF DropInv, ListIsChecked
        <3> QED
            BY <2>1, <2>3, <3>1, <3>4, <3>5 DEF CameLate
    <2> QED
        BY <1>3, <2>1, <2>2, <2>3
<1>7. ListIsChecked'
    BY <1>1, <1>6 DEF ListIsChecked, CameLate
<1>8. ASSUME NEW c \in taken, c.id \in DOMAIN since', lastCheck - c.time > Window
      PROVE  c.id \in played \/ since'[c.id] > c.time + Window - MaxGap
    <2>1. c.time \in Int /\ Window \in Nat /\ MaxGap \in Nat
        BY BoundAssumption DEF IInv, TypeOK, Listed
    <2>2. CASE since'[c.id] = now
        BY <1>4, <1>8, <2>1, <2>2
    <2>3. CASE c.id \in DOMAIN since /\ since'[c.id] = since[c.id]
        BY <1>8, <2>3 DEF DropInv, TakenIsChecked, CameLate, IsLate
    <2> QED
        BY <1>3, <1>8, <2>2, <2>3
<1>9. TakenIsChecked'
    BY <1>1, <1>8 DEF TakenIsChecked, CameLate, IsLate
<1> QED
    BY <1>7, <1>9

\* No step breaks the invariant.
LEMMA DropStep == IInv /\ DropInv /\ [Next]_vars => DropInv'
<1> SUFFICES ASSUME IInv, DropInv, [Next]_vars PROVE DropInv'
    OBVIOUS
<1>1. CASE UNCHANGED vars
    BY <1>1 DEF vars, DropInv, CopiesAgree, Copies, PendingRemovals, ChecksKeepTime,
       ListIsChecked, TakenIsChecked, CameLate, IsLate
<1>2. CASE Next
    <2>1. TypeOK'
        BY <1>2, TypeDbStep, TypeMgrStep, TypeOtherStep DEF IInv, Next
    <2>2. CopiesAgree' /\ ChecksKeepTime'
        BY <1>2, <2>1, AgreeStep, TimeStep DEF IInv
    <2>3. ListIsChecked' /\ TakenIsChecked'
        <3>1. CASE CheckTake \/ CheckNext \/ CheckEnd \/ DbRefresh
            BY <2>1, <3>1, TakeStep, NextStep, EndStep, RefreshStep
        <3>2. CASE UNCHANGED <<cache, since, played, jobs, taken, lastCheck>>
            BY <3>2 DEF DropInv, ListIsChecked, TakenIsChecked, CameLate, IsLate
        <3>3. CASE cache' = {} /\ taken' = {}
            BY <3>3 DEF ListIsChecked, TakenIsChecked
        <3>4. CASE Start
            BY <3>3, <3>4 DEF Start, DropInv, ChecksKeepTime, dbVars
        <3>5. CASE Crash
            BY <3>3, <3>5 DEF Crash
        <3> QED
            BY <1>2, <3>1, <3>2, <3>4, <3>5 DEF Next, DbStep, MgrStep, GuiStep, DbInit,
               DbBeginInsert, DbInsertRow, DbInsertFails, DbCommit, DbRemove, DbQuery,
               MgrDBInitFinished, MgrRecvTaskSetting, GuiShow, GuiAskDelete, GuiAnswer,
               TimePasses, dbVars, mgrVars
    <2> QED
        BY <2>2, <2>3 DEF DropInv
<1> QED
    BY <1>1, <1>2

\* Nothing is listed at first.
LEMMA DropInit == Init => DropInv
<1> SUFFICES ASSUME Init PROVE DropInv
    OBVIOUS
<1>1. Copies = {}
    BY DEF Init, Copies, InLists, PendingRemovals, Removals, Init_Req
<1>2. ChecksKeepTime
    BY BoundAssumption DEF Init, ChecksKeepTime
<1> QED
    BY <1>1, <1>2 DEF Init, DropInv, CopiesAgree, ListIsChecked, TakenIsChecked

\* A task that the check drops was played before, or it came into the list too late
\* for a check to find it in time.
THEOREM DropsAreJustified == Spec => DropIsJustified
<1>1. Init => IInv /\ DropInv
    BY InvInit, DropInit
<1>2. (IInv /\ DropInv) /\ [Next]_vars => (IInv /\ DropInv)'
    BY InvStep, DropStep
<1>3. ASSUME DropInv, Next, NEW t \in taken \ taken',
             checking', t \notin jobs', t.id \notin played, t.id \in DOMAIN since
      PROVE  since[t.id] > t.time + Window - MaxGap
    <2>1. CheckNext
        BY <1>3 DEF Next, DbStep, MgrStep, GuiStep, DbInit, DbBeginInsert, DbInsertRow,
           DbInsertFails, DbCommit, DbRemove, DbQuery, DbRefresh, MgrDBInitFinished,
           MgrRecvTaskSetting, CheckTake, CheckEnd, GuiShow, GuiAskDelete, GuiAnswer,
           TimePasses, Crash, Start, mgrVars, DropInv, ChecksKeepTime
    <2>2. IsLate(t)
        <3>1. PICK s \in taken : /\ jobs' = (IF IsLate(s) THEN jobs ELSE jobs \cup {s})
                                 /\ taken' = taken \ {s}
            BY <2>1 DEF CheckNext, Earliest
        <3>2. s = t
            BY <1>3, <3>1
        <3> QED
            BY <1>3, <3>1, <3>2
    <2> QED
        BY <1>3, <2>2 DEF DropInv, TakenIsChecked, CameLate
<1>4. (IInv /\ DropInv) /\ [Next]_vars =>
        [\A t \in taken \ taken' :
            (checking' /\ t \notin jobs' /\ t.id \notin played /\ t.id \in DOMAIN since)
                => since[t.id] > t.time + Window - MaxGap]_vars
    BY <1>3
<1> QED
    BY <1>1, <1>2, <1>4, PTL DEF Spec, DropIsJustified
=============================================================================
