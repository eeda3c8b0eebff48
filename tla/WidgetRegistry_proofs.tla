----------------------- MODULE WidgetRegistry_proofs -----------------------
(***************************************************************************)
(* Proofs about WidgetRegistry: the center keeps its connections, the      *)
(* loops of slotRecvExtensionList leave a row for each station and no      *)
(* other and keep the operator's choice, and the window shows the news     *)
(* unless it was lost or overtaken; for any finite set of extensions and   *)
(* any number of changes.                                                  *)
(***************************************************************************)
EXTENDS WidgetRegistry, QueueLemmas, FiniteSetTheorems, TLAPS

Maps == UNION {[S -> Status] : S \in SUBSET Ext}
Msg  == [isList : BOOLEAN, says : Maps, aged : SUBSET Ext]
Row  == [id : Broadcaster, checked : BOOLEAN]

\* What is under way between the PBX and the window has its type.
NewsOK ==
    /\ pbx \in Maps /\ made \in Nat /\ news \in Seq(Msg)
    /\ \A i \in DOMAIN news : news[i].isList \/ \E e \in Ext : DOMAIN news[i].says = {e}

\* No two numbers share a widget.
OneEach == \A m, n \in Shown : map[m] = map[n] => m = n

\* A message differs from the PBX only where a change came after it.
NewsAreTrue ==
    \A i \in DOMAIN news : \A n \in DOMAIN news[i].says \cap DOMAIN pbx :
        news[i].says[n] = pbx[n] \/ n \in news[i].aged

\* The stations that are to have a row, and the rows looked at before and not since.
Want == Shown \cap Broadcaster
Old  == Range(idList)

\* What the loops of slotRecvExtensionList keep: no station has two rows; in the first
\* one, every station has a row that was looked at or is still to come; in the second
\* one, the rows that are not to be removed are right, and those before the index stay.
RowsAreRight ==
    /\ \A j, k \in DOMAIN rows : rows[j].id = rows[k].id => j = k
    /\ IsInjective(idList)
    /\ step = "idle" => RowIds = Want
    /\ step = "add" => /\ Old \subseteq RowIds /\ keys \cap (RowIds \ Old) = {}
                       /\ Want = (RowIds \ Old) \cup keys
    /\ step = "remove" => /\ Want = RowIds \ Old
                          /\ \A k \in DOMAIN rows : k < row => rows[k].id \notin Old

\* A row that stays says what the operator chose, in the midst of the loops too.
ChecksAreRight ==
    /\ unchecked \subseteq Want \cap RowIds
    /\ \A k \in DOMAIN rows : rows[k].id \in Want => (rows[k].checked <=> rows[k].id \notin unchecked)

IInv ==
    /\ TypeOK /\ NewsOK /\ OneEach /\ NewsAreTrue /\ NewsIsShown /\ CenterIsLinked
    /\ RowsAreRight /\ ChecksAreRight

-----------------------------------------------------------------------------
(* Sequences and maps *)

\* What is left of a sequence one element of which is taken.
LEMMA Removed ==
    ASSUME NEW S, NEW q \in Seq(S), NEW i \in DOMAIN q
    PROVE  /\ RemoveAt(q, i) \in Seq(S) /\ q[i] \in S
           /\ \A k \in DOMAIN RemoveAt(q, i) : \E j \in DOMAIN q : j # i /\ RemoveAt(q, i)[k] = q[j]
           /\ \A j \in DOMAIN q : j = i \/ \E k \in DOMAIN RemoveAt(q, i) : RemoveAt(q, i)[k] = q[j]
<1> DEFINE r == RemoveAt(q, i)
<1>1. /\ r \in Seq(S) /\ q[i] \in S /\ DOMAIN q = 1..Len(q) /\ Len(q) \in Nat \ {0}
      /\ DOMAIN r = 1..(Len(q) - 1)
      /\ \A j \in 1..(Len(q) - 1) : r[j] = IF j < i THEN q[j] ELSE q[j + 1]
    BY QueueRemove
<1> HIDE DEF r
<1>2. ASSUME NEW k \in DOMAIN r PROVE \E j \in DOMAIN q : j # i /\ r[k] = q[j]
    <2>1. k \in 1..Len(q) /\ k + 1 \in 1..Len(q)
        BY <1>1
    <2>2. CASE k < i
        BY <1>1, <2>1, <2>2
    <2>3. CASE ~(k < i)
        <3>1. k + 1 # i
            BY <1>1, <2>1, <2>3
        <3> QED
            BY <1>1, <2>1, <2>3, <3>1
    <2> QED
        BY <2>2, <2>3
<1>3. ASSUME NEW j \in DOMAIN q, j # i PROVE \E k \in DOMAIN r : r[k] = q[j]
    <2>1. CASE j < i
        <3>1. j \in 1..(Len(q) - 1)
            BY <1>1, <2>1
        <3> QED
            BY <1>1, <2>1, <3>1
    <2>2. CASE ~(j < i)
        <3>1. j - 1 \in 1..(Len(q) - 1) /\ ~(j - 1 < i) /\ (j - 1) + 1 = j
            BY <1>1, <1>3, <2>2
        <3> QED
            BY <1>1, <3>1
    <2> QED
        BY <2>1, <2>2
<1> QED
    BY <1>1, <1>2, <1>3 DEF r

\* A map gives extensions their status.
LEMMA MapFacts ==
    ASSUME NEW f \in Maps
    PROVE  DOMAIN f \subseteq Ext /\ (\A e \in DOMAIN f : f[e] \in Status) /\ f \in [DOMAIN f -> Status]
<1>1. PICK S \in SUBSET Ext : f \in [S -> Status]
    BY DEF Maps
<1> QED
    BY <1>1

LEMMA MapsHave ==
    ASSUME NEW S \in SUBSET Ext, NEW f \in [S -> Status]
    PROVE  f \in Maps
    BY DEF Maps

\* What is as many as something finite and one to one.
LEMMA Image ==
    ASSUME NEW S, IsFiniteSet(S), NEW f, \A x, y \in S : f[x] = f[y] => x = y
    PROVE  Cardinality({f[x] : x \in S}) = Cardinality(S)
<1> DEFINE g == [x \in S |-> f[x]]
           T == {f[x] : x \in S}
<1>1. g \in Bijection(S, T)
    BY DEF Bijection, Injection, Surjection, IsInjective
<1>2. ExistsBijection(S, T)
    BY <1>1 DEF ExistsBijection
<1> QED
    BY <1>2, FS_Bijection

\* New widgets are new, one for each number.
LEMMA NewWidgetsFacts ==
    ASSUME NEW S \in SUBSET Ext, made \in Nat
    PROVE  LET m == NewWidgets(S) IN
           /\ m \in [S -> Nat] /\ IsFiniteSet(S) /\ Cardinality(S) \in Nat
           /\ \A n \in S : m[n] \in (made + 1)..(made + Cardinality(S))
           /\ \A x, y \in S : m[x] = m[y] => x = y
<1>1. IsFiniteSet(S)
    BY BoundAssumption, FS_Subset
<1> DEFINE k == Cardinality(S)
<1>2. k \in Nat /\ ExistsBijection(1..k, S)
    BY <1>1, FS_CardinalityType
<1>3. PICK f \in Bijection(1..k, S) : TRUE
    BY <1>2 DEF ExistsBijection
<1>4. \A x \in S : \E i \in 1..k : f[i] = x
    BY <1>3 DEF Bijection, Surjection
<1> DEFINE m == [x \in S |-> made + (CHOOSE i \in 1..k : f[i] = x)]
<1> HIDE DEF k
<1>5. \A x \in S : (CHOOSE i \in 1..k : f[i] = x) \in 1..k /\ f[CHOOSE i \in 1..k : f[i] = x] = x
    BY <1>4
<1>6. \A x \in S : m[x] \in (made + 1)..(made + k)
    BY <1>2, <1>5
<1>7. \A x, y \in S : m[x] = m[y] => x = y
    BY <1>2, <1>5
<1>8. m \in [S -> (made + 1)..(made + k)]
    BY <1>6
<1> HIDE DEF m
<1>9. /\ NewWidgets(S) \in [S -> (made + 1)..(made + k)]
      /\ \A x, y \in S : NewWidgets(S)[x] = NewWidgets(S)[y] => x = y
    BY <1>7, <1>8 DEF NewWidgets, k
<1>10. (made + 1)..(made + k) \subseteq Nat
    BY <1>2
<1> QED
    BY <1>1, <1>2, <1>9, <1>10 DEF k

-----------------------------------------------------------------------------
(* What the window does to its widgets *)

\* A number that is looked up has no widget, and no other number loses its own.
LEMMA LookedFacts ==
    ASSUME TypeOK, NewsOK, NEW n \in Name, map' = Looked(n), made' = made
    PROVE  /\ DOMAIN map' = DOMAIN map \cup {n} /\ (\A x \in DOMAIN map' : map'[x] \in 0..made')
           /\ Shown' = Shown /\ Alive' = Alive
           /\ \A x \in Shown : map'[x] = map[x]
<1>1. /\ DOMAIN map' = DOMAIN map \cup {n}
      /\ \A x \in DOMAIN map : map'[x] = map[x]
      /\ n \notin DOMAIN map => map'[n] = 0
    BY DEF Looked, Null
<1>2. 0 \in 0..made
    BY DEF NewsOK
<1>3. \A x \in DOMAIN map' : map'[x] \in 0..made
    BY <1>1, <1>2 DEF TypeOK
<1>4. Shown' = Shown /\ \A x \in Shown : map'[x] = map[x]
    BY <1>1 DEF Shown, Null
<1>5. Alive' = Alive
    BY <1>4 DEF Alive
<1> QED
    BY <1>1, <1>3, <1>4, <1>5

\* Widgets that are made again show the list, and the center has its connections.
LEMMA RebuildFacts ==
    ASSUME NewsOK, NEW l \in Maps, Rebuild(l)
    PROVE  /\ DOMAIN map' = DOMAIN l /\ Shown' = DOMAIN l /\ made' \in Nat
           /\ \A n \in DOMAIN l : map'[n] \in 0..made' /\ map'[n] # 0
           /\ Alive' = {map'[n] : n \in DOMAIN l}
           /\ \A x, y \in DOMAIN l : map'[x] = map'[y] => x = y
           /\ Cardinality(Alive') = Cardinality(Shown')
           /\ DOMAIN status' = Alive'
           /\ \A n \in DOMAIN l : status'[map'[n]] = l[n]
           /\ grouped' \subseteq Alive' /\ links' = LinksOf(map') /\ hasGroup' = TRUE
<1> DEFINE m == NewWidgets(DOMAIN l)
<1>0. DOMAIN l \in SUBSET Ext /\ made \in Nat
    BY MapFacts DEF NewsOK
<1>1. /\ m \in [DOMAIN l -> Nat] /\ IsFiniteSet(DOMAIN l) /\ Cardinality(DOMAIN l) \in Nat
      /\ \A n \in DOMAIN l : m[n] \in (made + 1)..(made + Cardinality(DOMAIN l))
      /\ \A x, y \in DOMAIN l : m[x] = m[y] => x = y
    BY <1>0, NewWidgetsFacts
<1>2. /\ map' = m /\ made' = made + Cardinality(DOMAIN l) /\ hasGroup' = TRUE
      /\ status' = [w \in {m[n] : n \in DOMAIN l} |-> l[CHOOSE n \in DOMAIN l : m[n] = w]]
      /\ grouped' = (IF hasGroup THEN {} ELSE {m[n] : n \in DOMAIN l})
      /\ links' = LinksOf(m)
    BY DEF Rebuild
<1> HIDE DEF m
<1>3. /\ DOMAIN map' = DOMAIN l /\ made' \in Nat
      /\ \A n \in DOMAIN l : map'[n] \in 0..made' /\ map'[n] # 0
    BY <1>0, <1>1, <1>2
<1>4. Shown' = DOMAIN l
    BY <1>3 DEF Shown, Null
<1>5. Alive' = {map'[n] : n \in DOMAIN l}
    BY <1>4 DEF Alive
<1>6. Cardinality(Alive') = Cardinality(Shown')
    <2>1. Cardinality({m[n] : n \in DOMAIN l}) = Cardinality(DOMAIN l)
        BY <1>1, Image
    <2> QED
        BY <1>2, <1>4, <1>5, <2>1
<1>7. \A n \in DOMAIN l : status'[m[n]] = l[n]
    <2>1. \A n \in DOMAIN l : (CHOOSE x \in DOMAIN l : m[x] = m[n]) = n
        BY <1>1
    <2> QED
        BY <1>2, <2>1
<1>8. DOMAIN status' = Alive' /\ grouped' \subseteq Alive'
    BY <1>2, <1>5
<1> QED
    BY <1>1, <1>2, <1>3, <1>4, <1>5, <1>6, <1>7, <1>8

\* Widgets that are updated show the list where it has them.
LEMMA UpdateFacts ==
    ASSUME TypeOK, NewsOK, OneEach, NEW l \in Maps, Update(l)
    PROVE  /\ UNCHANGED <<map, made, hasGroup, grouped, links>>
           /\ DOMAIN status' = DOMAIN status /\ Shown' = Shown /\ Alive' = Alive
           /\ \A n \in Shown \cap DOMAIN l : status'[map[n]] = l[n]
           /\ \A n \in Shown \ DOMAIN l : status'[map[n]] = status[map[n]]
<1>1. /\ UNCHANGED <<map, made, hasGroup, grouped, links>>
      /\ status' = [w \in DOMAIN status |->
                       IF \E n \in DOMAIN l \cap Shown : map[n] = w
                       THEN l[CHOOSE n \in DOMAIN l : n \in Shown /\ map[n] = w] ELSE status[w]]
    BY DEF Update
<1>2. Shown' = Shown /\ Alive' = Alive
    BY <1>1 DEF Shown, Alive
<1>3. \A n \in Shown : map[n] \in DOMAIN status
    BY DEF TypeOK, Alive
<1>4. \A n \in Shown \cap DOMAIN l : status'[map[n]] = l[n]
    <2>1. \A n \in Shown \cap DOMAIN l :
             (CHOOSE x \in DOMAIN l : x \in Shown /\ map[x] = map[n]) = n
        BY DEF OneEach
    <2> QED
        BY <1>1, <1>3, <2>1
<1>5. \A n \in Shown \ DOMAIN l : status'[map[n]] = status[map[n]]
    BY <1>1, <1>3 DEF OneEach
<1> QED
    BY <1>1, <1>2, <1>4, <1>5

-----------------------------------------------------------------------------
(* The steps, as the proofs need them *)

LEMMA MessageFacts ==
    ASSUME NewsOK, NEW i \in DOMAIN news
    PROVE  news[i] \in Msg /\ news[i].says \in Maps /\ news[i].aged \subseteq Ext
<1>1. news[i] \in Msg
    BY DEF NewsOK
<1> QED
    BY <1>1 DEF Msg

\* A change of the PBX: what it says of e from now on, if it still knows e.
Changed(e) ==
    /\ UNCHANGED <<outrun, lost, widgets, tree, loop, crashed>>
    /\ pbx' \in Maps
    /\ \A n \in DOMAIN pbx' \ {e} : n \in DOMAIN pbx /\ pbx'[n] = pbx[n]
    /\ \/ e \notin DOMAIN pbx' /\ news' = news
       \/ pbx'[e] \in Status /\ Reports(e, pbx'[e])

LEMMA PbxChanges ==
    ASSUME NewsOK, PbxAdds \/ PbxRemoves \/ PbxStatus
    PROVE  \E e \in Ext : Changed(e)
<1>0. /\ DOMAIN pbx \in SUBSET Ext /\ pbx \in [DOMAIN pbx -> Status]
      /\ \A e \in DOMAIN pbx : pbx[e] \in Status
    BY MapFacts DEF NewsOK
<1>1. CASE PbxAdds
    <2>1. PICK e \in Ext \ DOMAIN pbx :
             /\ pbx' = [x \in DOMAIN pbx \cup {e} |-> IF x = e THEN "Registered" ELSE pbx[x]]
             /\ Reports(e, "Registered")
        BY <1>1 DEF PbxAdds
    <2>2. pbx'[e] = "Registered" /\ "Registered" \in Status
        BY <2>1 DEF Status
    <2>3. \A n \in DOMAIN pbx' \ {e} : n \in DOMAIN pbx /\ pbx'[n] = pbx[n]
        BY <2>1
    <2>4. pbx' \in [DOMAIN pbx \cup {e} -> Status] /\ DOMAIN pbx \cup {e} \in SUBSET Ext
        BY <1>0, <2>1, <2>2
    <2>5. pbx' \in Maps
        BY <2>4, MapsHave
    <2> QED
        BY <1>1, <2>1, <2>2, <2>3, <2>5 DEF PbxAdds, Changed
<1>2. CASE PbxRemoves
    <2>1. PICK e \in DOMAIN pbx : pbx' = [x \in DOMAIN pbx \ {e} |-> pbx[x]]
        BY <1>2 DEF PbxRemoves
    <2>2. e \notin DOMAIN pbx' /\ \A n \in DOMAIN pbx' \ {e} : n \in DOMAIN pbx /\ pbx'[n] = pbx[n]
        BY <2>1
    <2>3. pbx' \in [DOMAIN pbx \ {e} -> Status] /\ DOMAIN pbx \ {e} \in SUBSET Ext
        BY <1>0, <2>1
    <2>4. pbx' \in Maps
        BY <2>3, MapsHave
    <2> QED
        BY <1>0, <1>2, <2>2, <2>4 DEF PbxRemoves, Changed
<1>3. CASE PbxStatus
    <2>1. PICK e \in DOMAIN pbx, s \in Status : pbx' = [pbx EXCEPT ![e] = s] /\ Reports(e, s)
        BY <1>3 DEF PbxStatus
    <2>2. pbx'[e] = s /\ \A n \in DOMAIN pbx' \ {e} : n \in DOMAIN pbx /\ pbx'[n] = pbx[n]
        BY <2>1
    <2>3. pbx' \in [DOMAIN pbx -> Status]
        BY <1>0, <2>1
    <2>4. pbx' \in Maps
        BY <1>0, <2>3, MapsHave
    <2> QED
        BY <1>0, <1>3, <2>1, <2>2, <2>4 DEF PbxStatus, Changed
<1> QED
    BY <1>1, <1>2, <1>3

\* What a report of the PBX does to the messages on their way.
LEMMA ReportsFacts ==
    ASSUME NewsOK, NEW e \in Ext, NEW s \in Status, Reports(e, s)
    PROVE  /\ news' \in Seq(Msg) /\ Len(news) \in Nat
           /\ DOMAIN news = 1..Len(news) /\ DOMAIN news' = 1..(Len(news) + 1)
           /\ \A i \in 1..Len(news) : /\ news'[i].isList = news[i].isList
                                      /\ news'[i].says = news[i].says
                                      /\ news'[i].aged = news[i].aged \cup {e}
           /\ LET m == news'[Len(news) + 1] IN
              m.isList = FALSE /\ DOMAIN m.says = {e} /\ m.says[e] = s /\ m.aged = {}
<1> DEFINE q == [i \in DOMAIN news |-> [news[i] EXCEPT !.aged = @ \cup {e}]]
           m == Message(FALSE, [x \in {e} |-> s])
<1>1. news \in Seq(Msg) /\ Len(news) \in Nat /\ DOMAIN news = 1..Len(news)
    BY DEF NewsOK
<1>2. \A i \in 1..Len(news) : news[i] \in Msg
    BY <1>1
<1>3. \A i \in 1..Len(news) : /\ q[i] \in Msg /\ q[i].isList = news[i].isList
                              /\ q[i].says = news[i].says /\ q[i].aged = news[i].aged \cup {e}
    BY <1>1, <1>2 DEF Msg
<1>4. q \in Seq(Msg) /\ Len(q) = Len(news)
    <2>1. q \in [1..Len(news) -> Msg]
        BY <1>1, <1>3
    <2> HIDE DEF q
    <2> QED
        BY <1>1, <2>1
<1>5. [x \in {e} |-> s] \in Maps
    <2>1. [x \in {e} |-> s] \in [{e} -> Status] /\ {e} \in SUBSET Ext
        OBVIOUS
    <2> QED
        BY <2>1, MapsHave
<1>6. /\ m \in Msg /\ m.isList = FALSE /\ m.says = [x \in {e} |-> s] /\ m.aged = {}
      /\ DOMAIN m.says = {e} /\ m.says[e] = s
    BY <1>5 DEF Msg, Message
<1>7. news' = Append(q, m)
    BY DEF Reports
<1> HIDE DEF q, m
<1>8. /\ news' \in Seq(Msg) /\ DOMAIN news' = 1..(Len(news) + 1) /\ news'[Len(news) + 1] = m
      /\ \A i \in 1..Len(news) : news'[i] = q[i]
    BY <1>4, <1>6, <1>7, QueueAppend
<1> QED
    BY <1>1, <1>3, <1>6, <1>8

\* An answer says what the PBX knows when it is given.
Told ==
    /\ \E m \in Msg : /\ news' = Append(news, m) /\ m.aged = {}
                      /\ m.isList \/ \E e \in Ext : DOMAIN m.says = {e}
                      /\ \A n \in DOMAIN m.says : m.says[n] = pbx[n]
    /\ UNCHANGED <<pbx, outrun, lost, widgets, tree, loop, crashed>>

LEMMA AnswersTell ==
    ASSUME NewsOK, AnswersList \/ AnswersOne
    PROVE  Told
<1>0. pbx \in Maps
    BY DEF NewsOK
<1>1. CASE AnswersList
    <2>1. Message(TRUE, pbx) \in Msg
        BY <1>0 DEF Message, Msg
    <2> QED
        BY <1>1, <2>1 DEF AnswersList, Answer, Told, Message
<1>2. CASE AnswersOne
    <2>1. PICK e \in Shown \cap DOMAIN pbx : Answer(FALSE, [x \in {e} |-> pbx[e]])
        BY <1>2 DEF AnswersOne
    <2>2. e \in Ext /\ pbx[e] \in Status
        BY <1>0, MapFacts
    <2>3. [x \in {e} |-> pbx[e]] \in Maps
        <3>1. [x \in {e} |-> pbx[e]] \in [{e} -> Status] /\ {e} \in SUBSET Ext
            BY <2>2
        <3> QED
            BY <3>1, MapsHave
    <2>4. Message(FALSE, [x \in {e} |-> pbx[e]]) \in Msg
        BY <2>3 DEF Message, Msg
    <2> QED
        BY <2>1, <2>2, <2>4 DEF Answer, Told, Message
<1> QED
    BY <1>1, <1>2

\* A step does nothing to the messages, or one of the things above, or takes one.
LEMMA NewsSteps ==
    ASSUME NewsOK, [Next]_vars
    PROVE  \/ \E e \in Ext : Changed(e)
           \/ Told
           \/ LoseReport \/ RecvReport \/ RecvList
           \/ UNCHANGED <<outside, crashed>> /\ (PromptVideo \/ Toggle \/ LoopStep \/ UNCHANGED vars)
           \/ UseAll
<1>1. PromptVideo \/ Toggle \/ LoopStep \/ UNCHANGED vars => UNCHANGED <<outside, crashed>>
    BY DEF PromptVideo, Toggle, LoopStep, AddRow, AddEnds, RemoveRow, UpdateEnds, vars
<1> QED
    BY <1>1, PbxChanges, AnswersTell DEF Next, PbxStep, WindowStep

\* A list the window takes rebuilds the widgets, updates them, or changes none.
LEMMA ListCases ==
    ASSUME NewsOK, RecvList
    PROVE  \E i \in DOMAIN news :
              /\ Take(i) /\ news[i].says \in Maps
              /\ \/ Rebuild(news[i].says) /\ UpdateTree /\ UNCHANGED crashed
                 \/ Update(news[i].says) /\ UpdateTree /\ UNCHANGED crashed
                 \/ /\ UNCHANGED <<widgets, tree, loop>>
                    /\ crashed' = TRUE \/ (DOMAIN news[i].says = {} /\ crashed' = crashed)
<1>1. \A i \in DOMAIN news : news[i].says \in Maps
    BY MessageFacts
<1> QED
    BY <1>1 DEF RecvList

\* A report the window takes is of one extension, and goes to its widget.
LEMMA ReportCases ==
    ASSUME NewsOK, RecvReport
    PROVE  \E i \in DOMAIN news : \E e \in Ext :
              /\ Take(i) /\ DOMAIN news[i].says = {e} /\ news[i].says[e] \in Status /\ e \in Name
              /\ map' = Looked(e)
              /\ status' = IF map'[e] = Null THEN status
                           ELSE [status EXCEPT ![map'[e]] = news[i].says[e]]
              /\ UNCHANGED <<made, hasGroup, grouped, links, tree, loop, crashed>>
<1>0. PICK i \in DOMAIN news :
         /\ ~news[i].isList /\ Take(i)
         /\ \E e \in DOMAIN news[i].says :
               /\ map' = Looked(e)
               /\ status' = IF map'[e] = Null THEN status
                            ELSE [status EXCEPT ![map'[e]] = news[i].says[e]]
    BY DEF RecvReport
<1>1. PICK e \in DOMAIN news[i].says :
         /\ map' = Looked(e)
         /\ status' = IF map'[e] = Null THEN status
                      ELSE [status EXCEPT ![map'[e]] = news[i].says[e]]
    BY <1>0
<1>2. UNCHANGED <<made, hasGroup, grouped, links, tree, loop, crashed>>
    BY DEF RecvReport
<1>3. news[i].says \in Maps /\ (news[i].isList \/ \E x \in Ext : DOMAIN news[i].says = {x})
    BY MessageFacts DEF NewsOK
<1>4. DOMAIN news[i].says = {e} /\ e \in Ext /\ news[i].says[e] \in Status
    BY <1>0, <1>1, <1>3, MapFacts
<1>5. e \in Name
    BY <1>4, BoundAssumption
<1> QED
    BY <1>0, <1>1, <1>2, <1>4, <1>5

-----------------------------------------------------------------------------
(* The messages *)

\* A message that is taken or lost leaves the others.
LEMMA Gone ==
    ASSUME NewsOK, NEW i \in DOMAIN news, news' = RemoveAt(news, i)
    PROVE  /\ news' \in Seq(Msg)
           /\ \A k \in DOMAIN news' : \E j \in DOMAIN news : j # i /\ news'[k] = news[j]
           /\ \A j \in DOMAIN news : j = i \/ \E k \in DOMAIN news' : news'[k] = news[j]
    BY Removed DEF NewsOK

LEMMA NewsOKInit == Init => NewsOK
<1> SUFFICES ASSUME Init PROVE NewsOK
    OBVIOUS
<1>1. PICK known \in SUBSET Ext : pbx = [e \in known |-> "Registered"]
    BY BoundAssumption DEF Init
<1>2. pbx \in [known -> Status]
    BY <1>1 DEF Status
<1>3. pbx \in Maps
    BY <1>2, MapsHave
<1>4. news = <<>> /\ news \in Seq(Msg) /\ DOMAIN news = {}
    BY DEF Init
<1> QED
    BY <1>3, <1>4 DEF Init, NewsOK

LEMMA NewsOKStep == NewsOK /\ [Next]_vars => NewsOK'
<1> SUFFICES ASSUME NewsOK, [Next]_vars PROVE NewsOK'
    OBVIOUS
<1> USE DEF outside, widgets
<1>0. pbx \in Maps /\ made \in Nat /\ news \in Seq(Msg)
    BY DEF NewsOK
<1>1. ASSUME NEW e \in Ext, Changed(e) PROVE NewsOK'
    <2>1. pbx' \in Maps /\ made' = made
        BY <1>1 DEF Changed
    <2>2. CASE news' = news
        BY <1>0, <2>1, <2>2 DEF NewsOK
    <2>3. ASSUME NEW s \in Status, Reports(e, s)
          PROVE  NewsOK'
        <3>1. /\ news' \in Seq(Msg) /\ DOMAIN news = 1..Len(news) /\ Len(news) \in Nat
              /\ DOMAIN news' = 1..(Len(news) + 1)
              /\ \A i \in 1..Len(news) : /\ news'[i].isList = news[i].isList
                                         /\ news'[i].says = news[i].says
              /\ DOMAIN (news'[Len(news) + 1].says) = {e}
            BY <2>3, ReportsFacts
        <3>2. ASSUME NEW i \in DOMAIN news'
              PROVE  news'[i].isList \/ \E x \in Ext : DOMAIN (news'[i].says) = {x}
            <4>1. i = Len(news) + 1 \/ i \in 1..Len(news)
                BY <3>1
            <4> QED
                BY <3>1, <4>1 DEF NewsOK
        <3> QED
            BY <1>0, <2>1, <3>1, <3>2 DEF NewsOK
    <2> QED
        BY <1>1, <2>2, <2>3 DEF Changed
<1>2. CASE Told
    <2>1. PICK m \in Msg : news' = Append(news, m) /\ (m.isList \/ \E e \in Ext : DOMAIN m.says = {e})
        BY <1>2 DEF Told
    <2>2. /\ news' \in Seq(Msg) /\ DOMAIN news = 1..Len(news) /\ Len(news) \in Nat
          /\ DOMAIN news' = 1..(Len(news) + 1) /\ news'[Len(news) + 1] = m
          /\ \A i \in 1..Len(news) : news'[i] = news[i]
        BY <1>0, <2>1, QueueAppend
    <2>3. ASSUME NEW i \in DOMAIN news'
          PROVE  news'[i].isList \/ \E x \in Ext : DOMAIN (news'[i].says) = {x}
        <3>1. i = Len(news) + 1 \/ i \in 1..Len(news)
            BY <2>2
        <3> QED
            BY <2>1, <2>2, <3>1 DEF NewsOK
    <2>4. UNCHANGED <<pbx, made>>
        BY <1>2 DEF Told
    <2> QED
        BY <1>0, <2>2, <2>3, <2>4 DEF NewsOK
<1>3. ASSUME NEW i \in DOMAIN news, news' = RemoveAt(news, i), pbx' = pbx, made' \in Nat
      PROVE  NewsOK'
    <2>1. /\ news' \in Seq(Msg)
          /\ \A k \in DOMAIN news' : \E j \in DOMAIN news : j # i /\ news'[k] = news[j]
        BY <1>3, Gone
    <2>2. \A k \in DOMAIN news' : news'[k].isList \/ \E x \in Ext : DOMAIN (news'[k].says) = {x}
        BY <2>1 DEF NewsOK
    <2> QED
        BY <1>0, <1>3, <2>1, <2>2 DEF NewsOK
<1>4. CASE LoseReport
    BY <1>0, <1>3, <1>4 DEF LoseReport
<1>5. CASE RecvReport
    BY <1>0, <1>3, <1>5, ReportCases DEF Take
<1>6. CASE RecvList
    <2>1. PICK i \in DOMAIN news :
             /\ Take(i) /\ news[i].says \in Maps
             /\ Rebuild(news[i].says) \/ Update(news[i].says) \/ UNCHANGED widgets
        BY <1>6, ListCases
    <2>2. made' \in Nat
        BY <1>0, <2>1, RebuildFacts DEF Update
    <2> QED
        BY <1>3, <2>1, <2>2 DEF Take
<1>7. CASE PromptVideo \/ UseAll \/ Toggle \/ LoopStep \/ UNCHANGED vars
    <2>1. UNCHANGED <<pbx, news, made>>
        BY <1>7 DEF PromptVideo, UseAll, Toggle, LoopStep, AddRow, AddEnds, RemoveRow, UpdateEnds, vars
    <2> QED
        BY <2>1 DEF NewsOK
<1> QED
    BY <1>1, <1>2, <1>4, <1>5, <1>6, <1>7, NewsSteps

LEMMA TrueStep == NewsOK /\ NewsAreTrue /\ [Next]_vars => NewsAreTrue'
<1> SUFFICES ASSUME NewsOK, NewsAreTrue, [Next]_vars,
                    NEW i \in DOMAIN news', NEW n \in DOMAIN (news'[i].says), n \in DOMAIN pbx'
             PROVE  news'[i].says[n] = pbx'[n] \/ n \in news'[i].aged
    BY DEF NewsAreTrue
<1>0. news \in Seq(Msg)
    BY DEF NewsOK
<1>1. ASSUME NEW e \in Ext, Changed(e)
      PROVE  news'[i].says[n] = pbx'[n] \/ n \in news'[i].aged
    <2>1. CASE news' = news /\ e \notin DOMAIN pbx'
        BY <1>1, <2>1 DEF Changed, NewsAreTrue
    <2>2. ASSUME NEW s \in Status, s = pbx'[e], Reports(e, s)
          PROVE  news'[i].says[n] = pbx'[n] \/ n \in news'[i].aged
        <3>1. /\ DOMAIN news = 1..Len(news) /\ Len(news) \in Nat /\ DOMAIN news' = 1..(Len(news) + 1)
              /\ \A j \in 1..Len(news) : /\ news'[j].says = news[j].says
                                         /\ news'[j].aged = news[j].aged \cup {e}
              /\ DOMAIN (news'[Len(news) + 1].says) = {e} /\ news'[Len(news) + 1].says[e] = s
            BY <2>2, ReportsFacts
        <3>2. CASE i = Len(news) + 1
            BY <2>2, <3>1, <3>2
        <3>3. CASE i \in 1..Len(news)
            <4>1. CASE n = e
                BY <3>1, <3>3, <4>1
            <4>2. CASE n # e
                BY <1>1, <3>1, <3>3, <4>2 DEF Changed, NewsAreTrue
            <4> QED
                BY <4>1, <4>2
        <3> QED
            BY <3>1, <3>2, <3>3
    <2> QED
        BY <1>1, <2>1, <2>2 DEF Changed
<1>2. CASE Told
    <2>1. PICK m \in Msg : /\ news' = Append(news, m)
                           /\ \A x \in DOMAIN m.says : m.says[x] = pbx[x]
        BY <1>2 DEF Told
    <2>2. /\ DOMAIN news = 1..Len(news) /\ Len(news) \in Nat
          /\ DOMAIN news' = 1..(Len(news) + 1) /\ news'[Len(news) + 1] = m
          /\ \A j \in 1..Len(news) : news'[j] = news[j]
        BY <1>0, <2>1, QueueAppend
    <2>3. pbx' = pbx
        BY <1>2 DEF Told
    <2>4. i = Len(news) + 1 \/ i \in 1..Len(news)
        BY <2>2
    <2> QED
        BY <2>1, <2>2, <2>3, <2>4 DEF NewsAreTrue
<1>3. ASSUME NEW j \in DOMAIN news, news' = RemoveAt(news, j), pbx' = pbx
      PROVE  news'[i].says[n] = pbx'[n] \/ n \in news'[i].aged
    <2>1. PICK k \in DOMAIN news : news'[i] = news[k]
        BY <1>3, Gone
    <2> QED
        BY <1>3, <2>1 DEF NewsAreTrue
<1>4. CASE LoseReport
    BY <1>3, <1>4 DEF LoseReport
<1>5. CASE RecvReport
    BY <1>3, <1>5, ReportCases DEF Take
<1>6. CASE RecvList
    BY <1>3, <1>6, ListCases DEF Take
<1>7. CASE UseAll \/ UNCHANGED outside
    <2>1. UNCHANGED <<pbx, news>>
        BY <1>7 DEF UseAll, outside
    <2> QED
        BY <2>1 DEF NewsAreTrue
<1> QED
    BY <1>1, <1>2, <1>4, <1>5, <1>6, <1>7, NewsSteps

-----------------------------------------------------------------------------
(* Types *)

\* The part of TypeOK that is about the tree.
TreeOK ==
    /\ rows \in Seq(Row) /\ unchecked \subseteq Broadcaster
    /\ step \in {"idle", "add", "remove"} /\ keys \subseteq Broadcaster
    /\ idList \in Seq(Broadcaster) /\ row \in Nat \ {0}

LEMMA TypeInit == Init => TypeOK
<1> SUFFICES ASSUME Init PROVE TypeOK
    OBVIOUS
<1>1. map = <<>> /\ status = <<>> /\ DOMAIN map = {} /\ DOMAIN status = {}
    BY DEF Init
<1>2. Shown = {} /\ Alive = {}
    BY <1>1 DEF Shown, Alive
<1>3. DOMAIN pbx \subseteq Ext /\ \A e \in DOMAIN pbx : pbx[e] \in Status
    BY NewsOKInit, MapFacts DEF NewsOK
<1>4. TreeOK
    BY DEF Init, TreeOK
<1> QED
    BY <1>1, <1>2, <1>3, <1>4 DEF Init, TypeOK, TreeOK, Row

\* A list makes the tree's loops begin, or empties the tree, or leaves it.
LEMMA TreeUpdate ==
    ASSUME UpdateTree
    PROVE  /\ unchecked' = unchecked \cap Want' /\ row' = row
           /\ \/ Want' = {} /\ rows' = <<>> /\ UNCHANGED <<step, keys, idList>>
              \/ /\ step' = "add" /\ keys' = Want' /\ rows' = rows
                 /\ idList' = [i \in DOMAIN rows |-> rows[i].id]
    BY DEF UpdateTree, Stations, Want, Shown

LEMMA IdsOfRows ==
    ASSUME NEW q \in Seq(Row)
    PROVE  /\ [i \in DOMAIN q |-> q[i].id] \in Seq(Broadcaster)
           /\ DOMAIN [i \in DOMAIN q |-> q[i].id] = DOMAIN q
<1>0. DOMAIN q = 1..Len(q) /\ Len(q) \in Nat /\ \A i \in 1..Len(q) : q[i] \in Row
    OBVIOUS
<1>1. DOMAIN q = 1..Len(q) /\ Len(q) \in Nat /\ \A i \in 1..Len(q) : q[i].id \in Broadcaster
    BY <1>0 DEF Row
<1>2. [i \in 1..Len(q) |-> q[i].id] \in [1..Len(q) -> Broadcaster]
    BY <1>1
<1> QED
    BY <1>1, <1>2

\* The check of one row is turned.
LEMMA Turned ==
    ASSUME NEW q \in Seq(Row), NEW k \in DOMAIN q
    PROVE  LET r == [q EXCEPT ![k].checked = ~@] IN
           /\ r \in Seq(Row) /\ DOMAIN r = DOMAIN q
           /\ \A j \in DOMAIN q : /\ r[j].id = q[j].id
                                  /\ r[j].checked <=> (IF j = k THEN ~q[j].checked ELSE q[j].checked)
<1> DEFINE r == [q EXCEPT ![k].checked = ~@]
<1>1. DOMAIN q = 1..Len(q) /\ Len(q) \in Nat /\ \A j \in 1..Len(q) : q[j] \in Row
    OBVIOUS
<1>2. DOMAIN r = 1..Len(q)
    BY <1>1
<1>3. /\ r[k] = [q[k] EXCEPT !.checked = ~q[k].checked]
      /\ \A j \in 1..Len(q) : j # k => r[j] = q[j]
    BY <1>1
<1>4. q[k] \in Row
    BY <1>1
<1>5. r[k] \in Row /\ r[k].id = q[k].id /\ (r[k].checked <=> ~q[k].checked)
    BY <1>3, <1>4 DEF Row
<1>6. r = [j \in 1..Len(q) |-> r[j]]
    BY <1>1
<1> HIDE DEF r
<1>7. \A j \in 1..Len(q) : /\ r[j] \in Row /\ r[j].id = q[j].id
                           /\ r[j].checked <=> (IF j = k THEN ~q[j].checked ELSE q[j].checked)
    BY <1>1, <1>3, <1>5
<1>8. r \in [1..Len(q) -> Row]
    BY <1>6, <1>7
<1>9. r \in Seq(Row)
    BY <1>1, <1>8
<1> QED
    BY <1>1, <1>2, <1>7, <1>9 DEF r

LEMMA TreeTypes == NewsOK /\ TreeOK /\ IsInjective(idList) /\ [Next]_vars => TreeOK'
<1> SUFFICES ASSUME NewsOK, TreeOK, IsInjective(idList), [Next]_vars PROVE TreeOK'
    OBVIOUS
<1>1. CASE UNCHANGED <<tree, loop>>
    BY <1>1 DEF tree, loop, TreeOK
<1>2. CASE RecvList
    <2>1. UpdateTree \/ UNCHANGED <<tree, loop>>
        BY <1>2, ListCases
    <2>2. CASE UpdateTree
        <3>1. Want' \subseteq Broadcaster
            BY DEF Want
        <3>2. [i \in DOMAIN rows |-> rows[i].id] \in Seq(Broadcaster)
            BY IdsOfRows DEF TreeOK
        <3>3. unchecked' \subseteq Broadcaster /\ row' \in Nat \ {0}
            BY <2>2, TreeUpdate DEF TreeOK
        <3>4. CASE rows' = <<>> /\ UNCHANGED <<step, keys, idList>>
            BY <3>3, <3>4 DEF TreeOK
        <3>5. CASE step' = "add" /\ keys' = Want' /\ rows' = rows
                   /\ idList' = [i \in DOMAIN rows |-> rows[i].id]
            BY <3>1, <3>2, <3>3, <3>5 DEF TreeOK
        <3> QED
            BY <2>2, <3>4, <3>5, TreeUpdate
    <2> QED
        BY <1>1, <2>1, <2>2
<1>3. CASE AddRow
    <2>1. PICK id \in keys :
             /\ keys' = keys \ {id}
             /\ \/ idList' = RemoveFirst(idList, id) /\ rows' = rows
                \/ rows' = Append(rows, [id |-> id, checked |-> TRUE]) /\ idList' = idList
        BY <1>3 DEF AddRow
    <2>2. UNCHANGED <<unchecked, step, row>>
        BY <1>3 DEF AddRow
    <2>3. RemoveFirst(idList, id) \in Seq(Broadcaster)
        BY FirstRemoved DEF TreeOK
    <2>4. [id |-> id, checked |-> TRUE] \in Row
        BY DEF TreeOK, Row
    <2>5. Append(rows, [id |-> id, checked |-> TRUE]) \in Seq(Row)
        BY <2>4, QueueAppend DEF TreeOK
    <2> QED
        BY <2>1, <2>2, <2>3, <2>5 DEF TreeOK
<1>4. CASE RemoveRow
    <2>1. /\ row \in DOMAIN rows /\ UNCHANGED <<unchecked, step, keys, idList>>
          /\ (rows' = rows /\ row' = row + 1) \/ (rows' = RemoveAt(rows, row) /\ row' = row)
        BY <1>4 DEF RemoveRow
    <2>2. RemoveAt(rows, row) \in Seq(Row)
        BY <2>1, QueueRemove DEF TreeOK
    <2> QED
        BY <2>1, <2>2 DEF TreeOK
<1>5. CASE AddEnds
    BY <1>5 DEF AddEnds, TreeOK, tree
<1>6. CASE UpdateEnds
    BY <1>6 DEF UpdateEnds, TreeOK, tree
<1>7. CASE Toggle
    <2>1. PICK k \in DOMAIN rows :
             /\ rows' = [rows EXCEPT ![k].checked = ~@]
             /\ unchecked' = IF rows[k].checked THEN unchecked \cup {rows[k].id}
                             ELSE unchecked \ {rows[k].id}
        BY <1>7 DEF Toggle
    <2>2. rows[k].id \in Broadcaster
        <3>1. rows[k] \in Row
            BY DEF TreeOK
        <3> QED
            BY <3>1 DEF Row
    <2>3. rows' \in Seq(Row)
        BY <2>1, Turned DEF TreeOK
    <2>4. UNCHANGED loop
        BY <1>7 DEF Toggle
    <2> QED
        BY <2>1, <2>2, <2>3, <2>4 DEF TreeOK, loop
<1>8. CASE PbxStep \/ RecvReport \/ PromptVideo \/ UseAll \/ UNCHANGED vars
    <2>1. UNCHANGED <<tree, loop>>
        BY <1>8 DEF PbxStep, PbxAdds, PbxRemoves, PbxStatus, AnswersList, AnswersOne, Answer, LoseReport,
                    RecvReport, PromptVideo, UseAll, vars
    <2> QED
        BY <1>1, <2>1
<1> QED
    BY <1>2, <1>3, <1>4, <1>5, <1>6, <1>7, <1>8 DEF Next, LoopStep, WindowStep

\* The window's part of the types.
LEMMA TypeStep ==
    TypeOK /\ NewsOK /\ OneEach /\ IsInjective(idList) /\ [Next]_vars => TypeOK'
<1> SUFFICES ASSUME TypeOK, NewsOK, OneEach, IsInjective(idList), [Next]_vars PROVE TypeOK'
    OBVIOUS
<1> USE DEF outside, widgets
<1>0. DOMAIN pbx' \subseteq Ext /\ \A e \in DOMAIN pbx' : pbx'[e] \in Status
    <2>1. NewsOK'
        BY NewsOKStep
    <2>2. pbx' \in Maps
        BY <2>1 DEF NewsOK
    <2> QED
        BY <2>2, MapFacts
<1>a. TreeOK'
    <2>1. TreeOK
        BY DEF TypeOK, TreeOK, Row
    <2> QED
        BY <2>1, TreeTypes
<1>b. ASSUME /\ DOMAIN map' \subseteq Name /\ \A n \in DOMAIN map' : map'[n] \in 0..made'
             /\ DOMAIN status' = Alive' /\ \A w \in Alive' : status'[w] \in Status
             /\ Cardinality(Alive') = Cardinality(Shown')
             /\ grouped' \subseteq Alive' /\ links' \subseteq Alive' \X Alive'
             /\ crashed' \in BOOLEAN /\ hasGroup' \in BOOLEAN
      PROVE  TypeOK'
    BY <1>0, <1>a, <1>b DEF TypeOK, TreeOK, Row
<1>1. CASE UNCHANGED widgets /\ crashed' \in BOOLEAN
    <2>1. Shown' = Shown /\ Alive' = Alive
        BY <1>1 DEF Shown, Alive
    <2> QED
        BY <1>b, <1>1, <2>1 DEF TypeOK
<1>2. CASE PbxStep \/ UseAll \/ Toggle \/ LoopStep \/ UNCHANGED vars
    <2>1. UNCHANGED widgets /\ crashed' \in BOOLEAN
        BY <1>2 DEF PbxStep, PbxAdds, PbxRemoves, PbxStatus, AnswersList, AnswersOne, Answer, LoseReport,
                    UseAll, Toggle, LoopStep, AddRow, AddEnds, RemoveRow, UpdateEnds, vars, TypeOK
    <2> QED
        BY <1>1, <2>1
<1>4. ASSUME NEW n \in Name, map' = Looked(n), UNCHANGED <<made, hasGroup, grouped, links, crashed>>,
             DOMAIN status' = DOMAIN status, \A w \in DOMAIN status : status'[w] \in Status
      PROVE  TypeOK'
    <2>1. /\ DOMAIN map' = DOMAIN map \cup {n} /\ (\A x \in DOMAIN map' : map'[x] \in 0..made')
          /\ Shown' = Shown /\ Alive' = Alive
        BY <1>4, LookedFacts
    <2>2. DOMAIN map' \subseteq Name
        BY <2>1 DEF TypeOK
    <2> QED
        BY <1>b, <1>4, <2>1, <2>2 DEF TypeOK
<1>5. CASE PromptVideo
    <2>1. PICK n \in Name : map' = Looked(n)
        BY <1>5 DEF PromptVideo
    <2>2. \A w \in DOMAIN status : status[w] \in Status
        BY DEF TypeOK
    <2> QED
        BY <1>4, <1>5, <2>1, <2>2 DEF PromptVideo
<1>6. CASE RecvReport
    <2>1. PICK i \in DOMAIN news, e \in Ext :
              /\ news[i].says[e] \in Status /\ e \in Name
              /\ map' = Looked(e)
              /\ status' = IF map'[e] = Null THEN status
                           ELSE [status EXCEPT ![map'[e]] = news[i].says[e]]
              /\ UNCHANGED <<made, hasGroup, grouped, links, crashed>>
        BY <1>6, ReportCases
    <2>2. DOMAIN status' = DOMAIN status /\ \A w \in DOMAIN status : status'[w] \in Status
        BY <2>1 DEF TypeOK
    <2> QED
        BY <1>4, <2>1, <2>2
<1>7. CASE RecvList
    <2>1. PICK i \in DOMAIN news :
              /\ news[i].says \in Maps
              /\ \/ Rebuild(news[i].says) /\ UNCHANGED crashed
                 \/ Update(news[i].says) /\ UNCHANGED crashed
                 \/ UNCHANGED widgets /\ (crashed' = TRUE \/ crashed' = crashed)
        BY <1>7, ListCases
    <2> DEFINE l == news[i].says
    <2> HIDE DEF l
    <2>2. l \in Maps /\ DOMAIN l \subseteq Ext /\ \A e \in DOMAIN l : l[e] \in Status
        BY <2>1, MapFacts DEF l
    <2>3. CASE UNCHANGED widgets /\ (crashed' = TRUE \/ crashed' = crashed)
        BY <1>1, <2>3 DEF TypeOK
    <2>4. CASE Rebuild(l) /\ UNCHANGED crashed
        <3>1. /\ DOMAIN map' = DOMAIN l /\ (\A n \in DOMAIN map' : map'[n] \in 0..made')
              /\ Alive' = {map'[n] : n \in DOMAIN l}
              /\ Cardinality(Alive') = Cardinality(Shown')
              /\ DOMAIN status' = Alive'
              /\ \A n \in DOMAIN l : status'[map'[n]] = l[n]
              /\ grouped' \subseteq Alive' /\ links' = LinksOf(map') /\ hasGroup' = TRUE
            BY <2>2, <2>4, RebuildFacts
        <3>2. DOMAIN map' \subseteq Name
            BY <2>2, <3>1, BoundAssumption
        <3>3. \A w \in Alive' : status'[w] \in Status
            BY <2>2, <3>1
        <3>4. links' \subseteq Alive' \X Alive'
            BY <3>1 DEF LinksOf
        <3> QED
            BY <1>b, <2>4, <3>1, <3>2, <3>3, <3>4 DEF TypeOK
    <2>5. CASE Update(l) /\ UNCHANGED crashed
        <3>1. /\ UNCHANGED <<map, made, hasGroup, grouped, links>>
              /\ DOMAIN status' = DOMAIN status /\ Shown' = Shown /\ Alive' = Alive
              /\ \A n \in Shown \cap DOMAIN l : status'[map[n]] = l[n]
              /\ \A n \in Shown \ DOMAIN l : status'[map[n]] = status[map[n]]
            BY <2>2, <2>5, UpdateFacts
        <3>2. \A n \in Shown : status'[map[n]] \in Status
            BY <2>2, <3>1 DEF TypeOK, Alive
        <3>3. \A w \in Alive : status'[w] \in Status
            BY <3>2 DEF Alive
        <3> QED
            BY <1>b, <2>5, <3>1, <3>3 DEF TypeOK
    <2> QED
        BY <2>1, <2>3, <2>4, <2>5 DEF l
<1> QED
    BY <1>2, <1>5, <1>6, <1>7 DEF Next, WindowStep

-----------------------------------------------------------------------------
(* The numbers and their widgets *)

\* A step changes no widget and no number that has one, or takes a list.
LEMMA WidgetSteps ==
    ASSUME TypeOK, NewsOK, [Next]_vars
    PROVE  \/ RecvList
           \/ /\ Shown' = Shown /\ Alive' = Alive /\ (\A x \in Shown : map'[x] = map[x])
              /\ links' = links
<1> USE DEF outside, widgets
<1>1. CASE PbxStep \/ UseAll \/ Toggle \/ LoopStep \/ UNCHANGED vars
    <2>1. UNCHANGED <<map, links>>
        BY <1>1 DEF PbxStep, PbxAdds, PbxRemoves, PbxStatus, AnswersList, AnswersOne, Answer, LoseReport,
                    UseAll, Toggle, LoopStep, AddRow, AddEnds, RemoveRow, UpdateEnds, vars
    <2> QED
        BY <2>1 DEF Shown, Alive
<1>2. CASE PromptVideo
    <2>1. PICK n \in Name : map' = Looked(n)
        BY <1>2 DEF PromptVideo
    <2> QED
        BY <1>2, <2>1, LookedFacts DEF PromptVideo
<1>3. CASE RecvReport
    <2>1. PICK e \in Ext : e \in Name /\ map' = Looked(e) /\ UNCHANGED <<made, links>>
        BY <1>3, ReportCases
    <2> QED
        BY <2>1, LookedFacts
<1> QED
    BY <1>1, <1>2, <1>3 DEF Next, WindowStep

\* Taking a list keeps the widgets, or gives each number a widget of its own.
LEMMA ListSteps ==
    ASSUME TypeOK, NewsOK, OneEach, RecvList
    PROVE  \/ /\ Shown' = Shown /\ (\A x \in Shown : map'[x] = map[x]) /\ links' = links
           \/ /\ \A x, y \in Shown' : map'[x] = map'[y] => x = y
              /\ Shown' = DOMAIN map' /\ links' = LinksOf(map')
<1>1. PICK l \in Maps : Rebuild(l) \/ Update(l) \/ UNCHANGED widgets
    BY ListCases
<1>2. CASE Rebuild(l)
    BY <1>2, RebuildFacts
<1>3. CASE Update(l)
    BY <1>3, UpdateFacts
<1>4. CASE UNCHANGED widgets
    BY <1>4 DEF Shown, widgets
<1> QED
    BY <1>1, <1>2, <1>3, <1>4

LEMMA OneStep == TypeOK /\ NewsOK /\ OneEach /\ [Next]_vars => OneEach'
<1> SUFFICES ASSUME TypeOK, NewsOK, OneEach, [Next]_vars PROVE OneEach'
    OBVIOUS
<1>1. CASE Shown' = Shown /\ (\A x \in Shown : map'[x] = map[x])
    BY <1>1 DEF OneEach
<1>2. CASE \A x, y \in Shown' : map'[x] = map'[y] => x = y
    BY <1>2 DEF OneEach
<1> QED
    BY <1>1, <1>2, WidgetSteps, ListSteps

LEMMA CenterStep ==
    TypeOK /\ NewsOK /\ OneEach /\ CenterIsLinked /\ [Next]_vars => CenterIsLinked'
<1> SUFFICES ASSUME TypeOK, NewsOK, OneEach, CenterIsLinked, [Next]_vars PROVE CenterIsLinked'
    OBVIOUS
<1>1. CASE Shown' = Shown /\ (\A x \in Shown : map'[x] = map[x]) /\ links' = links
    BY <1>1 DEF CenterIsLinked
<1>2. CASE Shown' = DOMAIN map' /\ links' = LinksOf(map')
    BY <1>2 DEF CenterIsLinked, LinksOf
<1> QED
    BY <1>1, <1>2, WidgetSteps, ListSteps

-----------------------------------------------------------------------------
(* The rows of the tree *)

LEMMA WantStays ==
    ASSUME TypeOK, NewsOK, [Next]_vars
    PROVE  RecvList \/ Want' = Want
    BY WidgetSteps DEF Want

\* Rows that stay, with other checks at most.
LEMMA SameIds ==
    ASSUME DOMAIN rows' = DOMAIN rows, \A k \in DOMAIN rows : (rows'[k]).id = rows[k].id
    PROVE  RowIds' = RowIds
    BY DEF RowIds

\* A new row.
LEMMA RowsAppended ==
    ASSUME TreeOK, NEW x \in Row, rows' = Append(rows, x)
    PROVE  /\ DOMAIN rows = 1..Len(rows) /\ Len(rows) \in Nat
           /\ DOMAIN rows' = 1..(Len(rows) + 1) /\ rows'[Len(rows) + 1] = x
           /\ \A k \in 1..Len(rows) : rows'[k] = rows[k]
           /\ RowIds' = RowIds \cup {x.id}
<1>1. /\ DOMAIN rows = 1..Len(rows) /\ Len(rows) \in Nat
      /\ DOMAIN rows' = 1..(Len(rows) + 1) /\ rows'[Len(rows) + 1] = x
      /\ \A k \in 1..Len(rows) : rows'[k] = rows[k]
    BY QueueAppend DEF TreeOK
<1>2. \A k \in DOMAIN rows' : k = Len(rows) + 1 \/ k \in DOMAIN rows
    BY <1>1
<1>3. Len(rows) + 1 \in DOMAIN rows' /\ \A k \in DOMAIN rows : k \in DOMAIN rows'
    BY <1>1
<1>4. ASSUME NEW n \in RowIds' PROVE n \in RowIds \cup {x.id}
    <2>1. PICK k \in DOMAIN rows' : n = (rows'[k]).id
        BY <1>4 DEF RowIds
    <2> QED
        BY <1>1, <1>2, <2>1 DEF RowIds
<1>5. ASSUME NEW n \in RowIds \cup {x.id} PROVE n \in RowIds'
    <2>1. CASE n = x.id
        BY <1>1, <1>3, <2>1 DEF RowIds
    <2>2. CASE n \in RowIds
        <3>1. PICK k \in DOMAIN rows : n = rows[k].id
            BY <2>2 DEF RowIds
        <3>2. k \in DOMAIN rows' /\ rows'[k] = rows[k]
            BY <1>1, <1>3
        <3> QED
            BY <3>1, <3>2 DEF RowIds
    <2> QED
        BY <1>5, <2>1, <2>2
<1> QED
    BY <1>1, <1>4, <1>5

\* A row is removed, and no other station had the same name.
LEMMA RowsRemoved ==
    ASSUME TreeOK, NEW i \in DOMAIN rows, rows' = RemoveAt(rows, i),
           \A j, k \in DOMAIN rows : rows[j].id = rows[k].id => j = k
    PROVE  /\ RowIds' = RowIds \ {rows[i].id}
           /\ \A j, k \in DOMAIN rows' : (rows'[j]).id = (rows'[k]).id => j = k
           /\ \A k \in DOMAIN rows' : /\ \E j \in DOMAIN rows : rows'[k] = rows[j]
                                      /\ k < i => k \in DOMAIN rows /\ rows'[k] = rows[k]
<1>1. /\ DOMAIN rows = 1..Len(rows) /\ Len(rows) \in Nat \ {0} /\ DOMAIN rows' = 1..(Len(rows) - 1)
      /\ \A k \in 1..(Len(rows) - 1) : rows'[k] = IF k < i THEN rows[k] ELSE rows[k + 1]
    BY QueueRemove DEF TreeOK
<1>2. /\ \A k \in DOMAIN rows' : \E j \in DOMAIN rows : j # i /\ rows'[k] = rows[j]
      /\ \A j \in DOMAIN rows : j = i \/ \E k \in DOMAIN rows' : rows'[k] = rows[j]
    BY Removed DEF TreeOK
<1>3. ASSUME NEW n \in RowIds' PROVE n \in RowIds \ {rows[i].id}
    <2>1. PICK k \in DOMAIN rows' : n = (rows'[k]).id
        BY <1>3 DEF RowIds
    <2>2. PICK j \in DOMAIN rows : j # i /\ rows'[k] = rows[j]
        BY <1>2
    <2> QED
        BY <2>1, <2>2 DEF RowIds
<1>4. ASSUME NEW n \in RowIds \ {rows[i].id} PROVE n \in RowIds'
    <2>1. PICK j \in DOMAIN rows : n = rows[j].id /\ j # i
        BY <1>4 DEF RowIds
    <2>2. PICK k \in DOMAIN rows' : rows'[k] = rows[j]
        BY <1>2, <2>1
    <2> QED
        BY <2>1, <2>2 DEF RowIds
<1>5. ASSUME NEW j \in DOMAIN rows', NEW k \in DOMAIN rows', (rows'[j]).id = (rows'[k]).id
      PROVE  j = k
    <2>1. /\ (j < i => rows'[j] = rows[j]) /\ (~(j < i) => rows'[j] = rows[j + 1])
          /\ (k < i => rows'[k] = rows[k]) /\ (~(k < i) => rows'[k] = rows[k + 1])
        BY <1>1
    <2>2. /\ j \in DOMAIN rows /\ k \in DOMAIN rows /\ j + 1 \in DOMAIN rows /\ k + 1 \in DOMAIN rows
          /\ j \in Nat /\ k \in Nat /\ i \in Nat
        BY <1>1
    <2>3. CASE j < i /\ k < i
        BY <1>5, <2>1, <2>2, <2>3
    <2>4. CASE j < i /\ ~(k < i)
        <3>1. j = k + 1
            BY <1>5, <2>1, <2>2, <2>4
        <3> QED
            BY <2>2, <2>4, <3>1
    <2>5. CASE ~(j < i) /\ k < i
        <3>1. j + 1 = k
            BY <1>5, <2>1, <2>2, <2>5
        <3> QED
            BY <2>2, <2>5, <3>1
    <2>6. CASE ~(j < i) /\ ~(k < i)
        <3>1. j + 1 = k + 1
            BY <1>5, <2>1, <2>2, <2>6
        <3> QED
            BY <2>2, <3>1
    <2> QED
        BY <2>3, <2>4, <2>5, <2>6
<1>6. ASSUME NEW k \in DOMAIN rows'
      PROVE  /\ \E j \in DOMAIN rows : rows'[k] = rows[j]
             /\ k < i => k \in DOMAIN rows /\ rows'[k] = rows[k]
    BY <1>1, <1>2
<1> QED
    BY <1>3, <1>4, <1>5, <1>6

\* The rows are those of the stations there are, while the loops go on and after.
LEMMA RowsStep ==
    TypeOK /\ NewsOK /\ TreeOK /\ RowsAreRight /\ [Next]_vars => RowsAreRight'
<1> SUFFICES ASSUME TypeOK, NewsOK, TreeOK, RowsAreRight, [Next]_vars PROVE RowsAreRight'
    OBVIOUS
<1>1. CASE UNCHANGED loop /\ DOMAIN rows' = DOMAIN rows
           /\ (\A k \in DOMAIN rows : (rows'[k]).id = rows[k].id) /\ Want' = Want
    <2>1. RowIds' = RowIds
        BY <1>1, SameIds
    <2> QED
        BY <1>1, <2>1 DEF RowsAreRight, loop, Old
<1>2. CASE ~RecvList /\ UNCHANGED <<tree, loop>>
    <2>1. Want' = Want
        BY <1>2, WantStays
    <2> QED
        BY <1>1, <1>2, <2>1 DEF tree
<1>3. CASE RecvList
    <2>1. CASE UNCHANGED <<widgets, tree, loop>>
        <3>1. Want' = Want
            BY <2>1 DEF widgets, Want, Shown
        <3> QED
            BY <1>1, <2>1, <3>1 DEF tree
    <2>2. CASE UpdateTree /\ step = "idle"
        <3>1. CASE Want' = {} /\ rows' = <<>> /\ UNCHANGED <<step, keys, idList>>
            <4>1. DOMAIN rows' = {}
                BY <3>1
            <4>2. RowIds' = {} /\ step' = "idle"
                BY <2>2, <3>1, <4>1 DEF RowIds
            <4> QED
                BY <3>1, <4>1, <4>2 DEF RowsAreRight
        <3>2. CASE step' = "add" /\ keys' = Want' /\ rows' = rows
                   /\ idList' = [i \in DOMAIN rows |-> rows[i].id]
            <4>1. RowIds' = RowIds /\ DOMAIN idList' = DOMAIN rows
                BY <3>2 DEF RowIds
            <4>2. Old' = RowIds
                BY <3>2, <4>1 DEF RowIds, Old, Range
            <4>3. IsInjective(idList)'
                BY <3>2, <4>1 DEF IsInjective, RowsAreRight
            <4>4. \A j, k \in DOMAIN rows' : (rows'[j]).id = (rows'[k]).id => j = k
                BY <3>2 DEF RowsAreRight
            <4> QED
                BY <3>2, <4>1, <4>2, <4>3, <4>4 DEF RowsAreRight
        <3> QED
            BY <2>2, <3>1, <3>2, TreeUpdate
    <2> QED
        BY <1>3, <2>1, <2>2, ListCases DEF RecvList, WindowIsFree
<1>4. CASE AddRow
    <2>1. PICK id \in keys :
             /\ keys' = keys \ {id}
             /\ \/ id \in Old /\ idList' = RemoveFirst(idList, id) /\ rows' = rows
                \/ id \notin Old /\ rows' = Append(rows, [id |-> id, checked |-> TRUE]) /\ idList' = idList
        BY <1>4 DEF AddRow, Old
    <2>2. step = "add" /\ step' = "add" /\ row' = row
        BY <1>4 DEF AddRow
    <2>3. /\ Old \subseteq RowIds /\ keys \cap (RowIds \ Old) = {}
          /\ Want = (RowIds \ Old) \cup keys
        BY <2>2 DEF RowsAreRight
    <2>4. Want' = Want
        <3>1. UNCHANGED map
            BY <1>4 DEF AddRow, widgets
        <3> QED
            BY <3>1 DEF Want, Shown
    <2>5. CASE id \in Old /\ idList' = RemoveFirst(idList, id) /\ rows' = rows
        <3>1. IsInjective(idList)' /\ Old' = Old \ {id}
            BY <2>5, FirstRemoved DEF TreeOK, RowsAreRight, Old
        <3>2. RowIds' = RowIds
            BY <2>5 DEF RowIds
        <3>3. /\ Old' \subseteq RowIds' /\ keys' \cap (RowIds' \ Old') = {}
              /\ Want' = (RowIds' \ Old') \cup keys'
            BY <2>1, <2>3, <2>4, <2>5, <3>1, <3>2
        <3> QED
            BY <2>2, <2>5, <3>1, <3>3 DEF RowsAreRight
    <2>6. CASE id \notin Old /\ rows' = Append(rows, [id |-> id, checked |-> TRUE]) /\ idList' = idList
        <3>0. [id |-> id, checked |-> TRUE] \in Row
            BY DEF Row, TreeOK
        <3>1. /\ DOMAIN rows = 1..Len(rows) /\ Len(rows) \in Nat
              /\ DOMAIN rows' = 1..(Len(rows) + 1) /\ rows'[Len(rows) + 1] = [id |-> id, checked |-> TRUE]
              /\ \A k \in 1..Len(rows) : rows'[k] = rows[k]
              /\ RowIds' = RowIds \cup {id}
            BY <2>6, <3>0, RowsAppended
        <3>2. id \notin RowIds
            BY <2>3, <2>6
        <3>3. \A k \in 1..Len(rows) : (rows'[k]).id # id
            BY <3>1, <3>2 DEF RowIds
        <3>4. ASSUME NEW j \in DOMAIN rows', NEW k \in DOMAIN rows', (rows'[j]).id = (rows'[k]).id
              PROVE  j = k
            <4>1. (j = Len(rows) + 1 \/ j \in 1..Len(rows)) /\ (k = Len(rows) + 1 \/ k \in 1..Len(rows))
                BY <3>1
            <4>2. CASE j \in 1..Len(rows) /\ k \in 1..Len(rows)
                BY <3>1, <3>4, <4>2 DEF RowsAreRight
            <4>3. (rows'[Len(rows) + 1]).id = id
                BY <3>1
            <4> QED
                BY <3>3, <3>4, <4>1, <4>2, <4>3
        <3>5. Old' = Old /\ (IsInjective(idList)' <=> IsInjective(idList))
            BY <2>6 DEF Old
        <3>6. /\ Old' \subseteq RowIds' /\ keys' \cap (RowIds' \ Old') = {}
              /\ Want' = (RowIds' \ Old') \cup keys'
            BY <2>1, <2>3, <2>4, <2>6, <3>1, <3>5
        <3> QED
            BY <2>2, <3>4, <3>5, <3>6 DEF RowsAreRight
    <2> QED
        BY <2>1, <2>5, <2>6
<1>5. CASE AddEnds
    <2>1. /\ step = "add" /\ keys = {} /\ step' = "remove" /\ row' = 1
          /\ UNCHANGED <<map, rows, idList>>
        BY <1>5 DEF AddEnds, tree, widgets
    <2>2. Want' = Want /\ RowIds' = RowIds /\ Old' = Old
        BY <2>1 DEF Want, Shown, RowIds, Old
    <2>3. \A k \in DOMAIN rows' : ~(k < row')
        <3>1. DOMAIN rows = 1..Len(rows)
            BY DEF TreeOK
        <3> QED
            BY <2>1, <3>1
    <2>4. Want' = RowIds' \ Old'
        BY <2>1, <2>2 DEF RowsAreRight
    <2> QED
        BY <2>1, <2>2, <2>3, <2>4 DEF RowsAreRight
<1>6. CASE RemoveRow
    <2>1. /\ step = "remove" /\ row \in DOMAIN rows /\ UNCHANGED <<step, idList, map>>
          /\ \/ rows[row].id \in Old /\ rows' = RemoveAt(rows, row) /\ row' = row
             \/ rows[row].id \notin Old /\ rows' = rows /\ row' = row + 1
        BY <1>6 DEF RemoveRow, widgets, Old
    <2>2. Want' = Want /\ Old' = Old /\ Want = RowIds \ Old
        BY <2>1 DEF Want, Shown, Old, RowsAreRight
    <2>3. CASE rows[row].id \in Old /\ rows' = RemoveAt(rows, row) /\ row' = row
        <3>1. /\ RowIds' = RowIds \ {rows[row].id}
              /\ \A j, k \in DOMAIN rows' : (rows'[j]).id = (rows'[k]).id => j = k
              /\ \A k \in DOMAIN rows' : k < row => k \in DOMAIN rows /\ rows'[k] = rows[k]
            BY <2>1, <2>3, RowsRemoved DEF RowsAreRight
        <3>2. Want' = RowIds' \ Old'
            BY <2>2, <2>3, <3>1
        <3>3. \A k \in DOMAIN rows' : k < row' => (rows'[k]).id \notin Old'
            BY <2>1, <2>2, <2>3, <3>1 DEF RowsAreRight
        <3> QED
            BY <2>1, <3>1, <3>2, <3>3 DEF RowsAreRight
    <2>4. CASE rows[row].id \notin Old /\ rows' = rows /\ row' = row + 1
        <3>1. RowIds' = RowIds
            BY <2>4 DEF RowIds
        <3>2. \A k \in DOMAIN rows' : k < row' => k = row \/ k < row
            <4>1. DOMAIN rows = 1..Len(rows) /\ row \in Nat
                BY DEF TreeOK
            <4> QED
                BY <2>4, <4>1
        <3>3. \A k \in DOMAIN rows' : k < row' => (rows'[k]).id \notin Old'
            BY <2>1, <2>2, <2>4, <3>2 DEF RowsAreRight
        <3> QED
            BY <2>1, <2>2, <2>4, <3>1, <3>3 DEF RowsAreRight
    <2> QED
        BY <2>1, <2>3, <2>4
<1>7. CASE UpdateEnds
    <2>1. /\ step = "remove" /\ row \notin DOMAIN rows /\ step' = "idle" /\ idList' = <<>>
          /\ UNCHANGED <<map, rows>>
        BY <1>7 DEF UpdateEnds, tree, widgets
    <2>2. Want' = Want /\ RowIds' = RowIds /\ Want = RowIds \ Old
        BY <2>1 DEF Want, Shown, RowIds, RowsAreRight
    <2>3. RowIds \cap Old = {}
        <3>1. DOMAIN rows = 1..Len(rows) /\ Len(rows) \in Nat /\ row \in Nat \ {0}
            BY DEF TreeOK
        <3>2. \A k \in DOMAIN rows : k < row
            BY <2>1, <3>1
        <3> QED
            BY <2>1, <3>2 DEF RowsAreRight, RowIds
    <2>4. IsInjective(idList)'
        BY <2>1 DEF IsInjective
    <2> QED
        BY <2>1, <2>2, <2>3, <2>4 DEF RowsAreRight
<1>8. CASE Toggle
    <2>1. PICK k \in DOMAIN rows : rows' = [rows EXCEPT ![k].checked = ~@]
        BY <1>8 DEF Toggle
    <2>2. DOMAIN rows' = DOMAIN rows /\ \A j \in DOMAIN rows : (rows'[j]).id = rows[j].id
        BY <2>1, Turned DEF TreeOK
    <2>3. UNCHANGED <<widgets, loop>>
        BY <1>8 DEF Toggle
    <2>4. Want' = Want
        BY <2>3 DEF Want, Shown, widgets
    <2> QED
        BY <1>1, <2>2, <2>3, <2>4
<1>9. CASE PbxStep \/ RecvReport \/ PromptVideo \/ UseAll \/ UNCHANGED vars
    <2>1. UNCHANGED <<tree, loop>>
        BY <1>9 DEF PbxStep, PbxAdds, PbxRemoves, PbxStatus, AnswersList, AnswersOne, Answer, LoseReport,
                    RecvReport, PromptVideo, UseAll, vars
    <2> QED
        BY <1>2, <1>3, <2>1
<1> QED
    BY <1>3, <1>4, <1>5, <1>6, <1>7, <1>8, <1>9 DEF Next, LoopStep, WindowStep

\* A check is the operator's, while the loops go on and after.
LEMMA ChecksStep ==
    /\ TypeOK /\ NewsOK /\ TreeOK /\ RowsAreRight /\ ChecksAreRight /\ [Next]_vars
    => ChecksAreRight'
<1> SUFFICES ASSUME TypeOK, NewsOK, TreeOK, RowsAreRight, ChecksAreRight, [Next]_vars
             PROVE  ChecksAreRight'
    OBVIOUS
<1>1. CASE UNCHANGED tree /\ Want' = Want
    BY <1>1 DEF ChecksAreRight, tree, RowIds
<1>2. CASE RecvList
    <2>1. CASE UNCHANGED <<widgets, tree>>
        <3>1. Want' = Want
            BY <2>1 DEF widgets, Want, Shown
        <3> QED
            BY <1>1, <2>1, <3>1
    <2>2. CASE UpdateTree /\ step = "idle"
        <3>0. RowIds = Want /\ unchecked' = unchecked \cap Want'
            BY <2>2, TreeUpdate DEF RowsAreRight
        <3>1. CASE Want' = {} /\ rows' = <<>>
            <4>1. DOMAIN rows' = {}
                BY <3>1
            <4> QED
                BY <3>0, <3>1, <4>1 DEF ChecksAreRight
        <3>2. CASE rows' = rows
            <4>1. RowIds' = RowIds
                BY <3>2 DEF RowIds
            <4>2. \A k \in DOMAIN rows : rows[k].id \in Want
                BY <3>0 DEF RowIds
            <4>3. unchecked' \subseteq Want' \cap RowIds'
                BY <3>0, <4>1 DEF ChecksAreRight
            <4>4. \A k \in DOMAIN rows : rows[k].id \in Want' =>
                     (rows[k].checked <=> rows[k].id \notin unchecked')
                BY <3>0, <4>2 DEF ChecksAreRight
            <4> QED
                BY <3>2, <4>3, <4>4 DEF ChecksAreRight
        <3> QED
            BY <2>2, <3>1, <3>2, TreeUpdate
    <2> QED
        BY <1>2, <2>1, <2>2, ListCases DEF RecvList, WindowIsFree
<1>3. CASE AddRow
    <2>1. PICK id \in keys :
             \/ rows' = rows
             \/ id \notin Old /\ rows' = Append(rows, [id |-> id, checked |-> TRUE])
        BY <1>3 DEF AddRow, Old
    <2>2. step = "add" /\ UNCHANGED <<unchecked, map>>
        BY <1>3 DEF AddRow, widgets
    <2>3. Want' = Want
        BY <2>2 DEF Want, Shown
    <2>4. CASE rows' = rows
        BY <2>2, <2>3, <2>4 DEF ChecksAreRight, RowIds
    <2>5. CASE id \notin Old /\ rows' = Append(rows, [id |-> id, checked |-> TRUE])
        <3>0. [id |-> id, checked |-> TRUE] \in Row
            BY DEF Row, TreeOK
        <3>1. /\ DOMAIN rows = 1..Len(rows) /\ Len(rows) \in Nat
              /\ DOMAIN rows' = 1..(Len(rows) + 1) /\ rows'[Len(rows) + 1] = [id |-> id, checked |-> TRUE]
              /\ \A k \in 1..Len(rows) : rows'[k] = rows[k]
              /\ RowIds' = RowIds \cup {id}
            BY <2>5, <3>0, RowsAppended
        <3>2. id \notin unchecked
            BY <2>2, <2>5 DEF RowsAreRight, ChecksAreRight
        <3>3. ASSUME NEW k \in DOMAIN rows', (rows'[k]).id \in Want
              PROVE  (rows'[k]).checked <=> (rows'[k]).id \notin unchecked
            <4>1. CASE k = Len(rows) + 1
                BY <3>1, <3>2, <4>1
            <4>2. CASE k # Len(rows) + 1
                <5>1. k \in DOMAIN rows /\ rows'[k] = rows[k]
                    BY <3>1, <4>2
                <5> QED
                    BY <3>3, <5>1 DEF ChecksAreRight
            <4> QED
                BY <4>1, <4>2
        <3>4. unchecked' \subseteq Want' \cap RowIds'
            BY <2>2, <2>3, <3>1 DEF ChecksAreRight
        <3> QED
            BY <2>2, <2>3, <3>3, <3>4 DEF ChecksAreRight
    <2> QED
        BY <2>1, <2>4, <2>5
<1>4. CASE RemoveRow
    <2>1. /\ step = "remove" /\ row \in DOMAIN rows /\ UNCHANGED <<unchecked, map>>
          /\ \/ rows[row].id \in Old /\ rows' = RemoveAt(rows, row)
             \/ rows' = rows
        BY <1>4 DEF RemoveRow, widgets, Old
    <2>2. Want' = Want /\ Want = RowIds \ Old
        BY <2>1 DEF Want, Shown, RowsAreRight
    <2>3. CASE rows' = rows
        BY <2>1, <2>2, <2>3 DEF ChecksAreRight, RowIds
    <2>4. CASE rows[row].id \in Old /\ rows' = RemoveAt(rows, row)
        <3>1. /\ RowIds' = RowIds \ {rows[row].id}
              /\ \A k \in DOMAIN rows' : \E j \in DOMAIN rows : rows'[k] = rows[j]
            BY <2>1, <2>4, RowsRemoved DEF RowsAreRight
        <3>2. unchecked' \subseteq Want' \cap RowIds'
            BY <2>1, <2>2, <2>4, <3>1 DEF ChecksAreRight
        <3>3. ASSUME NEW k \in DOMAIN rows', (rows'[k]).id \in Want
              PROVE  (rows'[k]).checked <=> (rows'[k]).id \notin unchecked
            <4>1. PICK j \in DOMAIN rows : rows'[k] = rows[j]
                BY <3>1
            <4> QED
                BY <3>3, <4>1 DEF ChecksAreRight
        <3> QED
            BY <2>1, <2>2, <3>2, <3>3 DEF ChecksAreRight
    <2> QED
        BY <2>1, <2>3, <2>4
<1>5. CASE Toggle
    <2>1. PICK k \in DOMAIN rows :
             /\ rows' = [rows EXCEPT ![k].checked = ~@]
             /\ unchecked' = IF rows[k].checked THEN unchecked \cup {rows[k].id}
                             ELSE unchecked \ {rows[k].id}
        BY <1>5 DEF Toggle
    <2>2. /\ DOMAIN rows' = DOMAIN rows
          /\ \A j \in DOMAIN rows :
                /\ (rows'[j]).id = rows[j].id
                /\ (rows'[j]).checked <=> (IF j = k THEN ~rows[j].checked ELSE rows[j].checked)
        BY <2>1, Turned DEF TreeOK
    <2>3. RowIds' = RowIds
        BY <2>2, SameIds
    <2>4. step = "idle" /\ UNCHANGED widgets
        BY <1>5 DEF Toggle, WindowIsFree
    <2>5. Want' = Want /\ RowIds = Want /\ rows[k].id \in Want
        BY <2>4 DEF Want, Shown, widgets, RowsAreRight, RowIds
    <2>6. unchecked' \subseteq Want' \cap RowIds'
        BY <2>1, <2>3, <2>5 DEF ChecksAreRight
    <2>7. ASSUME NEW j \in DOMAIN rows, rows[j].id \in Want
          PROVE  (rows'[j]).checked <=> rows[j].id \notin unchecked'
        <3>0. rows[j].checked <=> rows[j].id \notin unchecked
            BY <2>7 DEF ChecksAreRight
        <3>1. CASE j = k
            BY <2>1, <2>2, <3>0, <3>1
        <3>2. CASE j # k
            <4>1. rows[j].id # rows[k].id
                BY <3>2 DEF RowsAreRight
            <4> QED
                BY <2>1, <2>2, <3>0, <3>2, <4>1
        <3> QED
            BY <3>1, <3>2
    <2> QED
        BY <2>2, <2>5, <2>6, <2>7 DEF ChecksAreRight
<1>6. CASE ~RecvList /\ UNCHANGED tree
    BY <1>1, <1>6, WantStays
<1>7. CASE AddEnds \/ UpdateEnds \/ PbxStep \/ RecvReport \/ PromptVideo \/ UseAll \/ UNCHANGED vars
    <2>1. UNCHANGED tree
        BY <1>7 DEF AddEnds, UpdateEnds, PbxStep, PbxAdds, PbxRemoves, PbxStatus, AnswersList, AnswersOne,
                    Answer, LoseReport, RecvReport, PromptVideo, UseAll, vars
    <2> QED
        BY <1>2, <1>6, <2>1
<1> QED
    BY <1>2, <1>3, <1>4, <1>5, <1>7 DEF Next, LoopStep, WindowStep

-----------------------------------------------------------------------------
(* The news *)

\* A message on its way, or a lost or overtaken one, tells why n is not shown right.
Excused(n) == n \in lost \cup outrun \/ \E i \in DOMAIN news : n \in DOMAIN news[i].says \ news[i].aged

\* The window shows the news, or it is on its way, or it was lost or overtaken.
LEMMA NewsStep ==
    /\ TypeOK /\ NewsOK /\ OneEach /\ NewsAreTrue /\ NewsIsShown /\ [Next]_vars
    => NewsIsShown'
<1> DEFINE Goal(n) == status'[map'[n]] = pbx'[n] \/ Excused(n)'
<1> SUFFICES ASSUME TypeOK, NewsOK, OneEach, NewsAreTrue, NewsIsShown, [Next]_vars,
                    ~crashed', NEW n \in Shown', n \in DOMAIN pbx'
             PROVE  Goal(n)
    BY DEF NewsIsShown, Excused
<1>0. news \in Seq(Msg)
    BY DEF NewsOK
<1>b. ~crashed /\ n \in Shown /\ n \in DOMAIN pbx => status[map[n]] = pbx[n] \/ Excused(n)
    BY DEF NewsIsShown, Excused
<1>1. ASSUME NEW e \in Ext, Changed(e) PROVE Goal(n)
    <2>1. UNCHANGED <<map, status, outrun, lost, crashed>> /\ n \in Shown
        BY <1>1 DEF Changed, Shown, widgets
    <2>2. CASE n = e
        <3>1. PICK s \in Status : s = pbx'[e] /\ Reports(e, s)
            BY <1>1, <2>2 DEF Changed
        <3>2. /\ Len(news) \in Nat /\ DOMAIN news' = 1..(Len(news) + 1)
              /\ DOMAIN (news'[Len(news) + 1].says) = {e} /\ news'[Len(news) + 1].aged = {}
            BY <3>1, ReportsFacts
        <3>3. Len(news) + 1 \in DOMAIN news'
            BY <3>2
        <3> QED
            BY <2>2, <3>2, <3>3 DEF Excused
    <2>3. CASE n # e
        <3>1. n \in DOMAIN pbx /\ pbx'[n] = pbx[n]
            BY <1>1, <2>3 DEF Changed
        <3>2. ASSUME NEW i \in DOMAIN news, n \in DOMAIN news[i].says \ news[i].aged
              PROVE  i \in DOMAIN news' /\ n \in DOMAIN (news'[i].says) \ news'[i].aged
            <4>1. CASE news' = news
                BY <3>2, <4>1
            <4>2. ASSUME NEW s \in Status, Reports(e, s)
                  PROVE  i \in DOMAIN news' /\ n \in DOMAIN (news'[i].says) \ news'[i].aged
                <5>1. /\ Len(news) \in Nat /\ DOMAIN news = 1..Len(news)
                      /\ DOMAIN news' = 1..(Len(news) + 1)
                      /\ \A k \in 1..Len(news) : /\ news'[k].says = news[k].says
                                                 /\ news'[k].aged = news[k].aged \cup {e}
                    BY <4>2, ReportsFacts
                <5>2. i \in DOMAIN news'
                    BY <5>1
                <5> QED
                    BY <2>3, <3>2, <5>1, <5>2
            <4> QED
                BY <1>1, <4>1, <4>2 DEF Changed
        <3> QED
            BY <1>b, <2>1, <3>1, <3>2 DEF Excused
    <2> QED
        BY <2>2, <2>3
<1>2. CASE Told
    <2>1. UNCHANGED <<pbx, map, status, outrun, lost, crashed>> /\ n \in Shown
        BY <1>2 DEF Told, Shown, widgets
    <2>2. PICK m \in Msg : news' = Append(news, m)
        BY <1>2 DEF Told
    <2>3. \A i \in DOMAIN news : i \in DOMAIN news' /\ news'[i] = news[i]
        BY <1>0, <2>2, QueueAppend
    <2> QED
        BY <1>b, <2>1, <2>3 DEF Excused
<1>3. CASE LoseReport
    <2>1. PICK i \in DOMAIN news : /\ news' = RemoveAt(news, i)
                                   /\ lost' = lost \cup (DOMAIN news[i].says \ news[i].aged)
        BY <1>3 DEF LoseReport
    <2>2. UNCHANGED <<pbx, map, status, outrun, crashed>> /\ n \in Shown
        BY <1>3 DEF LoseReport, Shown, widgets
    <2>3. \A j \in DOMAIN news : j = i \/ \E k \in DOMAIN news' : news'[k] = news[j]
        BY <2>1, Gone
    <2>4. Excused(n) => Excused(n)'
        BY <2>1, <2>2, <2>3 DEF Excused
    <2> QED
        BY <1>b, <2>2, <2>4
<1>4. ASSUME NEW i \in DOMAIN news, Take(i), n \notin DOMAIN news[i].says
      PROVE  Excused(n) => Excused(n)'
    <2>1. /\ news' = RemoveAt(news, i) /\ (n \in outrun => n \in outrun') /\ (n \in lost => n \in lost')
        BY <1>4 DEF Take
    <2>2. \A j \in DOMAIN news : j = i \/ \E k \in DOMAIN news' : news'[k] = news[j]
        BY <2>1, Gone
    <2> QED
        BY <1>4, <2>1, <2>2 DEF Excused
<1>5. ASSUME NEW i \in DOMAIN news, Take(i), n \in DOMAIN news[i].says,
             status'[map'[n]] = news[i].says[n]
      PROVE  Goal(n)
    <2>1. pbx' = pbx /\ (n \in news[i].aged => n \in outrun')
        BY <1>5 DEF Take
    <2>2. news[i].says[n] = pbx[n] \/ n \in news[i].aged
        BY <1>5, <2>1 DEF NewsAreTrue
    <2> QED
        BY <1>5, <2>1, <2>2 DEF Excused
<1>6. CASE RecvReport
    <2>1. PICK i \in DOMAIN news, e \in Ext :
              /\ Take(i) /\ DOMAIN news[i].says = {e} /\ e \in Name
              /\ map' = Looked(e)
              /\ status' = IF map'[e] = Null THEN status
                           ELSE [status EXCEPT ![map'[e]] = news[i].says[e]]
              /\ UNCHANGED <<made, crashed>>
        BY <1>6, ReportCases
    <2>2. /\ n \in Shown /\ map'[n] = map[n] /\ map[n] # Null
          /\ \A x \in Shown : map'[x] = map[x] /\ map[x] \in DOMAIN status
        <3>1. Shown' = Shown /\ \A x \in Shown : map'[x] = map[x]
            BY <2>1, LookedFacts
        <3> QED
            BY <3>1 DEF Shown, TypeOK, Alive
    <2>3. pbx' = pbx
        BY <2>1 DEF Take
    <2>4. CASE n = e
        <3>1. status'[map'[n]] = news[i].says[n]
            BY <2>1, <2>2, <2>4
        <3> QED
            BY <1>5, <2>1, <2>4, <3>1
    <2>5. CASE n # e
        <3>1. status'[map[n]] = status[map[n]]
            <4>1. CASE map'[e] = Null
                BY <2>1, <4>1
            <4>2. CASE map'[e] # Null
                <5>1. e \in Shown
                    BY <2>1, <4>2 DEF Looked, Shown, Null
                <5>2. map'[e] = map[e] /\ map[e] # map[n]
                    BY <2>2, <2>5, <5>1 DEF OneEach
                <5> QED
                    BY <2>1, <2>2, <4>2, <5>2
            <4> QED
                BY <4>1, <4>2
        <3> QED
            BY <1>4, <1>b, <2>1, <2>2, <2>3, <2>5, <3>1
    <2> QED
        BY <2>4, <2>5
<1>7. CASE RecvList
    <2>1. PICK i \in DOMAIN news :
              /\ Take(i) /\ news[i].says \in Maps
              /\ \/ Rebuild(news[i].says)
                 \/ Update(news[i].says) /\ UNCHANGED crashed
                 \/ UNCHANGED widgets /\ DOMAIN news[i].says = {} /\ crashed' = crashed
        BY <1>7, ListCases
    <2> DEFINE l == news[i].says
    <2> HIDE DEF l
    <2>2. l \in Maps /\ pbx' = pbx
        BY <2>1 DEF l, Take
    <2>3. CASE Rebuild(l)
        <3>1. n \in DOMAIN l /\ status'[map'[n]] = l[n]
            BY <2>2, <2>3, RebuildFacts
        <3> QED
            BY <1>5, <2>1, <3>1 DEF l
    <2>4. CASE Update(l) /\ UNCHANGED crashed
        <3>1. /\ map' = map /\ n \in Shown
              /\ \A x \in Shown \cap DOMAIN l : status'[map[x]] = l[x]
              /\ \A x \in Shown \ DOMAIN l : status'[map[x]] = status[map[x]]
            BY <2>2, <2>4, UpdateFacts
        <3>2. CASE n \in DOMAIN l
            <4>1. status'[map'[n]] = l[n]
                BY <3>1, <3>2
            <4> QED
                BY <1>5, <2>1, <3>2, <4>1 DEF l
        <3>3. CASE n \notin DOMAIN l
            <4>1. status'[map'[n]] = status[map[n]]
                BY <3>1, <3>3
            <4>2. Excused(n) => Excused(n)'
                BY <1>4, <2>1, <3>3 DEF l
            <4> QED
                BY <1>b, <2>2, <2>4, <3>1, <4>1, <4>2
        <3> QED
            BY <3>2, <3>3
    <2>5. CASE UNCHANGED widgets /\ DOMAIN l = {} /\ crashed' = crashed
        <3>1. n \in Shown /\ status'[map'[n]] = status[map[n]]
            BY <2>5 DEF widgets, Shown
        <3>2. Excused(n) => Excused(n)'
            BY <1>4, <2>1, <2>5 DEF l
        <3> QED
            BY <1>b, <2>2, <2>5, <3>1, <3>2
    <2> QED
        BY <2>1, <2>3, <2>4, <2>5 DEF l
<1>8. CASE UNCHANGED <<outside, crashed>> /\ (PromptVideo \/ Toggle \/ LoopStep \/ UNCHANGED vars)
    <2>1. UNCHANGED <<pbx, news, outrun, lost, crashed, status>>
        BY <1>8 DEF outside, widgets, PromptVideo, Toggle, LoopStep, AddRow, AddEnds, RemoveRow,
                    UpdateEnds, vars
    <2>2. n \in Shown /\ map'[n] = map[n]
        <3>1. CASE PromptVideo
            <4>1. PICK x \in Name : map' = Looked(x) /\ made' = made
                BY <3>1 DEF PromptVideo
            <4> QED
                BY <4>1, LookedFacts
        <3>2. CASE Toggle \/ LoopStep \/ UNCHANGED vars
            <4>1. map' = map
                BY <3>2 DEF widgets, Toggle, LoopStep, AddRow, AddEnds, RemoveRow, UpdateEnds, vars
            <4> QED
                BY <4>1 DEF Shown
        <3> QED
            BY <1>8, <3>1, <3>2
    <2>3. Excused(n)' <=> Excused(n)
        BY <2>1 DEF Excused
    <2> QED
        BY <1>b, <2>1, <2>2, <2>3
<1>9. CASE UseAll
    BY <1>9 DEF UseAll
<1> QED
    BY <1>1, <1>2, <1>3, <1>6, <1>7, <1>8, <1>9, NewsSteps

-----------------------------------------------------------------------------
(* The invariant and what follows from it *)

LEMMA InvInit == Init => IInv
<1> SUFFICES ASSUME Init PROVE IInv
    OBVIOUS
<1>1. TypeOK /\ NewsOK
    BY TypeInit, NewsOKInit
<1>2. DOMAIN map = {} /\ DOMAIN news = {} /\ DOMAIN rows = {} /\ DOMAIN idList = {}
    <2>1. \A S : <<>> \in Seq(S) => DOMAIN <<>> = 1..Len(<<>>)
        OBVIOUS
    <2> QED
        BY <2>1 DEF Init
<1>3. Shown = {} /\ RowIds = {}
    BY <1>2 DEF Shown, RowIds
<1>4. RowsAreRight /\ ChecksAreRight
    BY <1>2, <1>3 DEF Init, RowsAreRight, ChecksAreRight, Want, IsInjective
<1> QED
    BY <1>1, <1>2, <1>3, <1>4 DEF IInv, OneEach, NewsAreTrue, CenterIsLinked, NewsIsShown

LEMMA InvStep == IInv /\ [Next]_vars => IInv'
<1> SUFFICES ASSUME IInv, [Next]_vars PROVE IInv'
    OBVIOUS
<1>1. /\ TypeOK /\ NewsOK /\ OneEach /\ NewsAreTrue /\ NewsIsShown /\ CenterIsLinked
      /\ RowsAreRight /\ ChecksAreRight
    BY DEF IInv
<1>2. TreeOK /\ IsInjective(idList)
    BY <1>1 DEF TypeOK, TreeOK, Row, RowsAreRight
<1>3. TypeOK' /\ NewsOK' /\ OneEach'
    BY <1>1, <1>2, TypeStep, NewsOKStep, OneStep
<1>4. NewsAreTrue' /\ NewsIsShown' /\ CenterIsLinked'
    BY <1>1, TrueStep, NewsStep, CenterStep
<1>5. RowsAreRight' /\ ChecksAreRight'
    BY <1>1, <1>2, RowsStep, ChecksStep
<1> QED
    BY <1>3, <1>4, <1>5 DEF IInv

\* Every reachable state satisfies the inductive invariant.
THEOREM InvCorrect == Spec => []IInv
<1> QED
    BY InvInit, InvStep, PTL DEF Spec

\* Every variable keeps its type, and nothing of a deleted widget is left.
THEOREM TypeCorrect == Spec => []TypeOK
<1>1. IInv => TypeOK
    BY DEF IInv
<1> QED
    BY InvCorrect, <1>1, PTL

\* Every station is connected to the widget of the center there is now
\* (ControlWindow::AddSingleWidget).
THEOREM CenterStaysLinked == Spec => []CenterIsLinked
<1>1. IInv => CenterIsLinked
    BY DEF IInv
<1> QED
    BY InvCorrect, <1>1, PTL

\* When the loops of slotRecvExtensionList are through, the tree has one row for each
\* broadcast station that has a widget, and no other.
THEOREM TreeIsRight == Spec => []TreeShowsTheStations
<1>1. IInv => TreeShowsTheStations
    BY DEF IInv, RowsAreRight, TreeShowsTheStations, Want
<1> QED
    BY InvCorrect, <1>1, PTL

\* What a station shows is wrong only while a message of the change is on its way,
\* or after its report was lost or an older message taken behind it.
THEOREM NewsArrives == Spec => []NewsIsShown
<1>1. IInv => NewsIsShown
    BY DEF IInv
<1> QED
    BY InvCorrect, <1>1, PTL

\* However many lists come, the loops leave each row checked as the operator chose.
THEOREM ChoicesSurvive == Spec => []ChoiceSurvives
<1>1. IInv => ChoiceSurvives
    <2> SUFFICES ASSUME IInv, step = "idle", NEW k \in DOMAIN rows
                 PROVE  rows[k].checked <=> rows[k].id \notin unchecked
        BY DEF ChoiceSurvives
    <2>1. RowIds = Want /\ rows[k].id \in RowIds
        BY DEF IInv, RowsAreRight, RowIds
    <2> QED
        BY <2>1 DEF IInv, ChecksAreRight
<1> QED
    BY InvCorrect, <1>1, PTL

=============================================================================
