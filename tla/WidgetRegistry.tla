--------------------------- MODULE WidgetRegistry ---------------------------
(***************************************************************************)
(* How ControlWindow keeps one ControlWidget per extension of the PBX: the *)
(* map from numbers to widgets, its connections to the center and to the   *)
(* group widget, and the tree of stations a broadcast goes to.  Lists of   *)
(* the extensions, reports of their status and answers about one of them   *)
(* reach the window by different connections, so they may overtake each    *)
(* other, and a report may be lost.                                        *)
(***************************************************************************)
EXTENDS Integers, FiniteSets, SequencesExt

CONSTANTS
    Ext,          \* numbers of the extensions
    Center,       \* the number of the command center in config.ini
    Broadcaster,  \* the extensions configured as broadcast stations
    AtStart,      \* the extensions the PBX may know at the start
    Name,         \* names a task may have for its stations
    MaxChanges,   \* bound: changes of the extensions
    MaxQueries,   \* bound: lists and states asked for
    MaxNews       \* bound: messages on their way

ASSUME BoundAssumption ==
    /\ IsFiniteSet(Ext) /\ Center \in Ext /\ Broadcaster \subseteq Ext \ {Center} /\ Ext \subseteq Name
    /\ AtStart \subseteq SUBSET Ext
    /\ MaxChanges \in Nat /\ MaxQueries \in Nat /\ MaxNews \in Nat

Status == {"Registered", "Busy"}
Null   == 0       \* nullptr

VARIABLES
    pbx,         \* the extensions of the PBX and their status
    news,        \* the lists, reports and answers on their way to the window
    map,         \* singleControlMap: the widget of a number, or Null
    status,      \* the status each widget shows
    made,        \* widgets made so far
    hasGroup,    \* groupControlWidget is there
    grouped,     \* the widgets connected to it
    links,       \* <<w, c>>: the TX signals of widget w are connected to widget c
    rows,        \* m_pExtensionModel: the stations of the tree and their checks
    step,        \* slotRecvExtensionList is in its loop that adds or removes rows
    keys,        \* what that loop has to add
    idList,      \* idList: the rows found before, less those that stay
    row,         \* i of the loop that removes
    crashed,     \* a null pointer was used
    unchecked,   \* history: the stations the operator has unchecked
    outrun,      \* history: extensions whose last news in the window was too old
    lost,        \* history: extensions whose last report was lost
    changes, queries

outside   == <<pbx, news, outrun, lost, changes, queries>>
widgets   == <<map, status, made, hasGroup, grouped, links>>
tree      == <<rows, unchecked>>
loop      == <<step, keys, idList, row>>
vars      == <<outside, widgets, tree, loop, crashed>>

\* A message tells the status of extensions, all of them or one.
Message(isList, says) == [isList |-> isList, says |-> says, aged |-> {}]

Init ==
    /\ \E known \in AtStart : pbx = [e \in known |-> "Registered"]
    /\ news = <<>> /\ outrun = {} /\ lost = {} /\ changes = 0 /\ queries = 0
    /\ map = <<>> /\ status = <<>> /\ made = 0
    /\ hasGroup = FALSE /\ grouped = {} /\ links = {}
    /\ rows = <<>> /\ unchecked = {}
    /\ step = "idle" /\ keys = {} /\ idList = <<>> /\ row = 1
    /\ crashed = FALSE

Shown  == {n \in DOMAIN map : map[n] # Null}
Holes  == DOMAIN map \ Shown

-----------------------------------------------------------------------------
(* The PBX *)

\* Every message on its way is older than this report; aged is a history of it.
Reports(e, s) ==
    news' = Append([i \in DOMAIN news |-> [news[i] EXCEPT !.aged = @ \cup {e}]],
                   Message(FALSE, [x \in {e} |-> s]))

\* An extension registers for the first time,
PbxAdds ==
    /\ changes < MaxChanges /\ Len(news) < MaxNews
    /\ \E e \in Ext \ DOMAIN pbx :
          /\ pbx' = [x \in DOMAIN pbx \cup {e} |-> IF x = e THEN "Registered" ELSE pbx[x]]
          /\ Reports(e, "Registered")
    /\ changes' = changes + 1
    /\ UNCHANGED <<outrun, lost, queries, widgets, tree, loop, crashed>>

\* is deleted,
PbxRemoves ==
    /\ changes < MaxChanges
    /\ \E e \in DOMAIN pbx : pbx' = [x \in DOMAIN pbx \ {e} |-> pbx[x]]
    /\ changes' = changes + 1
    /\ UNCHANGED <<news, outrun, lost, queries, widgets, tree, loop, crashed>>

\* or starts or ends a call.
PbxStatus ==
    /\ changes < MaxChanges /\ Len(news) < MaxNews
    /\ \E e \in DOMAIN pbx : \E s \in Status \ {pbx[e]} :
          /\ pbx' = [pbx EXCEPT ![e] = s]
          /\ Reports(e, s)
    /\ changes' = changes + 1
    /\ UNCHANGED <<outrun, lost, queries, widgets, tree, loop, crashed>>

Answer(isList, says) ==
    /\ queries < MaxQueries /\ queries' = queries + 1
    /\ Len(news) < MaxNews /\ news' = Append(news, Message(isList, says))
    /\ UNCHANGED <<pbx, outrun, lost, changes, widgets, tree, loop, crashed>>

\* It answers signalQueryExtension (CreatView, Refresh, after a silent login),
AnswersList == Answer(TRUE, pbx)

\* and slotQueryExtensionStatus, which a play thread asks of its widget's number.
AnswersOne == \E e \in Shown \cap DOMAIN pbx : Answer(FALSE, [x \in {e} |-> pbx[e]])

\* slotRecvReportData looks at the last line of what it has read: a report before
\* it, or one that was cut in two, is lost.
LoseReport ==
    /\ \E i \in DOMAIN news :
          /\ ~news[i].isList
          /\ news' = RemoveAt(news, i)
          /\ lost' = lost \cup (DOMAIN news[i].says \ news[i].aged)
    /\ UNCHANGED <<pbx, outrun, changes, queries, widgets, tree, loop, crashed>>

-----------------------------------------------------------------------------
(* The window *)

\* singleControlMap[n] puts a null pointer under a number that is not there.
Looked(n) == [x \in DOMAIN map \cup {n} |-> IF x \in DOMAIN map THEN map[x] ELSE Null]

\* The message i reaches the window, in whatever order.
Take(i) ==
    LET m == news[i] IN
    /\ news' = RemoveAt(news, i)
    /\ outrun' = (outrun \ DOMAIN m.says) \cup (m.aged \cap DOMAIN m.says)
    /\ lost' = lost \ DOMAIN m.says
    /\ UNCHANGED <<pbx, changes, queries>>

WindowIsFree == ~crashed /\ step = "idle"

\* slot_extension_status_changed
RecvReport ==
    /\ WindowIsFree
    /\ \E i \in DOMAIN news :
          /\ ~news[i].isList /\ Take(i)
          /\ \E e \in DOMAIN news[i].says :
                /\ map' = Looked(e)
                /\ status' = IF map'[e] = Null THEN status
                             ELSE [status EXCEPT ![map'[e]] = news[i].says[e]]
    /\ UNCHANGED <<made, hasGroup, grouped, links, tree, loop, crashed>>

\* PromptVideo, for a name a task has for its stations.
PromptVideo ==
    /\ WindowIsFree /\ map # <<>>
    /\ \E n \in Name : map' = Looked(n)
    /\ UNCHANGED <<outside, status, made, hasGroup, grouped, links, tree, loop, crashed>>

\* Mutant of LinksOf: as for the group widget, only the first time.
LinksOnce(m) ==
    IF hasGroup \/ Center \notin DOMAIN m THEN {}
    ELSE {<<m[n], m[Center]>> : n \in DOMAIN m \ {Center}}

\* The TX signals of all other widgets are connected to the one of the center.
LinksOf(m) ==
    IF Center \in DOMAIN m THEN {<<m[n], m[Center]>> : n \in DOMAIN m \ {Center}} ELSE {}

\* A new widget for every number.
NewWidgets(numbers) ==
    CHOOSE m \in [numbers -> (made + 1)..(made + Cardinality(numbers))] :
        \A x, y \in numbers : m[x] = m[y] => x = y

\* DeleteWidget and AddSingleWidget: every widget is new, so every connection of
\* an old one is gone; AddGroupWidget connects the widgets when it is made.
Rebuild(l) ==
    /\ LET m == NewWidgets(DOMAIN l) IN
          /\ map' = m
          /\ status' = [w \in {m[n] : n \in DOMAIN l} |-> l[CHOOSE n \in DOMAIN l : m[n] = w]]
          /\ grouped' = IF hasGroup THEN {} ELSE {m[n] : n \in DOMAIN l}
          /\ links' = LinksOf(m)
    /\ made' = made + Cardinality(DOMAIN l)
    /\ hasGroup' = TRUE

\* Mutant of Update: the widgets are not touched.
UpdateNothing(l) ==
    /\ Holes \cap DOMAIN l = {}
    /\ UNCHANGED widgets

\* UpdateStatus: a number that is in the map must have a widget.
Update(l) ==
    /\ Holes \cap DOMAIN l = {}
    /\ status' = [w \in DOMAIN status |->
                     IF \E n \in DOMAIN l \cap Shown : map[n] = w
                     THEN l[CHOOSE n \in DOMAIN l : n \in Shown /\ map[n] = w] ELSE status[w]]
    /\ UNCHANGED <<map, made, hasGroup, grouped, links>>

\* Mutant of Stations: all widgets.
AllWidgets == {n \in DOMAIN map' : map'[n] # Null}

\* The broadcast stations that have a widget.
Stations == {n \in DOMAIN map' : map'[n] # Null} \cap Broadcaster

\* Mutant of UpdateTree: every row is made again.
UpdateTreeAgain ==
    /\ unchecked' = unchecked \cap Stations
    /\ rows' = <<>> /\ row' = row
    /\ \/ Stations = {} /\ UNCHANGED <<step, keys, idList>>
       \/ Stations # {} /\ step' = "add" /\ keys' = Stations /\ idList' = <<>>

\* The tree is brought up to date: emptied, or by the two loops below.  (The choice
\* of the operator ends where the station leaves the window.)
UpdateTree ==
    /\ unchecked' = unchecked \cap Stations /\ row' = row
    /\ \/ Stations = {} /\ rows' = <<>> /\ UNCHANGED <<step, keys, idList>>
       \/ /\ Stations # {} /\ step' = "add" /\ keys' = Stations
          /\ idList' = [i \in DOMAIN rows |-> rows[i].id] /\ rows' = rows

\* slotRecvExtensionList.  An empty list is a failed query.
RecvList ==
    /\ WindowIsFree
    /\ \E i \in DOMAIN news :
          /\ news[i].isList /\ Take(i)
          /\ LET l == news[i].says IN
             \/ DOMAIN l = {} /\ UNCHANGED <<widgets, tree, loop, crashed>>
             \/ /\ DOMAIN l # {} /\ Cardinality(DOMAIN map) # Cardinality(DOMAIN l)
                /\ Rebuild(l) /\ UpdateTree /\ UNCHANGED crashed
             \/ /\ DOMAIN l # {} /\ Cardinality(DOMAIN map) = Cardinality(DOMAIN l)
                /\ Update(l) /\ UpdateTree /\ UNCHANGED crashed
             \/ /\ DOMAIN l # {} /\ Cardinality(DOMAIN map) = Cardinality(DOMAIN l)
                /\ Holes \cap DOMAIN l # {}
                /\ crashed' = TRUE /\ UNCHANGED <<widgets, tree, loop>>

\* Its loop over the stations: one that has a row is taken off idList, another one
\* gets a row, checked.
AddRow ==
    /\ step = "add"
    /\ \E id \in keys :
          /\ keys' = keys \ {id}
          /\ \/ /\ id \in Range(idList)
                /\ idList' = RemoveFirst(idList, id) /\ rows' = rows
             \/ /\ id \notin Range(idList)
                /\ rows' = Append(rows, [id |-> id, checked |-> TRUE]) /\ idList' = idList
    /\ UNCHANGED <<outside, widgets, unchecked, step, row, crashed>>

AddEnds ==
    /\ step = "add" /\ keys = {}
    /\ step' = "remove" /\ row' = 1
    /\ UNCHANGED <<outside, widgets, tree, keys, idList, crashed>>

\* Mutant of RemoveRow: the row after one that is removed is passed over.
RemoveRowSkipping ==
    /\ step = "remove" /\ row \in DOMAIN rows /\ row' = row + 1
    /\ rows' = IF rows[row].id \in Range(idList) THEN RemoveAt(rows, row) ELSE rows
    /\ UNCHANGED <<outside, widgets, unchecked, step, keys, idList, crashed>>

\* Its loop over the rows: one that is left in idList is removed, and the next one
\* then has its index.
RemoveRow ==
    /\ step = "remove" /\ row \in DOMAIN rows
    /\ \/ rows[row].id \in Range(idList) /\ rows' = RemoveAt(rows, row) /\ row' = row
       \/ rows[row].id \notin Range(idList) /\ rows' = rows /\ row' = row + 1
    /\ UNCHANGED <<outside, widgets, unchecked, step, keys, idList, crashed>>

UpdateEnds ==
    /\ step = "remove" /\ row \notin DOMAIN rows
    /\ step' = "idle" /\ idList' = <<>> /\ row' = 1
    /\ UNCHANGED <<outside, widgets, tree, keys, crashed>>

\* slotOpenStation, slotCloseStation, closeEvent and slotOpenTest go through
\* all entries of the map.
UseAll ==
    /\ WindowIsFree /\ Holes # {}
    /\ crashed' = TRUE
    /\ UNCHANGED <<outside, widgets, tree, loop>>

\* The operator checks or unchecks a station.
Toggle ==
    /\ WindowIsFree
    /\ \E k \in DOMAIN rows :
          /\ rows' = [rows EXCEPT ![k].checked = ~@]
          /\ unchecked' = IF rows[k].checked THEN unchecked \cup {rows[k].id}
                          ELSE unchecked \ {rows[k].id}
    /\ UNCHANGED <<outside, widgets, loop, crashed>>

-----------------------------------------------------------------------------
PbxStep    == PbxAdds \/ PbxRemoves \/ PbxStatus \/ AnswersList \/ AnswersOne \/ LoseReport
LoopStep   == AddRow \/ AddEnds \/ RemoveRow \/ UpdateEnds
WindowStep == RecvReport \/ PromptVideo \/ RecvList \/ UseAll \/ Toggle

Next == PbxStep \/ LoopStep \/ WindowStep

Spec == Init /\ [][Next]_vars

-----------------------------------------------------------------------------
(* Properties *)

Alive == {map[n] : n \in Shown}

\* Every variable holds a value of its type, and no status and no connection of
\* a deleted widget is left.
TypeOK ==
    /\ DOMAIN pbx \subseteq Ext /\ \A e \in DOMAIN pbx : pbx[e] \in Status
    /\ DOMAIN map \subseteq Name /\ \A n \in DOMAIN map : map[n] \in 0..made
    /\ DOMAIN status = Alive /\ \A w \in Alive : status[w] \in Status
    /\ Cardinality(Alive) = Cardinality(Shown)
    /\ grouped \subseteq Alive /\ links \subseteq Alive \X Alive
    /\ rows \in Seq([id : Broadcaster, checked : BOOLEAN]) /\ unchecked \subseteq Broadcaster
    /\ step \in {"idle", "add", "remove"} /\ keys \subseteq Broadcaster
    /\ idList \in Seq(Broadcaster) /\ row \in Nat \ {0}
    /\ crashed \in BOOLEAN /\ hasGroup \in BOOLEAN

\* However often the widgets are made again, every station but the center is
\* connected to the widget of the center that is there now: who holds TX on a
\* station locks the center.
CenterIsLinked ==
    Center \in Shown => \A n \in Shown \ {Center} : <<map[n], map[Center]>> \in links

RowIds == {rows[k].id : k \in DOMAIN rows}

\* A broadcast can be sent exactly to the broadcast stations on the screen, each of
\* them once: whenever slotRecvExtensionList is done, its loops have left no row of
\* a station that is gone and made no row twice.
TreeShowsTheStations ==
    step = "idle" =>
        /\ RowIds = Shown \cap Broadcaster
        /\ \A j, k \in DOMAIN rows : rows[j].id = rows[k].id => j = k

\* A station stays unchecked, through lists, changes and rebuilt widgets, until it
\* leaves the window or the operator checks it; and a new one is checked.
ChoiceSurvives ==
    step = "idle" => \A k \in DOMAIN rows : rows[k].checked <=> rows[k].id \notin unchecked

\* What a station shows is what the PBX last said of it, or a message of the change
\* is on its way, or the report was thrown away with others of the same read
\* (networker.cpp:200), or a list, an answer or a report made before the change was
\* taken after it (controlwindow.cpp:288).  Nothing else makes the window wrong: no
\* rebuilt widget, no number that was looked up before it had one, no list that is
\* skipped.
NewsIsShown ==
    crashed \/ \A n \in Shown \cap DOMAIN pbx :
        \/ status[map[n]] = pbx[n]
        \/ n \in lost \cup outrun
        \/ \E i \in DOMAIN news : n \in DOMAIN news[i].says \ news[i].aged

\* The group button puts all stations on air: they are connected to it.
GroupReachesAll == hasGroup => Alive \subseteq grouped
=============================================================================
