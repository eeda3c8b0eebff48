# The VHF client in TLA+

This directory holds models of the VHF client (`src/trunk/VHF`) and of its
loader (`src/trunk/VHF_LOADER`), the TLC configurations that check them on
small instances, and machine-checked proofs of their safety properties for every
value of the constants. All paths below are relative to `src/trunk/VHF` unless they say otherwise.

The client runs in the control room of a coast radio service. Every coast
station has a phone on a Yeastar PBX and a relay that keys its VHF transmitter.
The operator talks through the stations (TX buttons, a hand microphone), joins
the phones to a meeting, and broadcasts announcements: texts turned to speech,
played at once or by a plan.

## 1. Inventory

| Part | State it keeps | Operations | Interacts by |
|---|---|---|---|
| `zchxBroadcastTaskMgr` (own thread, 10 s timer) | none between slots | take a setting, check what is due | queued signals to `DBServices`, its task list under a mutex, a signal with the jobs |
| `DBServices`, `DBDataBase` (own thread) | `mTasklist`, the table `broadcast_task` | create, insert in a transaction, delete, query | a queue of signals; the list to the window |
| `ControlWindow` (GUI thread) | `singleControlMap`, group widget, tree of stations, task table | lists and reports from the PBX, jobs, mic commands, deletion of tasks | everything |
| `ControlWidget` (one per extension) | `mIsTxPressed`, `mAudioPlayThread`, its relay and extension | TX, RX, play, mic open and close | `RelayController`, `Extension`, the center's widget |
| `zchxVHFAudioPlayThread` (one per play) | locals of `run` | hang up, open relay, prompt, wait for the end, close relay | polls `Extension` and `RelayController`, signals `NetWorker` |
| `RelayController`, `TcpSocket` (own thread) | `mStatus`, the connection | commands, 5 s heartbeat, reconnection | TCP to the relay |
| `CenterControlThread` | `mIsOpend`, `mInitOpendTime` | polls the hand microphone | a queued signal to the center's widget |
| `Extension` | `status_int`, `preStatus` | dial, hang up, automatic entry to the meeting | signals to `NetWorker` |
| `NetWorker` (own thread) | `mIsOK`, token, failure count | login, heartbeat, synchronous and asynchronous requests, reports | HTTP and UDP to the PBX |
| `LoginDialog`, `main` | - | login until accepted or rejected | signals to `NetWorker` |
| `WatchDogThread`, `VHFMonitorThread` (a program of its own) | `watchdog.txt` | write every 10 s; look every 30 s, start or kill | the file, the list of processes |
| `zchxVhfConvertThread`, `ComTextAudioThread`, `QUploadFileThread`, `YeastarNetWork` | the `.wav` directory, `m_listFile`, the web session | speak, upload, repeat after a new login, clean up | queued signals; HTTP |
| `JavaSubInfoThread` | none | texts from a ZeroMQ publisher | a signal to the window |

Not modelled: `IniFile` (a setting that matters is a CONSTANT), `Volume`,
`RxButton` and the `.ui` files (drawing), `TcpServer` (never instantiated),
`zchxDataAsyncWorker` (`#if 0`), `centercontrolthread - 副本.*` (a backup that is
not built), the log and style code of `main.cpp`, the loader's tray window, and
the vendored ZeroMQ.

What is hard here is that almost every fact has several copies owned by
different threads: a task is a row, an element of `mTasklist`, of the manager's
local list and of a table on the screen; a phone's state is the PBX's, a report
on its way, and `status_int`; a relay's state is the contact, `mStatus`, and
what each of five users believes. `PROJECT.json` lists the hazards at their
lines, with the properties that would see them go wrong.

## 2. Modules

| Module | Models | Composes |
|---|---|---|
| `BroadcastTasks` (`MCBroadcastTasks`) | planned broadcasts: manager, database thread, table, window | three threads and the end of the process |
| `TaskStore` | what the planned-broadcast store promises, as one atomic step per request | abstract; `BroadcastTasks` implements it |
| `AudioPlay` | one station that plays a file | widget, play thread, relay thread and link, extension, PBX |
| `Keying` (`MCKeying`) | who keys the relays of all stations | mic thread, TX and close buttons, plays, sockets, widgets that come and go, exit and restart |
| `Session` | the session with the PBX, the watchdog and the loader | `NetWorker`, dialog, window, loader |
| `Announcements` | from a text to a task | convert thread, voices, upload thread, server |
| `WidgetRegistry` (`MCWidgetRegistry`) | the widgets of the main window | PBX lists, PBX reports, window |

| Proofs | About |
|---|---|
| `BroadcastTasks_proofs`, `TaskStore_proofs` | `BroadcastTasks`; the second one extends the first by the refinement of `TaskStore` and the two properties of whole plans and dropped tasks |
| `AudioPlay_proofs`, `Keying_proofs`, `Session_proofs`, `Announcements_proofs`, `WidgetRegistry_proofs` | the module of that name |
| `QueueLemmas` | sequences used as queues; used by `AudioPlay_proofs`, `Announcements_proofs` and `WidgetRegistry_proofs` |

A queued Qt signal is an element of a sequence that its receiver takes; a slot
is one action, cut in two wherever another thread can act in between: at a
lock, at a nested event loop, at a poll, at a `QMessageBox`. The comments in
each module name the slots.

**BroadcastTasks.** `rows` and `lastId` are the SQLite file and survive `Crash`.
The slots of the database thread are `DbInit`, `DbBeginInsert` / `DbInsertRow` /
`DbInsertFails` / `DbCommit` (the transaction of `updateBroadTaskList`),
`DbRemove`, `DbQuery`; each of them but the first goes on with `DbRefresh`, the
query that the code calls in the same slot. The check of the manager
is `CheckTake` (copy under the mutex), one `CheckNext` per task that is due,
`CheckEnd` (emit). The window asks about a deletion in `GuiAskDelete` and goes
on in `GuiAnswer`, since the list may be refilled under the open question.
The offset of a task is an `int` product whose overflow is undefined, so
`TasksOf` has both outcomes: 64 bits wide or wrapped at `2 * Half`. A name of a
station is the set of numbers in its text, which is enough to tell "a,b" from
"a" and "b". A setting of the kind Task_Immediately is sent to the window at
once and never stored, so it is outside this module. The failures are those of a
statement: creating the table, an insert or the commit (whose result
`vhfdbdatabase.cpp:269` ignores; SQLite has then rolled back, and the slot goes on as
after a success), a delete, a query. Not among them are a `BEGIN` that fails
(`:255`; the rows would then be stored one by one), a commit that finds the file
locked by another program and stays open, and a database that cannot be opened at
all (the slots then return at once). A history variable (`since`, `played`,
`excused`) is read by properties only.

**TaskStore** is the same store without threads, queues, copies and
transactions: `Submit` hands in a plan, `Store` puts all its tasks into the table
in one step, under the next numbers and at the planned times, `Remove` takes one
task that is due or was asked for, `GiveUp` forgets requests. The refinement
mapping (the end of `BroadcastTasks`) reads the plans that wait off the queue
and the open transaction, and the removals asked for off the queue. A plan whose
insertion fails half-way, a setting that is handled twice, a removal that reaches
another row, or an offset of the wrong task would be a step `TaskStore` does not
have. Offsets of `Half` and more are free in it, since the client has no `int`
for them.

**AudioPlay.** `phone` is the truth, `reports` what is on its way, `status` what
the client believes. `requests` is a set, because each HTTP request has a
connection of its own and may be overtaken. `cmds` are the commands queued for
the thread that owns the socket; one that meets a lost connection is dropped
(`SendData`). Somebody may call the station (`IncomingCall`) and be answered
(`CallAnswered`): the phone is then busy, and the end of that call looks like the
end of the file (`CountsAsEnd`). `isAutoEnter` is the box of the extension, with
either value. A click on RX dials or hangs up by the state of the button, which may
differ from that of the phone, so `RxClicked` does either. The three loops of `run` are `WaitOn`, `Poll` and `WaitOff`;
`Timeout` polls stand for the 30 s of the code (its comment at
`zchxvhfaudioplaythread.cpp:48` says 60 s).

**Keying.** `last` is the last command each relay was sent, by whom, and whether
the client was up or closing; `relay` is the contact, which changes only by a
command that meets a connection (`Send`, with `linked` the connected relays).
`missed` remembers relays that should have been closed and were not, among them
those that a queued opening reaches after the thread has forgotten the microphone,
with no close queued behind it (`CloseQueued`). `signals`
are the queued `signalRecvCmd` of `CenterControlThread::run`; one poll of the
microphone is `PollOn`, `PollOff` or `PollGarbled`. `held` is the button the
mouse holds, `pressed` the widgets whose `mIsTxPressed` is set by it: `Reached`
follows the signals from the group widget to the stations (`wired`: not after the
widgets were made again) and from a station to the center. `RecvClose` closes
nothing while the center is in use, and spares widgets in use otherwise (`Idle`).
A button that is disabled while it is down (`TxDisabled`, `LinkDown`) may or may
not report its release, depending on the version of Qt; both are steps, and
`disabled` keeps the group button from a disabled button. `Rebuild`
deletes every widget, `Die` ends the client anywhere, `ConfirmExit` and
`ExitEnds` are `closeEvent` around its five-second box, and `Start` is the next
client, which finds the contacts as they were left. Of a play only the commands
are here, and whether its thread ever gets past its first loop, which waits for an
idle phone without a limit (`PlayStarves`: the play that will not).

**Session.** Ticks of 10 s. `calls` is the stack of synchronous requests that
wait: `sendSyncRequest` runs a nested event loop, in which another heartbeat, a
silent login, or a second click on OK starts a request of its own. A wait is told
to quit by its reply, an error, its timer, or the reply to any other request
(`AllQuit`), because `finished` is the signal of the shared manager; it returns
(`Return`) when it is the innermost. That a loop told to quit returns before
another slot is started (`Listens`) is the one abstraction of the nesting: Qt
finishes the events of the current round first. `results` are the outcomes queued
for the dialog, which may arrive after it was accepted (`Retry`, `LateResult`). The
loader's look at the file and its kill (`vhfmonitorthread.cpp:101` and `:104`) are one
step, `LoaderKills`: a file written between the two does not save the program, in the
code.

**Announcements.** The file of a text is named by the second (`sec`), so a
second text in a second replaces it. `QUploadFileThread::run` is cut where it
waits for the network: `Login`, `Take`, `Upload`, `Relogin`, `Reupload`. `Post`
is a request to the web server: it is answered, refused, not delivered, or
carried out with an answer that is not there after ten seconds. `uploadFile`
cannot tell the last three apart, so a file may be on the PBX and be counted as
failed.

**WidgetRegistry.** `map` is `singleControlMap`, including the null pointers that
`operator[]` inserts. A widget is a number that is never used again, so that
connections of deleted widgets can be told from connections of new ones. `news`
holds what the PBX has said and the window has not taken: lists, answers to
`slotQueryExtensionStatus`, and reports. Answers come by connections of their own
and the reports by another, so `Take` takes any of them next; and a report is
thrown away when a later one is read with it, because `slotRecvReportData` looks
at the last line of a read only (`LoseReport`). `slotRecvExtensionList` ends with two
loops over the tree of broadcast stations, which are modelled step by step
(`AddRow`, `RemoveRow`, on `rows`, `idList` and the index `row`); nothing else of the
window runs in between (`WindowIsFree`). `AddSingleWidget` shows a message box,
and runs the event loop in it, for an extension that has no address of a relay in
`config.ini`; every extension has one here. `aged`, `outrun` and `lost` are histories:
which extensions changed after a message was made, where such a message was taken
last, and where a report was thrown away.

## 3. Runs

Every passing run is exhaustive within its bounds. Bounds are constants whose
comment begins with "bound:", and no property mentions them except as the end of
time (`MaxTime`), as the ids a bounded run can reach (`MaxPlans`), or as the
texts that can be submitted (`MaxTexts`).

| Run | Shows |
|---|---|
| `tasks_safety` | `CacheIsCurrent`, `PlayedIsBeingRemoved`, `LeavesOnlyWhenDue`, `PlanIsAllOrNothing`, `DropIsJustified`: the copies of a task, its playing and its removal agree, with any one of the failures named above, or a crash, at any place. `StoreKeepsItsPromise`: all of it implements `TaskStore` |
| `tasks_two_plans` | `IdsNameOneTask`: an id that waits in a queue, a list or a question names one task for ever; it needs AUTOINCREMENT, and two plans, so that the second could reuse an id of the first. `DueTasksLeave`: every due task leaves, restarts included |
| `play` | `KeyedDuringPlay`, `KeyedForAReason`: five users of a relay, and a station that is keyed has one that lets go. `EndIsSeen`: nothing reported before the prompt is taken for the end of the file, but for the end of a call that was answered |
| `play_ends` | `PlayEnds`: a play ends unless its phone never becomes idle; `RejoinsMeeting`: a phone taken out of the meeting is back in the end, by the box of automatic entering or without it by the one dial of `slotFinishedAudioPlay` |
| `keys` | `TalkerIsOnAir`, `MicIsHeard`: nobody but the users the property names takes a relay from who talks. `OpenForAReason`: a closed contact has a user, or a named event that kept a close from it. `LeftOnTheAir`: after the exit only contacts that could not be reached, or were keyed during the box, are on. `StuckMicIsCutOff`: the limit on an open microphone works over lost connections and other users, as long as no play waits for ever |
| `session` | `OkHasToken`, `LossIsNoticed`, `KillIsLate`, `TooManyIsFinal` (no client runs on at the limit of its failures), `WindowIsLeftAlone`, and `ComesBack`: by heartbeat or by the loader; with logins and heartbeats that run inside each other |
| `texts` | `TriesStayLocal`, `OneTaskPerText`, `TaskPlaysItsText`, `GivenUpAfterTwoFailures`, `WaitingFilesStay`, `EveryTextIsDecided` |
| `widgets` | `CenterIsLinked`; `TreeShowsTheStations` and `ChoiceSurvives`: the two loops over the tree leave one row for each broadcast station, with the operator's choice; `NewsIsShown`: a wrong status on the screen has three causes only: the news is on its way, the report was thrown away with its read, or a message older than the change was taken after it |

Each property of a passing run is broken by a mutant of the code (defined in the
module just before the definition it replaces, marked "Mutant" or "A faulty"),
so none of them holds by the shape of the model.

### Why the bounds are enough

- *BroadcastTasks*: with `Half = 2` one plan of two tasks has an offset that
  overflows and the other one that fits; in `tasks_safety` `MaxTime = 3` gives
  a task of either plan time to be due, late,
  and beyond `Window`; one fault is enough for each single failure at every
  place. The queue may hold two requests before a check or the operator adds
  more: enough for two removals of the same row and for an insert between them.
  `MaxLists = 1` delays the database thread until the window has taken the list;
  a longer queue only ages what is shown, which `choice` already does without
  limit. `tasks_two_plans` is about ids and about leaving, so its plans have one
  task, its queue and its time are shorter (`MaxQueue = 1`, `MaxTime = 2`), and
  its one fault is among those the program recovers from by itself.
- *AudioPlay*: one play is one life of the thread. `play` has one click, a press of TX
  (letting it go is free), a dial, or the close button. `Timeout` and `EndPolls` of 2
  let an event fall between two polls of one loop. `play` runs every fault but a lost
  request, which can only keep a play from starting, and counts a call from somebody
  as one. `play_ends` runs a lost request or report, with the box of automatic entering
  on and off and one poll per loop, since its question is whether the loops end and not
  when. The same two properties hold with each of the other faults (a call, a phone
  without registration, a lost link) in the place of these; all of them together
  multiply the states of a liveness check beyond the time of a run.
- *Keying*: the center, a call station and a broadcast station are the roles there
  are; no handler looks at two stations of one role together except by closing
  each. Two switches turn the microphone on and off, one press and one play
  overlap them in any order, `MaxOpen = 1` lets a microphone be within its limit
  and beyond it, and two queued signals let a close wait behind an open. One fault
  is each single one at every place: a lost link, a lost poll, a garbled reply, a
  disabled button, deleted widgets, or a restart after any end of the client.
- *Session*: the constants are the program's own (60 s, 30 s, 20 s, five
  failures) in ticks; five faults take the failure counter to its limit, with
  `AutoLogin`. Without it the operator may click OK once more during a login; two
  faults are enough to lose a reply and the session around that click. `Cap` is
  above `Beat + 2` and `(TooMany - 1) * Beat`, which is assumed by name, so the
  history clocks reach what the properties compare with.
- *Announcements*: three texts over three seconds with `Keep = 2` fill the
  directory and share names; two faults fail both uploads of one text.
- *WidgetRegistry*: the center, a call station, two broadcast stations, and a
  joined name are one of each kind. The PBX may know all of them at the start or one,
  so that a tree may lose several rows at once; two changes and two lists or answers,
  two of them on their way at a time, add, remove and change while older messages wait.

Deadlock is checked except in `Announcements`, `WidgetRegistry` and `Keying`,
where nothing is left to do once the texts, changes, queries, switches and
restarts of the bounds are used up (in the program the operator and the PBX never
run out).

### Fairness

Weak fairness on a step says that its thread runs and that Qt delivers a queued
signal; strong fairness is used where another step of the same thread, or a
state of the phone or the link that comes and goes, can disable the step
again and again: `CheckTake` and `MgrDBInitFinished` (one thread),
`AutoEnterCheck` and `IdleSeen` (a status that changes), `PollOn \/ PollOff`
(a connection that is lost), `TimePasses` of `Session` (urgent steps come
first). `ExitEnds` is fair because the box of `closeEvent` has a timer. Every wait of
`Session` ends (`WaitEnds`), since `sendSyncRequest` sets a timer before it
waits. The environment is assumed to let a call end, a phone register again, a
link to the microphone come back, the network return, and a held TX button be let go.
Nothing is assumed of the operator's other acts, nor of the relays: the play thread
waits for them with a timeout, so `PlayEnds` and `RejoinsMeeting` hold with a link
that is never there. In `Keying` a play gets on in one of two ways (`PlayStarves`, or
its next step), so no play is assumed to end: the loop of
`zchxvhfaudioplaythread.cpp:33` may wait for ever, and `StuckMicIsCutOff` exempts the
stations it then keeps from the cut-off (`controlwidget.cpp:164`: all of them, when it
is the center's). Faults are bounded, never fair.
`session` takes both values of `AutoLogin`; only with it can the program come back
with nobody there, so `ComesBack` asks for no more than a window's session without
it.

`PlayEnds` excludes `Starved`: the first loop of the play thread has no limit,
and no report may ever come when the request to hang up was lost. `EndIsSeen`
excludes what can end a play early: the calls of the
client itself (`Dialled`): a click of the operator, automatic entry (a dial that
passed its check before the play, for a phone that then loses its registration), and
the dial back into the meeting after an earlier play; a call that was answered at
the station (`talked`); and threads that gave up. It speaks of reports that keep their
order. `RejoinsMeeting` excludes lost requests and reports. Without automatic entering
it also excludes what the one dial meets: a file that plays on because the thread gave
up, somebody else's call, and a phone that is off.

### Violation runs

Each run below states what a comment or a document says and is violated; the
entry in "findings" of `PROJECT.json` quotes the text.

| Run | What the code does |
|---|---|
| `tasks_stations` | the stations of a stored plan come back as one joined name, which no widget has |
| `play_left_open` | TX pressed and released in the last loop of a play leaves the relay open |
| `login_killed` | the loader kills a program that waits at its login dialog |
| `widgets_group` | widgets made after the first list are not connected to the group button |

### Met while modelling, without a run

The models contain the following behaviour; the properties above are stated so
that they hold with it.

- `zchxbroadcasttaskmgr.cpp:94`: `i * mTimeGap * 1000` is an `int` product; after
  24.8 days it wraps and tasks lie before the start of their plan.
- `zchxvhfaudioplaythread.cpp:106`: the end of a play closes the relay under an
  operator who holds TX.
- `zchxvhfaudioplaythread.cpp:76`: the end of a call that somebody answered at the
  station is taken for the end of the file, which then plays on with the relay closed.
- `controlwidget.cpp:632`: the dial back into the meeting is made once; when it meets a
  busy phone, a station without automatic entering stays out of its meeting.
- `zchxvhfaudioplaythread.cpp:33`: a play that waits for ever at the center keeps every
  cut-off of the microphone from the stations.
- `controlwidget.cpp:164`: a close of the microphone is dropped while the center
  is in use, and never made good.
- `controlwidget.cpp:440`: letting TX go closes a station that the open
  microphone uses.
- `controlwidget.cpp:64`: a broadcast station asks its relay to close when its widget
  is made; its socket is not connected then, so the command is always dropped.
- `controlwindow.cpp:833` and `:843`, and a rebuild of the widgets: relays that are
  on stay on, and the next connection takes them to be off
  (`relaycontroller.cpp:166`). `controlwindow.cpp:439`: a relay that is keyed while
  the box of the exit is shown stays on as well.
- `controlwidget.cpp:602`: a TX button that is disabled while it is held may never
  report its release; `mIsTxPressed` then spares the station from later closes.
- `controlwidget.cpp:68`: a rebuild under a play thread deletes what it uses.
- `logindialog.cpp:81`: after a second click on OK, a result that comes when the
  dialog is accepted starts another login, which clears the token of the session
  while `mIsOK` stays true; the next heartbeat repairs it.
- `yeastarnetwork.cpp:235`: an upload whose answer comes too late is done again, or
  leaves a prompt on the PBX that no task plays.
- `networker.cpp:532`: any reply ends the wait of a synchronous request, because
  `finished` is the signal of the shared manager.
- `zchxvhfconvertthread.cpp:46`: two texts of one second share a file.
- `zchxvhfconvertthread.cpp:116`: 9 files are kept where 10 are configured.
- `controlwindow.cpp:619` and `:852`: `operator[]` leaves null pointers in
  `singleControlMap` that other loops use.
- `controlwindow.cpp:185`: a list of the same length with another extension does
  not change the widgets; `controlwindow.cpp:288`: an older list overwrites the
  status of a newer report; `networker.cpp:202`: of several reports in one read only
  the last one is looked at, and the status of the others stays old until the next list.
- `relaycontroller.cpp:39` speaks of reconnecting every 10 s (the code: 5 s);
  `relaycontroller.cpp:106` speaks of sending again every 10 s, and that timer is
  never started; `networker.cpp:272` says "restart", and the code only ends the
  process and relies on the loader.

## 4. Proofs

TLAPS checks every theorem below for all values of the constants that the named
assumptions admit. Every safety invariant, every action property and the
refinement that a passing run checks is a theorem; each inductive invariant was
checked by TLC on the instances of the runs before it was proved.

| Module | Theorem | States |
|---|---|---|
| `BroadcastTasks_proofs` | `TypeCorrect`, `InvCorrect` | `[]TypeOK`, `[]IInv` |
| | `StaleIdsAreHarmless` | `[]IdsNameOneTask` |
| | `CacheNeverAhead` | `[]CacheIsCurrent` |
| | `PlayedLeaves` | `[]PlayedIsBeingRemoved` |
| | `NothingLostEarly` | `LeavesOnlyWhenDue` |
| `TaskStore_proofs` | `StoreCorrect` | `[](IInv /\ StoreInv)` |
| | `PromiseIsKept` | `StoreKeepsItsPromise`: `BroadcastTasks` implements `TaskStore` |
| | `PlansAreWhole` | `PlanIsAllOrNothing` |
| | `DropsAreJustified` | `DropIsJustified` |
| `AudioPlay_proofs` | `TypeCorrect`, `KeyedCorrect` | `[]TypeOK`, `[]KInv` |
| | `PlaysAreKeyed` | `[]KeyedDuringPlay` |
| | `KeyedWithReason` | `[]KeyedForAReason` |
| | `EndsAreSeen` | `[]EndIsSeen` |
| `Keying_proofs` | `TypeCorrect`, `InvCorrect` | `[]TypeOK`, `[]IInv` |
| | `TalkerStaysOnAir` | `[]TalkerIsOnAir` |
| | `OpenMicIsHeard` | `[]MicIsHeard` |
| | `ContactsHaveReasons` | `[]OpenForAReason` |
| | `ExitSilences` | `[]LeftOnTheAir` |
| `Session_proofs` | `TypeCorrect`, `InvCorrect` | `[]TypeOK`, `[]IInv` |
| | `RequestsHaveToken` | `[]OkHasToken` |
| | `LossNoticed` | `[](clicks = 0 => LossIsNoticed)` |
| | `KilledLate` | `[](clicks = 0 => KillIsLate)` |
| | `KilledAtLast` | `[]TooManyIsFinal` |
| | `WindowSurvives` | `WindowIsLeftAlone` |
| `Announcements_proofs` | `TypeCorrect`, `InvCorrect` | `[]TypeOK`, `[]IInv` |
| | `TriesAreLocal` | `[]TriesStayLocal` |
| | `TextsAreOneTask` | `[]OneTaskPerText` |
| | `TasksPlayTheirTexts` | `[]TaskPlaysItsText` |
| | `GivenUpLate` | `GivenUpAfterTwoFailures` |
| | `FilesStay` | `WaitingFilesStay` |
| `WidgetRegistry_proofs` | `TypeCorrect`, `InvCorrect` | `[]TypeOK`, `[]IInv` |
| | `CenterStaysLinked` | `[]CenterIsLinked` |
| | `TreeIsRight` | `[]TreeShowsTheStations` |
| | `NewsArrives` | `[]NewsIsShown` |
| | `ChoicesSurvive` | `[]ChoiceSurvives` |

A state invariant `[]P` is proved as `Init => IInv`, `IInv /\ [Next]_vars => IInv'`
and `IInv => P`, the second with one lemma per action or group of actions and per
part of the invariant that they can disturb; only the last step is temporal (PTL).

### Assumptions

Each is the named ASSUME of its module, and TLC evaluates it on every run. Beyond
types they say:

| Assumed | Because |
|---|---|
| `Setting`: `times` is at least 1 | the window refuses a plan without a task (`controlwindow.cpp:540`) |
| `Half > 0` | `int` has a width |
| `MaxGap <= Window + 1`, used by `DropIsJustified` only | the manager's timer fires every 10 s, a tenth of `Window`: a task is checked between its time and the end of its window |
| `Beat > 2` | two synchronous requests (20 s) time out between two heartbeats (60 s) |
| `Old > 1` | the file is written every 10 s and is old after 20 s |
| `Cap` above `Beat + 2` and `(TooMany - 1) * Beat` | a history clock that stops earlier would hide a violation, not a state of the program |
| the center is no other station, `Call` and `Broadcast` are disjoint | the kind of an extension is one number of its record |
| `IsFiniteSet(Ext)` | a PBX has finitely many extensions; the code compares counts |
| `EndPolls`, `Timeout`, `MaxSec`, `MaxSignals`, `Keep`, `Scan`, `TooMany` at least 1 (`Timeout` 0 is allowed) | literals of the code, or a bound that lets something happen |

### Inductive invariants, and why they are needed

**BroadcastTasks.** `IdsNameOneTask` needs that every id in
the table and in every copy was handed out by the counter (`IdsAreIssued`) and
that the ids of an open transaction are larger (`TxnIsFresh`): a commit then
adds rows that no copy can name. It also needs `RowsAreDistinct`, so that a copy
made by a query names the row it was made from. `PlayedIsBeingRemoved` needs the
same for the manager's unfinished `jobs` (`JobsAreBeingRemoved`), and an id that
is played must be an issued one, or a later commit would bring a "played" row.
`CacheIsCurrent` holds between slots only, since `slotRemoveTask` deletes before
it queries. `LeavesOnlyWhenDue` needs `ChecksAreDue`: a removal that the manager
asked for is of a task whose time had come when it asked, and the id of the
removed row names that task (`IdsNameOneTask`); that the id is positive comes
from `IdsAreIssued`, and is what keeps `delBroadcastTask` from wiping the table.

**TaskStore.** The mapping reads the plans that wait off the queue and the open
transaction. For a commit to be the abstract `Store` of one of them, `StoreInv` says
what both hold: a queued insertion is all of `TasksOf` one submitted plan
(`RequestsArePlans`), an open transaction has inserted the first n of them under the
numbers after `lastId` and has the others to do (`TxnIsAPlan`), and no plan waits
twice (`PlansWaitOnce`), or storing it would leave it waiting. Then

| Step of `BroadcastTasks` | is, in `TaskStore` |
|---|---|
| `MgrRecvTaskSetting` | `Submit` |
| `DbCommit` | `Store` of the plan in the transaction |
| `DbInsertFails`, `Crash` | `GiveUp` |
| `DbRemove` | `Remove`, or `GiveUp` when the row is gone already or the delete fails |
| `GuiAnswer` with a yes | `Ask` |
| `TimePasses` | `Tick` |
| every other | a stutter |

`PlanIsAllOrNothing` follows from the same step of `DbCommit`: the rows it adds bear
the numbers `lastId + 1` to `lastId + times`, one each, so there are `times` of them.

`DropIsJustified` is about time. `DropInv` says for each task of the manager's list
that it is played or to be played (`jobs`), or came too late (`CameLate`), or is still
in the copy under check, or came, or its time did, after the last check began
(`ListIsChecked`). The last two cases cannot last: the checks are at most `MaxGap`
apart (`ChecksKeepTime`), so a task in the copy that is late at its turn has been
played or `CameLate` (`TakenIsChecked`). All copies of an id must bear one time
(`CopiesAgree`), since the list may be queried again during the check.

**AudioPlay.** A keyed contact is traced back to its user along the path of a
command: where no command waits the contact obeys the last one, unless that was
dropped (`RelayObeys`), the last one sent is the last one queued (`LastIsQueued`), and
who sent an open one holds the relay or let it go without a command (`OpenHasReason`).
`EndIsSeen` needs an account of a whole play, `EInv`: as long as nobody dialled,
reports keep their order and no thread gave up (`Quiet`), then before the first play
nothing was asked for (`BeforePlays`), and as long as nobody answered a call the play is
before asking for its file (`BeforeAsking`: no report of a call is on its way, and a
phone in a meeting is known to be in one), or asking (`WhileAsking`: the phone is
silent), or the file plays (`WhilePlaying`: once its call is seen, every report on its
way is of it). An old report of a call in any of the three would be taken for the file.

**Keying.** The four safety properties, together with what a client that is off holds
(`OffIsEmpty`) and what the microphone said last (`LastIsOpen`: while it is open and
within its limit, the last signal queued is an opening). Without `LastIsOpen` a
close that is queued behind an opening could take the stations from who talks.

**Session.** The wait for a reply runs other slots, so the proof is about the stack of
waits: a reply that is there has told its loop to quit (`RepliesQuit`), and, while
nobody has clicked OK a second time, at most one request waits (`OneCall`), because a
heartbeat and its second try end before the next one (`Beat > 2`). `WindowIsSound` says
for that one request how long the client may have been wrong about its session:
`fooled` is bounded by the age of the heartbeat and by the time the request has waited,
`noSession` from below by the heartbeats of the failures counted. `DialogWaits` is the
same for the time before the window, `WorkingIsTrue` says that nobody is fooled by a
session that works, and `FileIsYoung` is what `WindowIsLeftAlone` rests on.
`TooManyIsFinal` and `WindowIsLeftAlone` hold with any number of clicks.

**Announcements.** A text is at one place of its way, and there once (`OnePlaceEach`
over the seven places of `Stage`); the place in the loop tells whether the thread has a
job and how often it failed (`JobAtWork`). `TaskPlaysItsText` needs that two texts have
two names, unless the name is shared (`NamesDiffer`), and that the file and the prompt
of a name speak its text (`FilesSpeak`). `WaitingFilesStay` follows from the step of
the clean-up alone: it is stated by the place of a file among the others.

**WidgetRegistry.** `NewsIsShown` needs that a message differs from the PBX only where
a change came after it was made (`NewsAreTrue`), and that no two numbers share a widget
(`OneEach`). The tree needs the invariant of the two loops, `RowsAreRight`: no station
has two rows; in the first loop the stations are those whose row was looked at and
those that are still to come, and none of the latter has a row but an old one; in the
second one the rows that are not in `idList` are the right ones, and none before the
index is in it, or it would stay. Without the last part a loop that passes over the row
after a removed one would keep the invariant. `ChecksAreRight` says of the same rows
that their checks are the operator's, also between two steps of a loop.

### Only model-checked

- The liveness properties `DueTasksLeave`, `PlayEnds`, `RejoinsMeeting`,
  `StuckMicIsCutOff`, `ComesBack`, `EveryTextIsDecided`: the prover has no rules for
  fairness and ENABLED.
- `LossIsNoticed` and `KillIsLate` when the operator has clicked OK a second time
  (`clicks > 0`): requests then wait inside each other, and a bound on time would need
  an invariant on stacks of any depth. TLC finds both to hold with one such click.

## 5. Plan

In the order of what matters most:

1. `LossIsNoticed` and `KillIsLate` with requests that wait inside each other: an
   invariant of the whole stack, with the time each of its requests has waited.
2. An abstract relay with users that hold and release it, and the part of
   `Keying` that implements it, as a theorem.
3. Tasks of the kind Task_Immediately, and jobs that reach `PromptVideo` of several
   stations: a module that composes `BroadcastTasks`' jobs with `AudioPlay`'s
   stations.
4. The two hazards without a property (`controlwindow.cpp:619` and `:185`): a model of
   the loops over `singleControlMap` that meet a null pointer, and of lists that
   exchange one extension for another.

### Not modelled, and why

- `JavaSubInfoThread`: its loop keeps no state but the socket. A text it receives is
  a `SendClicked` of `Announcements`; what is lost while it reconnects never enters
  the client. Its topic filter points into a temporary (`javasubinfothread.cpp:41`),
  so what it subscribes to is not defined.
- `YeastarNetWork::getFileList` has no caller, and the resending timer of
  `RelayController` is never started.
- The dialogs of the test buttons and the template editor of `ControlWindow` read and
  write settings only.
- What the end of the client takes with it in the middle of `Announcements` (texts
  that were submitted are simply gone) and the contents of a relay's byte stream
  (replies are taken whole).
- The parts of the inventory that hold no state of their own: see section 1.
