------------------------------- MODULE Keying -------------------------------
(***************************************************************************)
(* Who keys the transmitters: the command center and the stations, their   *)
(* TX buttons and the group's, the hand microphone that the                *)
(* CenterControlThread polls, and the plays of audio files.  All of them   *)
(* send open (1) and close (0) commands to the same relays.                *)
(*                                                                         *)
(* A command reaches a relay only while its socket is connected, and the   *)
(* relay keeps its contact when the link, a widget or the whole client is  *)
(* gone.  A play is seen here by its commands only; AudioPlay has the rest *)
(* of it.                                                                  *)
(***************************************************************************)
EXTENDS Integers, FiniteSets, Sequences

CONSTANTS
    Center,       \* the bound command center (Group0/Center)
    Call,         \* the call stations
    Broadcast,    \* the broadcast stations
    MaxOpen,      \* mMaxOpendTimeSecs
    MaxSwitches,  \* bound: times the microphone is switched
    MaxPresses,   \* bound: times a TX or a close button is pressed
    MaxPlays,     \* bound: files played
    MaxSignals,   \* bound: the poll waits while so many commands are queued
    MaxFaults     \* bound: garbled replies, lost connections, rebuilds and restarts

ASSUME BoundAssumption ==
    /\ Center \notin Call \cup Broadcast /\ Call \cap Broadcast = {}
    /\ MaxOpen \in Nat /\ MaxSwitches \in Nat /\ MaxPresses \in Nat
    /\ MaxPlays \in Nat /\ MaxSignals \in Nat \ {0} /\ MaxFaults \in Nat

VARIABLES
    app,       \* the client: up, closing (the box of closeEvent) or off
    mic,       \* the microphone is on (channel 1 of the control box)
    conn,      \* isConnect of CenterControlThread::run
    isOpend,   \* mIsOpend
    age,       \* seconds since mInitOpendTime, up to MaxOpen
    signals,   \* signalRecvCmd values queued for the center's widget
    held,      \* the TX button the mouse holds down: a widget's, "group" or "none"
    pressed,   \* the widgets with mIsTxPressed
    disabled,  \* the TX buttons disabled although the relay is connected
    wired,     \* the group widget is connected to the widgets there are
    play,      \* the play thread of each widget: no, begun, starved, open, closed
    linked,    \* the widgets whose RelayController is connected
    relay,     \* the contact of each relay
    last,      \* history: the last command for each relay, by whom and when
    missed,    \* history: relays that were to be closed, and were not since
    switches, presses, plays, faults

micVars   == <<mic, conn, isOpend, age>>
txVars    == <<held, pressed, disabled, wired>>
airVars   == <<relay, last, missed>>
boundVars == <<switches, presses, plays, faults>>
vars == <<app, micVars, signals, txVars, play, linked, airVars, boundVars>>

MicWidget == Call \cup {Center}
Widget == MicWidget \cup Broadcast

Up == app # "off"
isPlayAudio(w) == play[w] # "no"
isTxPressed(w) == w \in pressed
On == {w \in Widget : relay[w]}

\* A faulty Send: the other relays are forgotten.
SendOnly(L, W, c, who) ==
    /\ last' = [w \in W |-> [cmd |-> c, by |-> who, at |-> app]]
    /\ relay' = [w \in Widget |-> IF w \in W \cap L THEN c = 1 ELSE relay[w]]

\* send_set_status_command(c, 0) for the relays of W, of which those of L are
\* connected: TcpSocket drops what it is given while it is not.
Send(L, W, c, who) ==
    /\ last' = [w \in Widget |-> IF w \in W THEN [cmd |-> c, by |-> who, at |-> app]
                                            ELSE last[w]]
    /\ relay' = [w \in Widget |-> IF w \in W \cap L THEN c = 1 ELSE relay[w]]

\* The history of closing W: the relays left on are those that spared names and
\* those that are not connected.
Closed(L, W, spared) == missed' = (missed \ (W \cap L)) \cup (On \cap (spared \cup (W \ L)))

\* The client is up, and every socket has connected.
Init ==
    /\ app = "up" /\ mic = FALSE /\ conn = TRUE /\ isOpend = FALSE /\ age = 0
    /\ signals = <<>> /\ held = "none" /\ pressed = {} /\ disabled = {}
    /\ wired = TRUE
    /\ play = [w \in Widget |-> "no"] /\ linked = Widget
    /\ relay = [w \in Widget |-> FALSE]
    /\ last = [w \in Widget |-> [cmd |-> 0, by |-> "none", at |-> "up"]] /\ missed = {}
    /\ switches = 0 /\ presses = 0 /\ plays = 0 /\ faults = 0

-----------------------------------------------------------------------------
(* CenterControlThread::run *)

\* A faulty TooLong: nothing is sent once the center was told to close.
TooLongAtCenter == age >= MaxOpen /\ last[Center].cmd = 1
TooLong == age >= MaxOpen

\* "+OCCH1:1": the first one opens; after too long a time every one closes.
PollOn ==
    /\ conn /\ mic /\ Len(signals) < MaxSignals
    /\ isOpend' = TRUE
    /\ age' = IF isOpend THEN age ELSE 0
    /\ signals' = IF ~isOpend THEN Append(signals, "open")
                  ELSE IF TooLong THEN Append(signals, "cutoff") ELSE signals
    /\ UNCHANGED <<app, mic, conn, txVars, play, linked, airVars, boundVars>>

\* A faulty PollOff: the opening is remembered.
PollOffKeeps ==
    /\ conn /\ ~mic /\ Len(signals) < MaxSignals
    /\ signals' = IF isOpend THEN Append(signals, "close") ELSE signals
    /\ UNCHANGED <<app, micVars, txVars, play, linked, airVars, boundVars>>

\* "+OCCH1:0" closes what was opened.
PollOff ==
    /\ conn /\ ~mic /\ Len(signals) < MaxSignals
    /\ isOpend' = FALSE
    /\ signals' = IF isOpend THEN Append(signals, "close") ELSE signals
    /\ UNCHANGED <<app, mic, conn, age, txVars, play, linked, airVars, boundVars>>

\* Another reply of eight characters: the microphone is taken to be off, and
\* nobody is told.
PollGarbled ==
    /\ conn /\ isOpend /\ faults < MaxFaults /\ faults' = faults + 1
    /\ isOpend' = FALSE
    /\ missed' = missed \cup (On \cap MicWidget)
    /\ UNCHANGED <<app, mic, conn, age, signals, txVars, play, linked, relay, last, switches,
                   presses, plays>>

\* The connection is lost; the thread connects again, and remembers mIsOpend.
Disconnect ==
    /\ conn /\ faults < MaxFaults /\ faults' = faults + 1
    /\ conn' = FALSE
    /\ UNCHANGED <<app, mic, isOpend, age, signals, txVars, play, linked, airVars, switches,
                   presses, plays>>

Connect ==
    /\ Up /\ ~conn /\ conn' = TRUE
    /\ UNCHANGED <<app, mic, isOpend, age, signals, txVars, play, linked, airVars, boundVars>>

-----------------------------------------------------------------------------
(* The GUI thread: the microphone's signals *)

CloseQueued(queue) == \E i \in DOMAIN queue : queue[i] # "open"

\* slotRecvControlCmd(1) -> openRelayControl, slotOpenStation.  When the thread
\* has forgotten the opening meanwhile, nothing queued closes these relays.
RecvOpen ==
    /\ signals # <<>> /\ Head(signals) = "open" /\ signals' = Tail(signals)
    /\ Send(linked, MicWidget, 1, "mic")
    /\ missed' = IF isOpend \/ CloseQueued(signals') THEN missed
                 ELSE missed \cup (MicWidget \cap linked)
    /\ UNCHANGED <<app, micVars, txVars, play, linked, boundVars>>

\* A faulty Idle: the button is not looked at.
NotPlaying(W) == {w \in W : ~isPlayAudio(w)}

\* The widgets of W whose relay closeRelayControl closes.
Idle(W) == {w \in W : ~isTxPressed(w) /\ ~isPlayAudio(w)}

CenterIsUsed == isTxPressed(Center) \/ isPlayAudio(Center)

\* slotRecvControlCmd(0): nothing while the center is in use; otherwise close the
\* center and, by slotCloseStation, every call station that is not in use.
RecvClose ==
    /\ signals # <<>> /\ Head(signals) \in {"close", "cutoff"} /\ signals' = Tail(signals)
    /\ IF CenterIsUsed
       THEN missed' = missed \cup (On \cap MicWidget) /\ UNCHANGED <<relay, last>>
       ELSE /\ Send(linked, Idle(MicWidget), 0, "mic")
            /\ Closed(linked, Idle(MicWidget), MicWidget \ Idle(MicWidget))
    /\ UNCHANGED <<app, micVars, txVars, play, linked, boundVars>>

-----------------------------------------------------------------------------
(* The GUI thread: the buttons *)

\* The widgets whose OnTxButtonPressed or OnTxButtonReleased a button runs: a
\* station's own and the center's; the group's those of the widgets whose button is
\* enabled at that time.
Reached(button) ==
    LET own == IF button # "group" THEN {button}
               ELSE IF wired THEN linked \ disabled ELSE {}
    IN  own \cup (IF own \ {Center} = {} THEN {} ELSE {Center})

\* A button is enabled while the relay is connected; the box of closeEvent is modal.
PressTx(button) ==
    /\ app = "up" /\ held = "none" /\ presses < MaxPresses /\ presses' = presses + 1
    /\ button \in (linked \ disabled) \cup {"group"}
    /\ held' = button /\ pressed' = pressed \cup Reached(button)
    /\ Send(linked, Reached(button), 1, "tx")
    /\ UNCHANGED <<app, micVars, signals, disabled, wired, play, linked, missed, switches,
                   plays, faults>>

\* OnTxButtonReleased of R; closeRelayControl spares the widgets that play a file.
Release(L, R) ==
    LET closed == R \ {w \in Widget : isPlayAudio(w)} IN
    /\ pressed' = pressed \ R
    /\ Send(L, closed, 0, "tx") /\ Closed(L, closed, R \ closed)

ReleaseTx ==
    /\ held # "none" /\ held' = "none"
    /\ Release(linked, Reached(held))
    /\ UNCHANGED <<app, micVars, signals, disabled, wired, play, linked, boundVars>>

\* The button of w is disabled.  Whether Qt then emits released for a button that is
\* down, or only forgets that it is, depends on its version.
ButtonGoes(w, L) ==
    IF held # "none" /\ w \in pressed
    THEN /\ held' = IF held = w THEN "none" ELSE held
         /\ Release(L, Reached(w)) \/ UNCHANGED <<pressed, airVars>>
    ELSE UNCHANGED <<held, pressed, airVars>>

\* The extension of w becomes unavailable, and RefreshView disables its TX button,
TxDisabled(w) ==
    /\ Up /\ faults < MaxFaults /\ faults' = faults + 1
    /\ w \in linked \ disabled /\ disabled' = disabled \cup {w}
    /\ ButtonGoes(w, linked)
    /\ UNCHANGED <<app, micVars, signals, wired, play, linked, switches, presses, plays>>

\* until the next state of the relay (SlotRelayStatusChanged) or of the extension.
TxEnabled(w) ==
    /\ Up /\ w \in disabled /\ disabled' = disabled \ {w}
    /\ UNCHANGED <<app, micVars, signals, held, pressed, wired, play, linked, airVars,
                   boundVars>>

\* slotCloseRelay, by the button of the test frame.
CloseClicked(w) ==
    /\ app = "up" /\ held = "none" /\ presses < MaxPresses /\ presses' = presses + 1
    /\ Send(linked, {w}, 0, "test") /\ Closed(linked, {w}, {})
    /\ UNCHANGED <<app, micVars, signals, txVars, play, linked, switches, plays, faults>>

-----------------------------------------------------------------------------
(* The sockets of the relays *)

\* RelayDisConnected: the button of a widget without a relay is disabled.
LinkDown(w) ==
    /\ w \in linked /\ linked' = linked \ {w}
    /\ faults < MaxFaults /\ faults' = faults + 1
    /\ disabled' = disabled \ {w}
    /\ ButtonGoes(w, linked')
    /\ UNCHANGED <<app, micVars, signals, wired, play, switches, presses, plays>>

\* socket_connect, every RECONNECT_TIME; no command is sent again.
LinkUp(w) ==
    /\ Up /\ w \in Widget \ linked /\ linked' = linked \cup {w}
    /\ UNCHANGED <<app, micVars, signals, txVars, play, airVars, boundVars>>

-----------------------------------------------------------------------------
(* Plays *)

\* playAudio, and the commands of the thread: open, and close in the end.
PlayBegins(w) ==
    /\ Up /\ play[w] = "no" /\ plays < MaxPlays /\ plays' = plays + 1
    /\ play' = [play EXCEPT ![w] = "begun"]
    /\ UNCHANGED <<app, micVars, signals, txVars, linked, airVars, switches, presses, faults>>

\* A thread that will wait for an idle phone for ever: its first loop has no limit.
PlayStarves(w) ==
    /\ play[w] = "begun"
    /\ play' = [play EXCEPT ![w] = "starved"]
    /\ UNCHANGED <<app, micVars, signals, txVars, linked, airVars, boundVars>>

PlayOpens(w) ==
    /\ play[w] = "begun"
    /\ play' = [play EXCEPT ![w] = "open"]
    /\ Send(linked, {w}, 1, "play")
    /\ UNCHANGED <<app, micVars, signals, txVars, linked, missed, boundVars>>

\* A faulty PlayCloses: the relay is left to somebody else.
PlayLeaves(w) ==
    /\ play[w] = "open"
    /\ play' = [play EXCEPT ![w] = "closed"]
    /\ UNCHANGED <<app, micVars, signals, txVars, linked, airVars, boundVars>>

PlayCloses(w) ==
    /\ play[w] = "open"
    /\ play' = [play EXCEPT ![w] = "closed"]
    /\ Send(linked, {w}, 0, "play") /\ Closed(linked, {w}, {})
    /\ UNCHANGED <<app, micVars, signals, txVars, linked, boundVars>>

\* The thread ends, and a thread may end at once.
PlayEnds(w) ==
    /\ play[w] \in {"begun", "closed"}
    /\ play' = [play EXCEPT ![w] = "no"]
    /\ UNCHANGED <<app, micVars, signals, txVars, linked, airVars, boundVars>>

-----------------------------------------------------------------------------
(* The widgets and the client come and go *)

\* The widgets are gone: their buttons, sockets and threads with them.
WidgetsGone ==
    /\ isOpend' = FALSE /\ age' = 0 /\ conn' = FALSE /\ signals' = <<>>
    /\ pressed' = {} /\ disabled' = {} /\ play' = [w \in Widget |-> "no"] /\ linked' = {}

\* The client ends without a word to the relays: slotRestartApp, slotKillMe, the
\* loader, a fault.
Dies ==
    /\ WidgetsGone /\ app' = "off" /\ held' = "none" /\ wired' = TRUE
    /\ missed' = missed \cup On
    /\ UNCHANGED <<relay, last>>

Die ==
    /\ Up
    /\ Dies
    /\ UNCHANGED <<mic, boundVars>>

\* Another constructor that asks every relay of a broadcast station to close; no
\* socket is connected yet.
AskBroadcastToClose ==
    last' = [w \in Widget |-> IF w \in Broadcast THEN [cmd |-> 0, by |-> "start", at |-> "up"]
                                                 ELSE last[w]]

\* A list with another number of extensions: every widget is deleted and made
\* again, and the group widget stays connected to the old ones.  A play thread
\* uses what was deleted: the client dies of it, or nobody hears it any more.
Rebuild ==
    /\ Up /\ faults < MaxFaults /\ faults' = faults + 1
    /\ \/ /\ WidgetsGone /\ wired' = FALSE
          /\ held' = IF held = "group" THEN "group" ELSE "none"
          /\ missed' = missed \cup On
          /\ AskBroadcastToClose
          /\ UNCHANGED <<app, relay>>
       \/ (\E w \in Widget : isPlayAudio(w)) /\ Dies
    /\ UNCHANGED <<mic, switches, presses, plays>>

\* A faulty ConfirmExit: a relay in use is spared, as it is everywhere else.
ConfirmExitSparing ==
    /\ app = "up" /\ held = "none"
    /\ app' = "closing"
    /\ Send(linked, Idle(Widget), 0, "exit") /\ Closed(linked, Idle(Widget), {})
    /\ UNCHANGED <<micVars, signals, txVars, play, linked, boundVars>>

\* closeEvent: slotCloseRelay for every widget, and five seconds in a box.
ConfirmExit ==
    /\ app = "up" /\ held = "none"
    /\ app' = "closing"
    /\ Send(linked, Widget, 0, "exit") /\ Closed(linked, Widget, {})
    /\ UNCHANGED <<micVars, signals, txVars, play, linked, boundVars>>

\* The box is gone: signalLogout, taskkill.
ExitEnds ==
    /\ app = "closing" /\ app' = "off"
    /\ WidgetsGone /\ wired' = TRUE
    /\ UNCHANGED <<mic, held, airVars, boundVars>>

\* The client is started again, and gets the first list.
Start ==
    /\ app = "off" /\ app' = "up" /\ faults < MaxFaults /\ faults' = faults + 1
    /\ missed' = On
    /\ AskBroadcastToClose
    /\ UNCHANGED <<micVars, signals, txVars, play, linked, relay, switches, presses, plays>>

-----------------------------------------------------------------------------
(* The surroundings *)

SwitchMic ==
    /\ switches < MaxSwitches /\ switches' = switches + 1
    /\ mic' = ~mic
    /\ UNCHANGED <<app, conn, isOpend, age, signals, txVars, play, linked, airVars, presses,
                   plays, faults>>

SecondPasses ==
    /\ isOpend /\ age < MaxOpen /\ age' = age + 1
    /\ UNCHANGED <<app, mic, conn, isOpend, signals, txVars, play, linked, airVars, boundVars>>

Mic == PollOn \/ PollOff \/ PollGarbled \/ Disconnect \/ Connect
Gui ==
    \/ RecvOpen \/ RecvClose \/ ReleaseTx
    \/ \E b \in Widget \cup {"group"} : PressTx(b)
    \/ \E w \in Widget : TxDisabled(w) \/ TxEnabled(w) \/ CloseClicked(w)
Links == \E w \in Widget : LinkDown(w) \/ LinkUp(w)
Plays == \E w \in Widget : \/ PlayBegins(w) \/ PlayStarves(w) \/ PlayOpens(w)
                            \/ PlayCloses(w) \/ PlayEnds(w)
Client == Rebuild \/ Die \/ ConfirmExit \/ ExitEnds \/ Start

Next == Mic \/ Gui \/ Links \/ Plays \/ Client \/ SwitchMic \/ SecondPasses

Spec == Init /\ [][Next]_vars

\* The thread polls on, the GUI thread takes every signal, nobody holds a TX button
\* for ever, and the box of closeEvent goes away.  A play ends, for its later waits
\* are limited, unless it starves in the first.
Fairness ==
    /\ SF_vars(PollOn \/ PollOff) /\ WF_vars(Connect)
    /\ WF_vars(RecvOpen \/ RecvClose) /\ WF_vars(ReleaseTx)
    /\ \A w \in Widget :
          WF_vars(PlayStarves(w) \/ PlayOpens(w) \/ PlayCloses(w) \/ PlayEnds(w))
    /\ WF_vars(ExitEnds)

FairSpec == Spec /\ Fairness

-----------------------------------------------------------------------------
(* Properties *)

\* Every variable holds a value of its type.
TypeOK ==
    /\ app \in {"up", "closing", "off"} /\ mic \in BOOLEAN /\ conn \in BOOLEAN
    /\ isOpend \in BOOLEAN /\ age \in 0..MaxOpen
    /\ signals \in Seq({"open", "close", "cutoff"}) /\ Len(signals) <= MaxSignals
    /\ held \in Widget \cup {"group", "none"} /\ pressed \subseteq Widget
    /\ disabled \subseteq Widget /\ wired \in BOOLEAN
    /\ play \in [Widget -> {"no", "begun", "starved", "open", "closed"}]
    /\ linked \subseteq Widget /\ relay \in [Widget -> BOOLEAN] /\ missed \subseteq Widget
    /\ last \in [Widget -> [cmd : {0, 1}, by : {"none", "mic", "tx", "play", "test", "exit",
                                                 "start"}, at : {"up", "closing"}]]
    /\ switches \in Nat /\ presses \in Nat /\ plays \in Nat /\ faults \in Nat

\* Who talks with a TX button is on the air at the stations the button stands
\* for and at the center: switching the microphone off, or its cut-off, closes
\* none of these relays.  Only the end of a play, the close button of the test
\* frame and the exit do.
TalkerIsOnAir ==
    \A w \in pressed : last[w].cmd = 1 \/ last[w].by \in {"play", "test", "exit"}

\* A contact is closed because of somebody who still wants it, or because a close
\* passed it by: the center was in use, a play was on, a reply was garbled, the
\* link or the widget was gone, or the client ended.
OpenForAReason ==
    \A w \in Widget : Up /\ relay[w] =>
        \/ isTxPressed(w) \/ play[w] = "open" \/ w \in missed
        \/ w \in MicWidget /\ (isOpend \/ CloseQueued(signals))

\* controlwindow.cpp:782: the open microphone lets the call stations send the
\* voice out.  When its signals are taken, every relay was asked to open until the
\* time is over, unless TX was let go, a play ended there, or somebody closed them
\* all: no close of the microphone itself, however late the window takes it, is
\* the last command.
MicIsHeard ==
    isOpend /\ signals = <<>> /\ age < MaxOpen =>
        \A w \in MicWidget : last[w].cmd = 1 \/ last[w].by \in {"tx", "play", "test", "exit"}

\* The exit closes every relay it reaches, whoever uses it (controlwindow.cpp:439).
\* A contact that is on afterwards was not connected or not told to close before,
\* or it was switched on again in the five seconds of the box, by the microphone
\* or a play.
LeftOnTheAir ==
    \A w \in Widget : app # "up" /\ relay[w] => w \in missed \/ last[w].at = "closing"

\* A microphone that stays on for too long is cut off in the end, whoever used
\* the stations in the meantime and whether or not the connection was lost;
\* except where a button that was disabled while it was down is still believed to
\* be pressed, or a play starves: at a station for this station, at the center for
\* all of them.
StuckMicIsCutOff ==
    (isOpend /\ age = MaxOpen) ~>
        \/ ~isOpend \/ play[Center] = "starved"
        \/ \A w \in MicWidget : \/ last[w].cmd = 0
                                \/ held = "none" /\ {w, Center} \cap pressed # {}
                                \/ play[w] = "starved"
=============================================================================
