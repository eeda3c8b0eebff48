------------------------------ MODULE AudioPlay ------------------------------
(***************************************************************************)
(* One station of the VHF client playing an audio file: its ControlWidget  *)
(* (GUI thread), its zchxVHFAudioPlayThread, its RelayController (a thread *)
(* of its own) with the TCP link to the relay that keys the transmitter,   *)
(* and its Extension, whose status is a copy of what the PBX reports.      *)
(*                                                                         *)
(* The play thread only polls: it sees the phone and the relay through     *)
(* status_int and mStatus, which other threads set from reports that may   *)
(* be late, and gives up waiting after Timeout polls.                      *)
(***************************************************************************)
EXTENDS Integers, FiniteSets, Sequences, SequencesExt

CONSTANTS
    MeetingAvailable,  \* isMeetingAvailable: a call station or a center
    AutoEnter,         \* the values considered for isAutoEnter
    CloseButton,       \* the test frame with its "close relay" button is shown
    InOrder,           \* reports arrive in the order they were sent
    Timeout,           \* polls of a wait until 30 s are over
    EndPolls,          \* polls that must see an idle phone before the play ends (3)
    MaxPlays,          \* bound: files played
    MaxClicks,         \* bound: presses of TX, of RX and of the close button
    MaxCmds,           \* bound: the operator acts while fewer commands are queued
    MaxFaults,         \* bound: faults of one behaviour
    Fault              \* the faults considered

FaultKind == {"request", "report", "phone", "call", "link"}

ASSUME BoundAssumption ==
    /\ MeetingAvailable \in BOOLEAN /\ AutoEnter \subseteq BOOLEAN /\ CloseButton \in BOOLEAN
    /\ InOrder \in BOOLEAN
    /\ Timeout \in Nat /\ EndPolls \in Nat \ {0}
    /\ MaxPlays \in Nat /\ MaxClicks \in Nat /\ MaxCmds \in Nat /\ MaxFaults \in Nat
    /\ Fault \subseteq FaultKind

VARIABLES
    \* the PBX and the phone behind it
    phone,      \* off, idle, ring, talk (an answered call), meeting or prompt (the file)
    requests,   \* HTTP requests on their way to the PBX, on connections of their own
    reports,    \* statuses on their way back (events and answers to queries)
    \* Extension
    status,     \* data.status_int
    preStatus,  \* data.preStatus
    entering,   \* autoEnter has passed its checks and will dial
    isAutoEnter, \* the box "enter the meeting" is ticked
    \* zchxVHFAudioPlayThread; it exists (mAudioPlayThread # 0) unless pc = "none"
    pc,
    t,          \* polls since the last reset of the local t
    changed,    \* its local status_change
    playend,    \* its local playend
    \* RelayController, the link and the relay
    cmds,       \* commands queued for the thread of the RelayController
    link,       \* isConnected
    mStatus,    \* On, Off or Unavailable
    answer,     \* the relay's answer to a status request, on its way ({} or {x})
    relay,      \* the contact is closed: the station transmits
    \* the operator
    tx,         \* mIsTxPressed
    \* history
    last,       \* the last command sent to the RelayController, and by whom
    skipped,    \* TX was released without a close command, and none followed
    gaveUp,     \* some play thread stopped polling because its time was over
    dropped,    \* the last command the RelayController took met no connection
    talked,     \* a call was answered during this play, or is still to be reported
    happened,   \* the faults there were
    plays, clicks, faults

phoneVars == <<phone, requests, reports>>
extVars   == <<status, preStatus, entering, isAutoEnter>>
playVars  == <<pc, t, changed, playend, gaveUp>>
relayVars == <<cmds, link, mStatus, answer, relay, last, dropped>>
pastVars  == <<talked, happened, plays, clicks, faults>>
vars == <<phoneVars, extVars, playVars, relayVars, tx, skipped, pastVars>>

Status == {"Unavailable", "Register", "Ringing", "Busy"}
Phone  == {"off", "idle", "ring", "talk", "meeting", "prompt"}
Req    == {"hangup", "dial", "prompt", "query"}
PC     == {"none", "run", "hangup", "idlewait", "open", "waiton", "poll", "close",
           "waitoff", "done"}

\* A faulty StatusOf: the word of the PBX itself.
WordOf(p) == p

\* Extension::setStatus of the word the PBX uses for a phone.
StatusOf(p) == CASE p = "off" -> "Unavailable"
                 [] p = "idle" -> "Register"
                 [] p = "ring" -> "Ringing"
                 [] OTHER -> "Busy"

\* isPlayAudio, and the isPlayingAudio flags of the extension and the relay,
\* which playAudio and slotFinishedAudioPlay set with it.
isPlayAudio == pc # "none"

Fails(kind) ==
    /\ kind \in Fault /\ faults < MaxFaults
    /\ faults' = faults + 1 /\ happened' = happened \cup {kind}

\* Extension::dial_up_outto and hang_up: nothing is sent for a phone that is
\* believed to be offline.
Requested(op) == IF status = "Unavailable" THEN requests ELSE requests \cup {op}

\* send_set_status_command(c, 0): the command is queued for the socket.  A close
\* command makes up for one that was skipped.
SendCommand(c, who) ==
    /\ cmds' = Append(cmds, c)
    /\ last' = [cmd |-> c, by |-> who]
    /\ UNCHANGED <<link, mStatus, answer, relay, dropped>>

Init ==
    /\ phone \in {"idle", "meeting"} /\ (phone = "meeting" => MeetingAvailable)
    /\ requests = {} /\ reports = <<>>
    /\ status = StatusOf(phone) /\ preStatus = "Unavailable" /\ entering = FALSE
    /\ isAutoEnter \in AutoEnter
    /\ pc = "none" /\ t = 0 /\ changed = FALSE /\ playend = 0 /\ gaveUp = FALSE
    /\ cmds = <<>> /\ link = TRUE /\ mStatus = "Off" /\ answer = {} /\ relay = FALSE
    /\ tx = FALSE
    /\ last = [cmd |-> 0, by |-> "none"] /\ skipped = FALSE /\ dropped = FALSE
    /\ talked = FALSE /\ happened = {} /\ plays = 0 /\ clicks = 0 /\ faults = 0

-----------------------------------------------------------------------------
(* The GUI thread *)

\* PromptVideo -> playAudio: one thread at a time, none for an offline phone.
PlayAudio ==
    /\ plays < MaxPlays /\ plays' = plays + 1
    /\ ~isPlayAudio /\ status # "Unavailable"
    /\ pc' = "run"
    /\ talked' = (talked /\ (phone = "talk" \/ "Busy" \in Range(reports)))
    /\ UNCHANGED <<phoneVars, extVars, t, changed, playend, gaveUp, relayVars, tx, skipped,
                   happened, clicks, faults>>

\* A faulty FinishedAudioPlay: preStatus is reset before it is looked at.
FinishedAfterReset ==
    /\ pc = "done"
    /\ pc' = "none"
    /\ preStatus' = "Unavailable"
    /\ UNCHANGED <<phoneVars, status, entering, isAutoEnter, t, changed, playend, gaveUp,
                   relayVars, tx, skipped, pastVars>>

\* slotFinishedAudioPlay: the thread is deleted; a phone that was taken out of
\* the meeting dials in again.
FinishedAudioPlay ==
    /\ pc = "done"
    /\ pc' = "none"
    /\ requests' = IF preStatus = "Busy" /\ MeetingAvailable THEN Requested("dial")
                                                             ELSE requests
    /\ preStatus' = "Unavailable"
    /\ UNCHANGED <<phone, reports, status, entering, isAutoEnter, t, changed, playend, gaveUp,
                   relayVars, tx, skipped, pastVars>>

Acts == clicks < MaxClicks /\ clicks' = clicks + 1 /\ Len(cmds) < MaxCmds

\* OnTxButtonPressed; the button is enabled while the relay is connected.
TxPressed ==
    /\ ~tx /\ mStatus # "Unavailable" /\ Acts
    /\ tx' = TRUE
    /\ SendCommand(1, "tx")
    /\ UNCHANGED <<phoneVars, extVars, playVars, skipped, talked, happened, plays, faults>>

\* A faulty KeepsOpen: the play thread is forgotten.
KeepsOpenForTx == tx'

\* closeRelayControl: neither the operator nor a play thread may lose the relay.
KeepsOpen == tx' \/ isPlayAudio

\* OnTxButtonReleased
TxReleased ==
    /\ tx /\ tx' = FALSE
    /\ \/ /\ ~KeepsOpen
          /\ SendCommand(0, "tx") /\ skipped' = FALSE
       \/ /\ KeepsOpen
          /\ skipped' = TRUE /\ UNCHANGED relayVars
    /\ UNCHANGED <<phoneVars, extVars, playVars, pastVars>>

\* slotCloseRelay from the close button.
CloseRelay ==
    /\ CloseButton /\ Acts
    /\ SendCommand(0, "button") /\ skipped' = FALSE
    /\ UNCHANGED <<phoneVars, extVars, playVars, tx, talked, happened, plays, faults>>

\* OnRxButtonClicked: the button is toggled by each click and set by each refresh,
\* so that it may ask for either call whatever the phone does.
RxClicked ==
    /\ MeetingAvailable /\ status # "Unavailable" /\ Acts
    /\ \E op \in {"dial", "hangup"} : requests' = Requested(op)
    /\ UNCHANGED <<phone, reports, extVars, playVars, relayVars, tx, skipped, talked, happened, plays,
                   faults>>

\* slot_extension_status_changed
StatusChanged ==
    /\ \E i \in DOMAIN reports :
          /\ InOrder => i = 1
          /\ status' = reports[i] /\ reports' = RemoveAt(reports, i)
    /\ UNCHANGED <<phone, requests, preStatus, entering, isAutoEnter, playVars, relayVars, tx,
                   skipped, pastVars>>

-----------------------------------------------------------------------------
(* The thread of the Extension *)

\* autoEnter, every AUTO_ENTER_TIMER: the checks,
AutoEnterCheck ==
    /\ MeetingAvailable /\ isAutoEnter /\ ~entering
    /\ ~isPlayAudio /\ status = "Register"
    /\ entering' = TRUE
    /\ UNCHANGED <<phoneVars, status, preStatus, isAutoEnter, playVars, relayVars, tx, skipped,
                   pastVars>>

\* and the call, while the other threads go on.
AutoEnterDial ==
    /\ entering /\ entering' = FALSE
    /\ requests' = Requested("dial")
    /\ UNCHANGED <<phone, reports, status, preStatus, isAutoEnter, playVars, relayVars, tx,
                   skipped, pastVars>>

-----------------------------------------------------------------------------
(* zchxVHFAudioPlayThread::run *)

GoesTo(next) == pc' = next /\ t' = 0

\* The status decides: out of the meeting first, nothing at all, or on with it.
RunBegins ==
    /\ pc = "run"
    /\ \/ status = "Busy" /\ preStatus' = "Busy" /\ pc' = "hangup"
       \/ status = "Unavailable" /\ pc' = "done" /\ UNCHANGED preStatus
       \/ status \in {"Register", "Ringing"} /\ pc' = "open" /\ UNCHANGED preStatus
    /\ UNCHANGED <<phoneVars, status, entering, isAutoEnter, t, changed, playend, gaveUp,
                   relayVars, tx, skipped, pastVars>>

HangUp ==
    /\ pc = "hangup" /\ pc' = "idlewait"
    /\ requests' = Requested("hangup")
    /\ UNCHANGED <<phone, reports, extVars, t, changed, playend, gaveUp, relayVars, tx, skipped,
                   pastVars>>

\* There is no timeout on this wait, and it asks for no report.
IdleSeen ==
    /\ pc = "idlewait" /\ status = "Register"
    /\ pc' = "open"
    /\ UNCHANGED <<phoneVars, extVars, t, changed, playend, gaveUp, relayVars, tx, skipped, pastVars>>

OpenRelay ==
    /\ pc = "open" /\ GoesTo("waiton")
    /\ SendCommand(1, "play")
    /\ UNCHANGED <<phoneVars, extVars, changed, playend, gaveUp, tx, skipped, pastVars>>

\* The relay is on, or is taken to be on after the timeout: signalPrompt.
WaitOn ==
    /\ pc = "waiton"
    /\ IF mStatus = "On" \/ t >= Timeout
       THEN /\ GoesTo("poll") /\ changed' = FALSE /\ playend' = 0
            /\ requests' = requests \cup {"prompt"}
       ELSE t' = t + 1 /\ UNCHANGED <<pc, changed, playend, requests>>
    /\ UNCHANGED <<gaveUp, phone, reports, extVars, relayVars, tx, skipped, pastVars>>

\* A faulty CountsAsEnd: the file need not have started.
CountsWhenIdle == status = "Register"

\* An idle phone after a busy one: the file may be over.
CountsAsEnd == changed /\ status = "Register"

\* One turn of the loop: ask for a report, look at the status there is, hang up
\* and give up when the time is over.
Poll ==
    /\ pc = "poll"
    /\ changed' = (changed \/ status = "Busy")
    /\ playend' = IF status = "Busy" THEN 0 ELSE IF CountsAsEnd THEN playend + 1 ELSE playend
    /\ LET over  == CountsAsEnd /\ playend' >= EndPolls
           asked == requests \cup {"query"}
       IN \/ /\ over
             /\ requests' = asked /\ GoesTo("close") /\ UNCHANGED gaveUp
          \/ /\ ~over /\ t >= Timeout
             /\ requests' = asked \cup Requested("hangup") /\ GoesTo("close")
             /\ gaveUp' = TRUE
          \/ /\ ~over /\ t < Timeout
             /\ requests' = asked /\ t' = t + 1 /\ UNCHANGED <<pc, gaveUp>>
    /\ UNCHANGED <<phone, reports, extVars, relayVars, tx, skipped, pastVars>>

\* A faulty CloseAfterPlay: the relay is left as it is.
LeaveAfterPlay ==
    /\ pc = "close" /\ GoesTo("waitoff")
    /\ UNCHANGED <<phoneVars, extVars, changed, playend, gaveUp, relayVars, skipped, tx,
                   pastVars>>

\* The relay is closed whoever else keeps it open.
CloseAfterPlay ==
    /\ pc = "close" /\ GoesTo("waitoff")
    /\ SendCommand(0, "play") /\ skipped' = FALSE
    /\ UNCHANGED <<phoneVars, extVars, changed, playend, gaveUp, tx, pastVars>>

\* A faulty WaitOff: it waits for the answer of the relay only.
WaitOffForEver ==
    /\ pc = "waitoff" /\ mStatus = "Off" /\ pc' = "done"
    /\ UNCHANGED <<phoneVars, extVars, t, changed, playend, gaveUp, relayVars, tx, skipped,
                   pastVars>>

\* The relay is off, or is told once more after the timeout.
WaitOff ==
    /\ pc = "waitoff"
    /\ \/ mStatus = "Off" /\ pc' = "done" /\ UNCHANGED <<t, relayVars, skipped>>
       \/ /\ mStatus # "Off" /\ t >= Timeout
          /\ pc' = "done" /\ SendCommand(0, "play") /\ skipped' = FALSE
          /\ UNCHANGED t
       \/ /\ mStatus # "Off" /\ t < Timeout
          /\ t' = t + 1 /\ UNCHANGED <<pc, relayVars, skipped>>
    /\ UNCHANGED <<phoneVars, extVars, changed, playend, gaveUp, tx, pastVars>>

-----------------------------------------------------------------------------
(* The thread of the RelayController *)

\* TcpSocket::SendData: a command without a connection is dropped silently.
SendData ==
    /\ cmds # <<>> /\ cmds' = Tail(cmds)
    /\ dropped' = ~link
    /\ relay' = IF link THEN Head(cmds) = 1 ELSE relay
    /\ UNCHANGED <<phoneVars, extVars, playVars, link, mStatus, answer, last, tx, skipped,
                   pastVars>>

\* send_test_command: the relay answers with the state it is in,
HeartBeat ==
    /\ link /\ answer = {}
    /\ answer' = {IF relay THEN "On" ELSE "Off"}
    /\ UNCHANGED <<phoneVars, extVars, playVars, cmds, link, mStatus, relay, last, dropped,
                   tx, skipped, pastVars>>

\* and slotRecvData believes it.
RecvData ==
    /\ \E s \in answer : mStatus' = s
    /\ answer' = {}
    /\ UNCHANGED <<phoneVars, extVars, playVars, cmds, link, relay, last, dropped, tx,
                   skipped, pastVars>>

\* RelayDisConnected; the contact stays as it is.
RelayDisConnected ==
    /\ link /\ Fails("link")
    /\ link' = FALSE /\ mStatus' = "Unavailable" /\ answer' = {}
    /\ UNCHANGED <<phoneVars, extVars, playVars, cmds, relay, last, dropped, tx, skipped,
                   talked, plays, clicks>>

\* socket_connect succeeds -> RelayConnected: the relay is taken to be off.
RelayConnected ==
    /\ ~link
    /\ link' = TRUE /\ mStatus' = "Off"
    /\ UNCHANGED <<phoneVars, extVars, playVars, cmds, answer, relay, last, dropped, tx,
                   skipped, pastVars>>

-----------------------------------------------------------------------------
(* The PBX *)

\* The phone goes to state p, and the PBX reports it.  A report that repeats the
\* one before it changes nothing, so they count as one.
PhoneGoesTo(p) ==
    /\ phone' = p
    /\ reports' = IF reports # <<>> /\ Last(reports) = StatusOf(p) THEN reports
                  ELSE Append(reports, StatusOf(p))

\* A request is carried out.  Requests travel on connections of their own, so
\* any of them may be the next one.
Serve ==
    /\ \E r \in requests :
          /\ requests' = requests \ {r}
          /\ \/ r = "hangup" /\ phone \in {"ring", "talk", "meeting", "prompt"}
                   /\ PhoneGoesTo("idle")
             \/ r = "dial" /\ phone = "idle" /\ PhoneGoesTo("meeting")
             \/ r = "prompt" /\ phone = "idle" /\ PhoneGoesTo("prompt")
             \/ r = "query" /\ PhoneGoesTo(phone)
             \/ /\ \/ r = "hangup" /\ phone \in {"off", "idle"}
                   \/ r \in {"dial", "prompt"} /\ phone # "idle"
                /\ UNCHANGED <<phone, reports>>
    /\ UNCHANGED <<extVars, playVars, relayVars, tx, skipped, pastVars>>

\* The file is over, or the caller of an incoming call hangs up.
CallEnds ==
    /\ phone \in {"prompt", "ring", "talk"} /\ PhoneGoesTo("idle")
    /\ UNCHANGED <<requests, extVars, playVars, relayVars, tx, skipped, pastVars>>

\* Somebody calls this phone.
IncomingCall ==
    /\ phone = "idle" /\ Fails("call") /\ PhoneGoesTo("ring")
    /\ UNCHANGED <<requests, extVars, playVars, relayVars, tx, skipped, talked, plays,
                   clicks>>

\* Somebody at the station answers: the phone is as busy as when it plays a file.
CallAnswered ==
    /\ phone = "ring" /\ PhoneGoesTo("talk")
    /\ talked' = TRUE
    /\ UNCHANGED <<requests, extVars, playVars, relayVars, tx, skipped, happened, plays, clicks,
                   faults>>

\* The phone loses its registration, and registers again.
PhoneOff ==
    /\ phone # "off" /\ Fails("phone") /\ PhoneGoesTo("off")
    /\ UNCHANGED <<requests, extVars, playVars, relayVars, tx, skipped, talked, plays,
                   clicks>>

PhoneOn ==
    /\ phone = "off" /\ PhoneGoesTo("idle")
    /\ UNCHANGED <<requests, extVars, playVars, relayVars, tx, skipped, pastVars>>

\* A request is lost (no session, a network error), or a report is.
LoseRequest ==
    /\ Fails("request")
    /\ \E r \in requests : requests' = requests \ {r}
    /\ UNCHANGED <<phone, reports, extVars, playVars, relayVars, tx, skipped, talked, plays,
                   clicks>>

LoseReport ==
    /\ Fails("report")
    /\ \E i \in DOMAIN reports : reports' = RemoveAt(reports, i)
    /\ UNCHANGED <<phone, requests, extVars, playVars, relayVars, tx, skipped, talked, plays,
                   clicks>>

-----------------------------------------------------------------------------
Operator   == PlayAudio \/ TxPressed \/ TxReleased \/ CloseRelay \/ RxClicked
PlayThread == \/ RunBegins \/ HangUp \/ IdleSeen \/ OpenRelay \/ WaitOn \/ Poll
              \/ CloseAfterPlay \/ WaitOff
Relay      == SendData \/ HeartBeat \/ RecvData \/ RelayDisConnected \/ RelayConnected
Pbx        == \/ Serve \/ CallEnds \/ IncomingCall \/ CallAnswered \/ PhoneOff \/ PhoneOn
              \/ LoseRequest \/ LoseReport

Next == \/ Operator \/ FinishedAudioPlay \/ StatusChanged
        \/ AutoEnterCheck \/ AutoEnterDial
        \/ PlayThread \/ Relay \/ Pbx

Spec == Init /\ [][Next]_vars

\* Every thread that is not blocked goes on, queued signals arrive, timers fire, the
\* PBX answers, calls end and phones come back.  Nothing is assumed of the operator,
\* of the faults or of the relay, for which the play thread waits with a timeout.
Fairness ==
    /\ WF_vars(PlayThread) /\ SF_vars(IdleSeen) /\ WF_vars(FinishedAudioPlay)
    /\ WF_vars(StatusChanged)
    /\ \A r \in Req : WF_vars(Serve /\ r \in requests /\ r \notin requests')
    /\ SF_vars(AutoEnterCheck) /\ WF_vars(AutoEnterDial)
    /\ WF_vars(CallEnds) /\ WF_vars(PhoneOn)

FairSpec == Spec /\ Fairness

-----------------------------------------------------------------------------
(* Properties *)

Command == [cmd : {0, 1}, by : {"none", "tx", "play", "button"}]

\* Every variable holds a value of its type.
TypeOK ==
    /\ phone \in Phone /\ requests \subseteq Req /\ reports \in Seq(Status)
    /\ status \in Status /\ preStatus \in {"Unavailable", "Busy"} /\ entering \in BOOLEAN
    /\ isAutoEnter \in AutoEnter
    /\ pc \in PC /\ t \in 0..Timeout /\ changed \in BOOLEAN /\ playend \in 0..EndPolls
    /\ gaveUp \in BOOLEAN
    /\ cmds \in Seq({0, 1}) /\ link \in BOOLEAN
    /\ mStatus \in {"On", "Off", "Unavailable"} /\ answer \subseteq {"On", "Off"}
    /\ relay \in BOOLEAN /\ tx \in BOOLEAN
    /\ last \in Command /\ skipped \in BOOLEAN /\ dropped \in BOOLEAN
    /\ talked \in BOOLEAN /\ happened \subseteq FaultKind
    /\ plays \in Nat /\ clicks \in Nat /\ faults \in Nat

\* The play thread has opened the relay and has not closed it yet.
HoldsRelay == pc \in {"waiton", "poll", "close"}

\* While the play thread counts on the relay nobody but the close button closes
\* it: the GUI thread leaves the relay alone from before the thread is started
\* until after it is deleted (closeRelayControl, playAudio, slotFinishedAudioPlay).
KeyedDuringPlay == HoldsRelay => last.cmd = 1 \/ last.by = "button"

\* When the commands are carried out the station transmits only for the operator
\* or for the play thread, or because a release of TX sent no command, or because
\* the link was down when the last command was to be sent.
KeyedForAReason ==
    relay /\ cmds = <<>> => tx \/ HoldsRelay \/ skipped \/ dropped

\* Somebody may have made the phone dial: the operator, the automatic entering, or
\* the end of an earlier play that took the phone out of the meeting.
Dialled == clicks > 0 \/ isAutoEnter \/ plays > 1

\* A thread that sees its play end is right while reports keep their order: no
\* prompt plays on, with the relay closed, unless a thread gave up after the
\* timeout, or another call passed for the prompt: one the client dialled, or one
\* that was answered at the station during the play or not long before it.
EndIsSeen == InOrder /\ phone = "prompt" /\ ~isPlayAudio => gaveUp \/ Dialled \/ talked

\* A play ends, unless it waits for an idle phone (run, first loop) when neither
\* the request to hang up nor any report is on its way any more.
Starved == pc = "idlewait" /\ "hangup" \notin requests /\ reports = <<>> /\ status # "Register"
PlayEnds == isPlayAudio ~> (~isPlayAudio \/ Starved)

\* A phone that a broadcast takes out of the meeting comes back to it, unless a
\* request or a report was lost.  Without the automatic entering that is up to
\* slotFinishedAudioPlay alone, which calls once: the PBX refuses while a file plays
\* on that the thread gave up or while somebody else calls, and a phone that is off
\* is not asked at all.
RejoinsMeeting ==
    (preStatus = "Busy") ~> \/ phone = "meeting"
                            \/ happened \cap {"request", "report"} # {}
                            \/ ~isAutoEnter /\ (gaveUp \/ happened \cap {"call", "phone"} # {})

\* zchxvhfaudioplaythread.cpp:104 says the relay is closed in the end: with the
\* play over and TX released, the last command is a close.
RelayIsClosedLast == ~isPlayAudio /\ ~tx => last.cmd = 0
=============================================================================
