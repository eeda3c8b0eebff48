-------------------------- MODULE AudioPlay_proofs --------------------------
(***************************************************************************)
(* Proofs about AudioPlay: the relay stays keyed while a file plays, it is *)
(* keyed for a reason otherwise, and a play that is seen to end has ended, *)
(* for any timeout, any number of plays, clicks and faults.                *)
(***************************************************************************)
EXTENDS AudioPlay, QueueLemmas, TLAPS

\* The loop of the thread goes on only until EndPolls idle polls are counted.
EndIsCounted == pc = "poll" => playend < EndPolls

\* The queue of the RelayController ends with the last command sent.
LastIsQueued == cmds # <<>> => cmds[Len(cmds)] = last.cmd

\* Where no command waits, the contact obeys the last one, unless it was dropped.
RelayObeys == cmds = <<>> /\ ~dropped /\ relay => last.cmd = 1

\* Who opened the relay last holds it, or let it go without a command.
OpenHasReason == last.cmd = 1 => tx \/ HoldsRelay \/ skipped

KInv ==
    /\ TypeOK /\ EndIsCounted /\ LastIsQueued /\ RelayObeys /\ OpenHasReason
    /\ KeyedDuringPlay

-----------------------------------------------------------------------------
(* Types, one part of the state at a time *)

PhoneOK == phone \in Phone /\ requests \subseteq Req /\ reports \in Seq(Status)
ExtOK   == status \in Status /\ preStatus \in {"Unavailable", "Busy"} /\ entering \in BOOLEAN
           /\ isAutoEnter \in AutoEnter
PlayOK  == /\ pc \in PC /\ t \in 0..Timeout /\ changed \in BOOLEAN /\ playend \in 0..EndPolls
           /\ gaveUp \in BOOLEAN
RelayOK == /\ cmds \in Seq({0, 1}) /\ link \in BOOLEAN
           /\ mStatus \in {"On", "Off", "Unavailable"} /\ answer \subseteq {"On", "Off"}
           /\ relay \in BOOLEAN /\ last \in Command /\ dropped \in BOOLEAN
RestOK  == /\ tx \in BOOLEAN /\ skipped \in BOOLEAN
           /\ talked \in BOOLEAN /\ happened \subseteq FaultKind
           /\ plays \in Nat /\ clicks \in Nat /\ faults \in Nat

LEMMA Parts == TypeOK <=> PhoneOK /\ ExtOK /\ PlayOK /\ RelayOK /\ RestOK
    BY DEF TypeOK, PhoneOK, ExtOK, PlayOK, RelayOK, RestOK

\* The word of the PBX for a phone is a status of the extension.
LEMMA StatusType == \A p \in Phone : StatusOf(p) \in Status
    BY DEF StatusOf, Status, Phone

\* The next state relation, action by action.
LEMMA Steps ==
    ASSUME Next
    PROVE  \/ PlayAudio \/ FinishedAudioPlay \/ TxPressed \/ TxReleased \/ CloseRelay \/ RxClicked
           \/ StatusChanged \/ AutoEnterCheck \/ AutoEnterDial
           \/ RunBegins \/ HangUp \/ IdleSeen \/ OpenRelay \/ WaitOn \/ Poll \/ CloseAfterPlay \/ WaitOff
           \/ SendData \/ HeartBeat \/ RecvData \/ RelayDisConnected \/ RelayConnected
           \/ Serve \/ CallEnds \/ IncomingCall \/ CallAnswered \/ PhoneOff \/ PhoneOn \/ LoseRequest \/ LoseReport
    BY DEF Next, Operator, PlayThread, Relay, Pbx

\* The actions that change each part.
LEMMA PhoneSteps ==
    ASSUME [Next]_vars
    PROVE  \/ FinishedAudioPlay \/ RxClicked \/ StatusChanged \/ AutoEnterDial \/ HangUp \/ WaitOn \/ Poll
           \/ Serve \/ CallEnds \/ IncomingCall \/ CallAnswered \/ PhoneOff \/ PhoneOn \/ LoseRequest \/ LoseReport
           \/ UNCHANGED phoneVars
<1>1. PlayAudio \/ TxPressed \/ TxReleased \/ CloseRelay \/ AutoEnterCheck \/ RunBegins \/ IdleSeen
      \/ OpenRelay \/ CloseAfterPlay \/ WaitOff \/ SendData \/ HeartBeat \/ RecvData
      \/ RelayDisConnected \/ RelayConnected \/ UNCHANGED vars
        => UNCHANGED phoneVars
    BY DEF PlayAudio, TxPressed, TxReleased, CloseRelay, AutoEnterCheck, RunBegins, IdleSeen,
           OpenRelay, CloseAfterPlay, WaitOff, SendData, HeartBeat, RecvData, RelayDisConnected,
           RelayConnected, vars
<1> QED
    BY <1>1, Steps

LEMMA ExtSteps ==
    ASSUME [Next]_vars
    PROVE  \/ FinishedAudioPlay \/ StatusChanged \/ AutoEnterCheck \/ AutoEnterDial \/ RunBegins
           \/ UNCHANGED extVars
<1>1. PlayAudio \/ TxPressed \/ TxReleased \/ CloseRelay \/ RxClicked \/ HangUp \/ IdleSeen
      \/ OpenRelay \/ WaitOn \/ Poll \/ CloseAfterPlay \/ WaitOff \/ SendData \/ HeartBeat \/ RecvData
      \/ RelayDisConnected \/ RelayConnected \/ Serve \/ CallEnds \/ IncomingCall \/ CallAnswered \/ PhoneOff
      \/ PhoneOn \/ LoseRequest \/ LoseReport \/ UNCHANGED vars
        => UNCHANGED extVars
    BY DEF PlayAudio, TxPressed, TxReleased, CloseRelay, RxClicked, HangUp, IdleSeen,
           OpenRelay, WaitOn, Poll, CloseAfterPlay, WaitOff, SendData, HeartBeat, RecvData,
           RelayDisConnected, RelayConnected, Serve, CallEnds, IncomingCall, CallAnswered, PhoneOff, PhoneOn,
           LoseRequest, LoseReport, vars
<1> QED
    BY <1>1, Steps

LEMMA PlaySteps ==
    ASSUME [Next]_vars
    PROVE  \/ PlayAudio \/ FinishedAudioPlay \/ RunBegins \/ HangUp \/ IdleSeen \/ OpenRelay
           \/ WaitOn \/ Poll \/ CloseAfterPlay \/ WaitOff \/ UNCHANGED playVars
<1>1. TxPressed \/ TxReleased \/ CloseRelay \/ RxClicked \/ StatusChanged \/ AutoEnterCheck
      \/ AutoEnterDial \/ SendData \/ HeartBeat \/ RecvData
      \/ RelayDisConnected \/ RelayConnected \/ Serve \/ CallEnds \/ IncomingCall \/ CallAnswered \/ PhoneOff
      \/ PhoneOn \/ LoseRequest \/ LoseReport \/ UNCHANGED vars
        => UNCHANGED playVars
    BY DEF TxPressed, TxReleased, CloseRelay, RxClicked, StatusChanged, AutoEnterCheck,
           AutoEnterDial, SendData, HeartBeat, RecvData,
           RelayDisConnected, RelayConnected, Serve, CallEnds, IncomingCall, CallAnswered, PhoneOff, PhoneOn,
           LoseRequest, LoseReport, vars
<1> QED
    BY <1>1, Steps

LEMMA RelaySteps ==
    ASSUME [Next]_vars
    PROVE  \/ TxPressed \/ TxReleased \/ CloseRelay \/ OpenRelay \/ CloseAfterPlay \/ WaitOff
           \/ SendData \/ HeartBeat \/ RecvData \/ RelayDisConnected \/ RelayConnected
           \/ UNCHANGED relayVars
<1>1. PlayAudio \/ FinishedAudioPlay \/ RxClicked \/ StatusChanged \/ AutoEnterCheck
      \/ AutoEnterDial \/ RunBegins \/ HangUp \/ IdleSeen \/ WaitOn \/ Poll
      \/ Serve \/ CallEnds \/ IncomingCall \/ CallAnswered \/ PhoneOff
      \/ PhoneOn \/ LoseRequest \/ LoseReport \/ UNCHANGED vars
        => UNCHANGED relayVars
    BY DEF PlayAudio, FinishedAudioPlay, RxClicked, StatusChanged, AutoEnterCheck,
           AutoEnterDial, RunBegins, HangUp, IdleSeen, WaitOn, Poll, Serve, CallEnds, IncomingCall,
           CallAnswered, PhoneOff, PhoneOn, LoseRequest, LoseReport, vars
<1> QED
    BY <1>1, Steps

LEMMA RestStep == RestOK /\ [Next]_vars => RestOK'
<1> SUFFICES ASSUME RestOK, [Next]_vars PROVE RestOK'
    OBVIOUS
<1> USE DEF pastVars
<1>1. CASE PlayAudio \/ TxPressed \/ TxReleased \/ CloseRelay \/ RxClicked
    <2>1. clicks' \in {clicks, clicks + 1} /\ plays' \in {plays, plays + 1} /\ faults' = faults
        BY <1>1 DEF PlayAudio, TxPressed, TxReleased, CloseRelay, RxClicked, Acts
    <2>2. tx' \in BOOLEAN
        BY <1>1 DEF PlayAudio, TxPressed, TxReleased, CloseRelay, RxClicked, RestOK
    <2>3. skipped' \in BOOLEAN
        BY <1>1 DEF PlayAudio, TxPressed, TxReleased, CloseRelay, RxClicked, RestOK
    <2>4. talked' \in BOOLEAN
        BY <1>1 DEF PlayAudio, TxPressed, TxReleased, CloseRelay, RxClicked, RestOK
    <2>5. happened' = happened
        BY <1>1 DEF PlayAudio, TxPressed, TxReleased, CloseRelay, RxClicked
    <2> QED
        BY <2>1, <2>2, <2>3, <2>4, <2>5 DEF RestOK
<1>2. CASE RelayDisConnected \/ IncomingCall \/ PhoneOff \/ LoseRequest \/ LoseReport
    <2>1. UNCHANGED <<tx, skipped, talked, plays, clicks>>
        BY <1>2 DEF RelayDisConnected, IncomingCall, PhoneOff, LoseRequest, LoseReport
    <2>2. \E kind \in FaultKind : Fails(kind)
        BY <1>2 DEF RelayDisConnected, IncomingCall, PhoneOff, LoseRequest, LoseReport, FaultKind
    <2>3. faults' = faults + 1 /\ happened' \subseteq FaultKind
        BY <2>2 DEF Fails, RestOK
    <2> QED
        BY <2>1, <2>3 DEF RestOK
<1>5. CASE CallAnswered
    BY <1>5 DEF CallAnswered, RestOK
<1>3. CASE CloseAfterPlay \/ WaitOff
    BY <1>3 DEF CloseAfterPlay, WaitOff, RestOK
<1>4. FinishedAudioPlay \/ StatusChanged \/ AutoEnterCheck
      \/ AutoEnterDial \/ RunBegins \/ HangUp \/ IdleSeen \/ OpenRelay \/ WaitOn \/ Poll
      \/ SendData \/ HeartBeat \/ RecvData \/ RelayConnected \/ Serve \/ CallEnds \/ PhoneOn
      \/ UNCHANGED vars
        => UNCHANGED <<tx, skipped, pastVars>>
    BY DEF FinishedAudioPlay, StatusChanged, AutoEnterCheck,
           AutoEnterDial, RunBegins, HangUp, IdleSeen, OpenRelay, WaitOn, Poll, SendData, HeartBeat,
           RecvData, RelayConnected, Serve, CallEnds, PhoneOn, vars
<1> QED
    BY <1>1, <1>2, <1>3, <1>4, <1>5, Steps DEF RestOK

LEMMA PlayStep == PlayOK /\ EndIsCounted /\ [Next]_vars => PlayOK' /\ EndIsCounted'
<1> SUFFICES ASSUME PlayOK, EndIsCounted, [Next]_vars PROVE PlayOK' /\ EndIsCounted'
    OBVIOUS
<1> USE DEF playVars
<1>0. Timeout \in Nat /\ EndPolls \in Nat \ {0} /\ 0 \in 0..Timeout /\ 0 \in 0..EndPolls /\ 0 < EndPolls
    BY BoundAssumption
<1>1. CASE PlayAudio \/ FinishedAudioPlay \/ RunBegins \/ HangUp \/ IdleSeen
    BY <1>1 DEF PlayAudio, FinishedAudioPlay, RunBegins, HangUp, IdleSeen, PlayOK, EndIsCounted, PC
<1>2. CASE OpenRelay \/ CloseAfterPlay
    BY <1>0, <1>2 DEF OpenRelay, CloseAfterPlay, GoesTo, PlayOK, EndIsCounted, PC
<1>3. CASE WaitOn
    <2>1. CASE GoesTo("poll") /\ changed' = FALSE /\ playend' = 0
        BY <1>0, <1>3, <2>1 DEF WaitOn, GoesTo, PlayOK, EndIsCounted, PC
    <2>2. CASE t < Timeout /\ t' = t + 1 /\ UNCHANGED <<pc, changed, playend>>
        BY <1>0, <1>3, <2>2 DEF WaitOn, PlayOK, EndIsCounted, PC
    <2>3. t \in Nat
        BY DEF PlayOK
    <2>4. CASE mStatus = "On" \/ t >= Timeout
        BY <1>3, <2>1, <2>4 DEF WaitOn
    <2>5. CASE ~(mStatus = "On" \/ t >= Timeout)
        <3>1. t < Timeout
            BY <1>0, <2>3, <2>5
        <3> QED
            BY <1>3, <2>2, <2>5, <3>1 DEF WaitOn
    <2> QED
        BY <2>4, <2>5
<1>4. CASE Poll
    <2>1. pc = "poll" /\ playend \in Nat /\ playend < EndPolls /\ changed' \in BOOLEAN
        BY <1>4 DEF Poll, PlayOK, EndIsCounted
    <2>2. playend' \in 0..EndPolls /\ (playend' < EndPolls \/ (CountsAsEnd /\ playend' >= EndPolls))
        <3>1. playend' = IF status = "Busy" THEN 0 ELSE IF CountsAsEnd THEN playend + 1 ELSE playend
            BY <1>4 DEF Poll
        <3>2. CASE status = "Busy"
            BY <1>0, <3>1, <3>2
        <3>3. CASE status # "Busy" /\ CountsAsEnd
            BY <1>0, <2>1, <3>1, <3>3
        <3>4. CASE status # "Busy" /\ ~CountsAsEnd
            BY <1>0, <2>1, <3>1, <3>4
        <3> QED
            BY <3>2, <3>3, <3>4
    <2>3. CASE GoesTo("close") /\ gaveUp' \in BOOLEAN
        BY <1>0, <2>1, <2>2, <2>3 DEF GoesTo, PlayOK, EndIsCounted, PC
    <2>4. CASE ~(CountsAsEnd /\ playend' >= EndPolls) /\ t < Timeout /\ t' = t + 1 /\ UNCHANGED <<pc, gaveUp>>
        BY <1>0, <2>1, <2>2, <2>4 DEF PlayOK, EndIsCounted, PC
    <2> QED
        BY <1>4, <2>3, <2>4 DEF Poll, PlayOK
<1>5. CASE WaitOff
    BY <1>0, <1>5 DEF WaitOff, PlayOK, EndIsCounted, PC
<1>6. CASE UNCHANGED playVars
    BY <1>6 DEF PlayOK, EndIsCounted
<1> QED
    BY <1>1, <1>2, <1>3, <1>4, <1>5, <1>6, PlaySteps

LEMMA ExtStep == PhoneOK /\ ExtOK /\ [Next]_vars => ExtOK'
<1> SUFFICES ASSUME PhoneOK, ExtOK, [Next]_vars PROVE ExtOK'
    OBVIOUS
<1> USE DEF extVars
<1>1. CASE FinishedAudioPlay \/ AutoEnterCheck \/ AutoEnterDial \/ RunBegins
    BY <1>1 DEF FinishedAudioPlay, AutoEnterCheck, AutoEnterDial, RunBegins, ExtOK
<1>2. CASE StatusChanged
    <2>1. status' \in Status
        BY <1>2, QueueRemove DEF StatusChanged, PhoneOK
    <2> QED
        BY <1>2, <2>1 DEF StatusChanged, ExtOK
<1> QED
    BY <1>1, <1>2, ExtSteps DEF ExtOK

\* A phone that changes is reported, or was reported already.
LEMMA PhoneGoesFacts ==
    ASSUME PhoneOK, NEW p \in Phone, PhoneGoesTo(p)
    PROVE  /\ phone' = p /\ reports' \in Seq(Status)
           /\ reports' \in {reports, Append(reports, StatusOf(p))}
<1>1. StatusOf(p) \in Status /\ reports \in Seq(Status)
    BY StatusType DEF PhoneOK
<1>2. Append(reports, StatusOf(p)) \in Seq(Status)
    BY <1>1
<1> QED
    BY <1>1, <1>2 DEF PhoneGoesTo

LEMMA PhoneStep == PhoneOK /\ [Next]_vars => PhoneOK'
<1> SUFFICES ASSUME PhoneOK, [Next]_vars PROVE PhoneOK'
    OBVIOUS
<1> USE DEF phoneVars
<1>0. phone \in Phone /\ requests \subseteq Req /\ reports \in Seq(Status)
    BY DEF PhoneOK
<1>1. \A p : p \in Phone /\ PhoneGoesTo(p) => phone' \in Phone /\ reports' \in Seq(Status)
    BY PhoneGoesFacts
<1>2. CASE FinishedAudioPlay \/ RxClicked \/ AutoEnterDial \/ HangUp \/ WaitOn \/ Poll
    <2>1. UNCHANGED <<phone, reports>>
        BY <1>2 DEF FinishedAudioPlay, RxClicked, AutoEnterDial, HangUp, WaitOn, Poll
    <2>2. \A op \in Req : Requested(op) \subseteq Req
        BY <1>0 DEF Requested
    <2>3. requests' \subseteq Req
        BY <1>0, <1>2, <2>2 DEF FinishedAudioPlay, RxClicked, AutoEnterDial, HangUp, WaitOn, Poll, Req
    <2> QED
        BY <1>0, <2>1, <2>3 DEF PhoneOK
<1>3. CASE StatusChanged \/ LoseReport
    <2>1. \A i \in DOMAIN reports : RemoveAt(reports, i) \in Seq(Status)
        BY <1>0, QueueRemove
    <2> QED
        BY <1>0, <1>3, <2>1 DEF StatusChanged, LoseReport, PhoneOK
<1>4. CASE Serve
    <2>1. requests' \subseteq Req
        BY <1>0, <1>4 DEF Serve
    <2>2. phone' \in Phone /\ reports' \in Seq(Status)
        <3>1. \/ \E p \in {"idle", "meeting", "prompt", phone} : PhoneGoesTo(p)
              \/ UNCHANGED <<phone, reports>>
            BY <1>4 DEF Serve
        <3> QED
            BY <1>0, <1>1, <3>1 DEF Phone
    <2> QED
        BY <2>1, <2>2 DEF PhoneOK
<1>5. CASE CallEnds \/ IncomingCall \/ CallAnswered \/ PhoneOff \/ PhoneOn
    <2>1. requests' = requests /\ \E p \in {"idle", "ring", "talk", "off"} : PhoneGoesTo(p)
        BY <1>5 DEF CallEnds, IncomingCall, CallAnswered, PhoneOff, PhoneOn
    <2> QED
        BY <1>0, <1>1, <2>1 DEF Phone, PhoneOK
<1>6. CASE LoseRequest
    BY <1>0, <1>6 DEF LoseRequest, PhoneOK
<1> QED
    BY <1>0, <1>2, <1>3, <1>4, <1>5, <1>6, PhoneSteps DEF PhoneOK

LEMMA RelayStep == RelayOK /\ [Next]_vars => RelayOK'
<1> SUFFICES ASSUME RelayOK, [Next]_vars PROVE RelayOK'
    OBVIOUS
<1> USE DEF relayVars
<1>0. cmds \in Seq({0, 1})
    BY DEF RelayOK
<1>1. ASSUME NEW c \in {0, 1}, NEW who \in {"tx", "play", "button"}, SendCommand(c, who)
      PROVE  RelayOK'
    <2>1. cmds' \in Seq({0, 1})
        BY <1>0, <1>1 DEF SendCommand
    <2>2. last' \in Command
        BY <1>1 DEF SendCommand, Command
    <2> QED
        BY <1>1, <2>1, <2>2 DEF SendCommand, RelayOK
<1>2. CASE UNCHANGED relayVars
    BY <1>2 DEF RelayOK
<1>3. CASE TxPressed \/ CloseRelay \/ OpenRelay \/ CloseAfterPlay
    <2>1. \E c \in {0, 1}, who \in {"tx", "play", "button"} : SendCommand(c, who)
        BY <1>3 DEF TxPressed, CloseRelay, OpenRelay, CloseAfterPlay
    <2> QED
        BY <1>1, <2>1
<1>4. CASE TxReleased \/ WaitOff
    <2>1. \/ UNCHANGED relayVars
          \/ \E c \in {0, 1}, who \in {"tx", "play", "button"} : SendCommand(c, who)
        BY <1>4 DEF TxReleased, WaitOff
    <2> QED
        BY <1>1, <1>2, <2>1
<1>5. CASE SendData
    <2>1. cmds # <<>> /\ cmds' = Tail(cmds) /\ dropped' = ~link
        /\ relay' = (IF link THEN Head(cmds) = 1 ELSE relay)
        BY <1>5 DEF SendData
    <2>2. cmds' \in Seq({0, 1})
        BY <1>0, <2>1, QueueTail
    <2>3. relay' \in BOOLEAN
        BY <2>1 DEF RelayOK
    <2>4. dropped' \in BOOLEAN
        BY <2>1 DEF RelayOK
    <2> QED
        BY <1>5, <2>2, <2>3, <2>4 DEF SendData, RelayOK
<1>6. CASE HeartBeat
    BY <1>6 DEF HeartBeat, RelayOK
<1>7. CASE RecvData
    BY <1>7 DEF RecvData, RelayOK
<1>8. CASE RelayDisConnected \/ RelayConnected
    BY <1>8 DEF RelayDisConnected, RelayConnected, RelayOK
<1> QED
    BY <1>2, <1>3, <1>4, <1>5, <1>6, <1>7, <1>8, RelaySteps

LEMMA TypeStep == TypeOK /\ EndIsCounted /\ [Next]_vars => TypeOK' /\ EndIsCounted'
<1>1. PhoneOK' /\ ExtOK' /\ PlayOK' /\ RelayOK' /\ RestOK' => TypeOK'
    BY DEF TypeOK, PhoneOK, ExtOK, PlayOK, RelayOK, RestOK
<1> QED
    BY <1>1, Parts, PhoneStep, ExtStep, PlayStep, RelayStep, RestStep

-----------------------------------------------------------------------------
(* Who keys the relay *)

\* A command is the last one, and waits.
LEMMA CommandFacts ==
    ASSUME RelayOK, NEW c \in {0, 1}, NEW who, SendCommand(c, who)
    PROVE  /\ cmds' # <<>> /\ cmds'[Len(cmds')] = c
           /\ last'.cmd = c /\ last'.by = who
<1>1. cmds \in Seq({0, 1}) /\ cmds' = Append(cmds, c)
    BY DEF RelayOK, SendCommand
<1>2. cmds' # <<>> /\ cmds'[Len(cmds')] = c
    BY <1>1, QueueAppend
<1>3. last' = [cmd |-> c, by |-> who]
    BY DEF SendCommand
<1> QED
    BY <1>2, <1>3

LEMMA QueueStep ==
    RelayOK /\ LastIsQueued /\ RelayObeys /\ [Next]_vars => LastIsQueued' /\ RelayObeys'
<1> SUFFICES ASSUME RelayOK, LastIsQueued, RelayObeys, [Next]_vars
             PROVE  LastIsQueued' /\ RelayObeys'
    OBVIOUS
<1> USE DEF relayVars
<1>1. ASSUME NEW c \in {0, 1}, NEW who \in {"tx", "play", "button"}, SendCommand(c, who)
      PROVE  LastIsQueued' /\ RelayObeys'
    BY <1>1, CommandFacts DEF LastIsQueued, RelayObeys
<1>2. CASE UNCHANGED <<cmds, relay, last, dropped>>
    BY <1>2 DEF LastIsQueued, RelayObeys
<1>3. CASE TxPressed \/ CloseRelay \/ OpenRelay \/ CloseAfterPlay \/ TxReleased \/ WaitOff
    <2>1. \/ UNCHANGED <<cmds, relay, last, dropped>>
          \/ \E c \in {0, 1}, who \in {"tx", "play", "button"} : SendCommand(c, who)
        BY <1>3 DEF TxPressed, CloseRelay, OpenRelay, CloseAfterPlay, TxReleased, WaitOff
    <2> QED
        BY <1>1, <1>2, <2>1
<1>4. CASE SendData
    <2>1. /\ cmds # <<>> /\ cmds' = Tail(cmds) /\ dropped' = ~link /\ last' = last
          /\ relay' = (IF link THEN Head(cmds) = 1 ELSE relay) /\ cmds \in Seq({0, 1})
        BY <1>4 DEF SendData, RelayOK
    <2>2. /\ Tail(cmds) \in Seq({0, 1}) /\ Len(cmds) \in Nat \ {0} /\ Len(Tail(cmds)) = Len(cmds) - 1
          /\ Head(cmds) = cmds[1]
          /\ \A i \in 1..(Len(cmds) - 1) : Tail(cmds)[i] = cmds[i + 1]
        BY <2>1, QueueTail
    <2>3. CASE cmds' = <<>>
        <3>1. Len(<<>>) = 0
            OBVIOUS
        <3>2. Len(cmds) = 1
            BY <2>1, <2>2, <2>3, <3>1
        <3>3. Head(cmds) = last.cmd
            BY <2>1, <2>2, <3>2 DEF LastIsQueued
        <3>4. ~dropped' /\ relay' => Head(cmds) = 1
            BY <2>1
        <3> QED
            BY <2>1, <2>3, <3>3, <3>4 DEF LastIsQueued, RelayObeys
    <2>4. CASE cmds' # <<>>
        <3>1. Len(cmds') \in Nat /\ Len(cmds') > 0
            BY <2>1, <2>2, <2>4
        <3>2. Len(cmds') \in 1..(Len(cmds) - 1) /\ Len(cmds') + 1 = Len(cmds)
            BY <2>1, <2>2, <3>1
        <3>3. cmds'[Len(cmds')] = cmds[Len(cmds)]
            BY <2>1, <2>2, <3>2
        <3> QED
            BY <2>1, <2>4, <3>3 DEF LastIsQueued, RelayObeys
    <2> QED
        BY <2>3, <2>4
<1>5. CASE HeartBeat \/ RecvData \/ RelayDisConnected \/ RelayConnected
    BY <1>2, <1>5 DEF HeartBeat, RecvData, RelayDisConnected, RelayConnected
<1> QED
    BY <1>2, <1>3, <1>4, <1>5, RelaySteps

LEMMA HoldStep ==
    /\ RelayOK /\ PlayOK /\ RestOK /\ OpenHasReason /\ KeyedDuringPlay /\ [Next]_vars
    => OpenHasReason' /\ KeyedDuringPlay'
<1> SUFFICES ASSUME RelayOK, PlayOK, RestOK, OpenHasReason, KeyedDuringPlay, [Next]_vars
             PROVE  OpenHasReason' /\ KeyedDuringPlay'
    OBVIOUS
<1> USE DEF relayVars, playVars
<1>1. \A c \in {0, 1} : \A who \in {"tx", "play", "button"} :
         SendCommand(c, who) => last'.cmd = c /\ last'.by = who
    BY CommandFacts
<1>2. CASE TxPressed
    <2>1. last'.cmd = 1 /\ tx'
        BY <1>1, <1>2 DEF TxPressed
    <2> QED
        BY <2>1 DEF OpenHasReason, KeyedDuringPlay
<1>3. CASE TxReleased
    <2>1. UNCHANGED pc /\ tx /\ ~tx'
        BY <1>3 DEF TxReleased
    <2>2. CASE ~KeepsOpen /\ SendCommand(0, "tx") /\ skipped' = FALSE
        <3>1. last'.cmd = 0 /\ pc = "none"
            BY <1>1, <2>2 DEF KeepsOpen, isPlayAudio
        <3> QED
            BY <2>1, <3>1 DEF OpenHasReason, KeyedDuringPlay, HoldsRelay
    <2>3. CASE skipped' = TRUE /\ UNCHANGED relayVars
        BY <2>1, <2>3 DEF OpenHasReason, KeyedDuringPlay, HoldsRelay
    <2> QED
        BY <1>3, <2>2, <2>3 DEF TxReleased
<1>4. CASE CloseRelay
    <2>1. last'.cmd = 0 /\ last'.by = "button"
        BY <1>1, <1>4 DEF CloseRelay
    <2> QED
        BY <2>1 DEF OpenHasReason, KeyedDuringPlay
<1>5. CASE OpenRelay
    <2>1. last'.cmd = 1 /\ pc' = "waiton"
        BY <1>1, <1>5 DEF OpenRelay, GoesTo
    <2> QED
        BY <2>1 DEF OpenHasReason, KeyedDuringPlay, HoldsRelay
<1>6. CASE CloseAfterPlay
    <2>1. last'.cmd = 0 /\ pc' = "waitoff"
        BY <1>1, <1>6 DEF CloseAfterPlay, GoesTo
    <2> QED
        BY <2>1 DEF OpenHasReason, KeyedDuringPlay, HoldsRelay
<1>7. CASE WaitOff
    <2>1. pc = "waitoff" /\ pc' \in {"waitoff", "done"} /\ tx' = tx
        BY <1>7 DEF WaitOff
    <2>2. (last' = last /\ skipped' = skipped) \/ last'.cmd = 0
        BY <1>1, <1>7 DEF WaitOff
    <2> QED
        BY <2>1, <2>2 DEF OpenHasReason, KeyedDuringPlay, HoldsRelay
<1>8. CASE PlayAudio \/ FinishedAudioPlay \/ RunBegins \/ HangUp \/ IdleSeen \/ WaitOn \/ Poll
    <2>1. UNCHANGED <<last, tx, skipped>>
        BY <1>8 DEF PlayAudio, FinishedAudioPlay, RunBegins, HangUp, IdleSeen, WaitOn, Poll
    <2>2. HoldsRelay' <=> HoldsRelay
        BY <1>8 DEF PlayAudio, FinishedAudioPlay, RunBegins, HangUp, IdleSeen, WaitOn, Poll,
                    HoldsRelay, GoesTo, isPlayAudio
    <2> QED
        BY <2>1, <2>2 DEF OpenHasReason, KeyedDuringPlay
<1>9. CASE RxClicked \/ StatusChanged \/ AutoEnterCheck \/ AutoEnterDial
    BY <1>9 DEF RxClicked, StatusChanged, AutoEnterCheck, AutoEnterDial, OpenHasReason,
                KeyedDuringPlay, HoldsRelay
<1>10. CASE SendData \/ HeartBeat \/ RecvData \/ RelayDisConnected \/ RelayConnected
    BY <1>10 DEF SendData, HeartBeat, RecvData, RelayDisConnected, RelayConnected, OpenHasReason,
                 KeyedDuringPlay, HoldsRelay
<1>11. CASE Serve \/ CallEnds \/ IncomingCall \/ CallAnswered \/ PhoneOff \/ PhoneOn \/ LoseRequest \/ LoseReport
    BY <1>11 DEF Serve, CallEnds, IncomingCall, CallAnswered, PhoneOff, PhoneOn, LoseRequest, LoseReport,
                 OpenHasReason, KeyedDuringPlay, HoldsRelay
<1>12. CASE UNCHANGED vars
    BY <1>12 DEF vars, OpenHasReason, KeyedDuringPlay, HoldsRelay
<1> QED
    BY <1>2, <1>3, <1>4, <1>5, <1>6, <1>7, <1>8, <1>9, <1>10, <1>11, <1>12, Steps

LEMMA InitTypes == Init => TypeOK
<1> SUFFICES ASSUME Init PROVE TypeOK
    OBVIOUS
<1>1. phone \in Phone /\ status \in Status
    BY StatusType DEF Init, Phone
<1>2. reports \in Seq(Status) /\ cmds \in Seq({0, 1})
    BY DEF Init
<1>3. t \in 0..Timeout /\ playend \in 0..EndPolls /\ pc \in PC
    BY BoundAssumption DEF Init, PC
<1>4. last \in Command
    BY DEF Init, Command
<1> QED
    BY <1>1, <1>2, <1>3, <1>4 DEF Init, TypeOK

LEMMA KeyedInit == Init => KInv
<1>1. Init => EndIsCounted /\ LastIsQueued /\ RelayObeys /\ OpenHasReason /\ KeyedDuringPlay
    BY DEF Init, EndIsCounted, LastIsQueued, RelayObeys, OpenHasReason, KeyedDuringPlay, HoldsRelay
<1> QED
    BY <1>1, InitTypes DEF KInv

LEMMA KeyedStep == KInv /\ [Next]_vars => KInv'
    BY Parts, TypeStep, QueueStep, HoldStep DEF KInv

\* Every reachable state satisfies the inductive invariant of the relay.
THEOREM KeyedCorrect == Spec => []KInv
<1> QED
    BY KeyedInit, KeyedStep, PTL DEF Spec

\* Every variable keeps its type.
THEOREM TypeCorrect == Spec => []TypeOK
<1>1. KInv => TypeOK
    BY DEF KInv
<1> QED
    BY KeyedCorrect, <1>1, PTL

\* While the play thread counts on the relay only the close button closes it
\* (closeRelayControl, playAudio, slotFinishedAudioPlay).
THEOREM PlaysAreKeyed == Spec => []KeyedDuringPlay
<1>1. KInv => KeyedDuringPlay
    BY DEF KInv
<1> QED
    BY KeyedCorrect, <1>1, PTL

\* The station transmits for somebody, or because a close was not sent or not heard.
THEOREM KeyedWithReason == Spec => []KeyedForAReason
<1>1. KInv => KeyedForAReason
    BY DEF KInv, RelayObeys, OpenHasReason, KeyedForAReason
<1> QED
    BY KeyedCorrect, <1>1, PTL

-----------------------------------------------------------------------------
(* The end of a play: without another call, a busy phone is one that plays   *)
(* the file, as long as reports keep their order.                            *)

Quiet == InOrder /\ ~Dialled /\ ~gaveUp

\* No call is reported yet: the file has not begun, as far as anybody knows.
Silent == \A i \in DOMAIN reports : reports[i] # "Busy"

\* The thread has not asked for the file.
Early == plays = 0 \/ pc \in {"run", "hangup", "idlewait", "open", "waiton"}

\* Until then nobody calls, and a phone in a meeting is known to be in one.
BeforeAsking ==
    /\ requests \subseteq {"hangup"} /\ phone # "prompt" /\ Silent
    /\ phone = "meeting" => status = "Busy" /\ reports = <<>>
    /\ status = "Busy" => pc \notin {"open", "waiton"}
    /\ plays = 0 => pc = "none"

\* The request is under way.
WhileAsking ==
    /\ pc = "poll" /\ ~changed /\ status # "Busy" /\ Silent
    /\ phone \notin {"prompt", "meeting"} /\ "dial" \notin requests

\* Once the call is reported nothing else is.
BusyStays == \A i, j \in DOMAIN reports : i < j /\ reports[i] = "Busy" => reports[j] = "Busy"

\* The file plays: once its call is seen, nothing else is reported.
WhilePlaying ==
    /\ pc = "poll" /\ "prompt" \notin requests /\ BusyStays
    /\ status = "Busy" \/ changed =>
          status = "Busy" /\ \A i \in DOMAIN reports : reports[i] = "Busy"

PlayPhases ==
    /\ ~entering /\ phone # "talk"
    /\ Early => BeforeAsking
    /\ ~Early /\ "prompt" \in requests => WhileAsking
    /\ ~Early /\ phone = "prompt" => WhilePlaying

\* Before the first play the client has asked for nothing, whoever called.
BeforePlays ==
    /\ requests = {} /\ pc = "none" /\ ~entering /\ phone # "prompt"
    /\ phone = "meeting" => status = "Busy" /\ reports = <<>>

EInv == Quiet => /\ plays = 0 => BeforePlays
                 /\ ~talked => PlayPhases

\* The box is left as it is.
LEMMA BoxStays == [Next]_vars => isAutoEnter' = isAutoEnter
    BY ExtSteps DEF FinishedAudioPlay, StatusChanged, AutoEnterCheck, AutoEnterDial, RunBegins, extVars

LEMMA QuietBefore == RestOK /\ PlayOK /\ [Next]_vars /\ Quiet' => Quiet
<1> SUFFICES ASSUME RestOK, PlayOK, [Next]_vars, Quiet' PROVE Quiet
    OBVIOUS
<1> USE DEF pastVars, playVars
<1>1. clicks \in Nat /\ plays \in Nat /\ gaveUp \in BOOLEAN
    BY DEF RestOK, PlayOK
<1>2. clicks' \in {clicks, clicks + 1} /\ plays' \in {plays, plays + 1}
    <2>1. CASE PlayAudio \/ TxPressed \/ TxReleased \/ CloseRelay \/ RxClicked
        BY <2>1 DEF PlayAudio, TxPressed, TxReleased, CloseRelay, RxClicked, Acts
    <2>2. CASE RelayDisConnected \/ IncomingCall \/ CallAnswered \/ PhoneOff \/ LoseRequest \/ LoseReport
        BY <2>2 DEF RelayDisConnected, IncomingCall, CallAnswered, PhoneOff, LoseRequest, LoseReport
    <2>3. CASE FinishedAudioPlay \/ StatusChanged \/ AutoEnterCheck
               \/ AutoEnterDial \/ RunBegins \/ HangUp \/ IdleSeen \/ OpenRelay \/ WaitOn \/ Poll
               \/ CloseAfterPlay \/ WaitOff \/ SendData \/ HeartBeat \/ RecvData \/ RelayConnected
               \/ Serve \/ CallEnds \/ PhoneOn \/ UNCHANGED vars
        BY <2>3 DEF FinishedAudioPlay, StatusChanged, AutoEnterCheck,
               AutoEnterDial, RunBegins, HangUp, IdleSeen, OpenRelay, WaitOn, Poll, CloseAfterPlay,
               WaitOff, SendData, HeartBeat, RecvData, RelayConnected, Serve, CallEnds, PhoneOn, vars
    <2> QED
        BY <2>1, <2>2, <2>3, Steps
<1>3. gaveUp => gaveUp'
    <2>1. CASE Poll
        BY <1>1, <2>1 DEF Poll
    <2>2. CASE PlayAudio \/ FinishedAudioPlay \/ RunBegins \/ HangUp \/ IdleSeen \/ OpenRelay
               \/ WaitOn \/ CloseAfterPlay \/ WaitOff \/ UNCHANGED playVars
        BY <2>2 DEF PlayAudio, FinishedAudioPlay, RunBegins, HangUp, IdleSeen, OpenRelay, WaitOn,
                    CloseAfterPlay, WaitOff
    <2> QED
        BY <2>1, <2>2, PlaySteps, Zenon
<1>4. InOrder /\ ~(clicks' > 0) /\ ~isAutoEnter /\ ~(plays' > 1) /\ ~gaveUp'
    BY BoxStays DEF Quiet, Dialled
<1>5. ~(clicks > 0) /\ ~(plays > 1)
    BY <1>1, <1>2, <1>4
<1> QED
    BY <1>3, <1>4, <1>5 DEF Quiet, Dialled

\* Requests are taken away, and nothing else happens.
LEMMA PhasesRequests ==
    ASSUME PlayPhases, UNCHANGED <<phone, reports, extVars, playVars, plays>>,
           requests' \subseteq requests
    PROVE  PlayPhases'
<1>1. UNCHANGED <<phone, reports, status, entering, pc, changed, plays>>
    BY DEF extVars, playVars
<1>2. (Early' <=> Early) /\ (Silent' <=> Silent) /\ (BusyStays' <=> BusyStays)
    BY <1>1 DEF Early, Silent, BusyStays
<1>3. Early => BeforeAsking'
    BY <1>1, <1>2 DEF PlayPhases, BeforeAsking
<1>4. ~Early /\ "prompt" \in requests => WhileAsking'
    BY <1>1, <1>2 DEF PlayPhases, WhileAsking
<1>5. ~Early /\ phone = "prompt" => WhilePlaying'
    BY <1>1, <1>2 DEF PlayPhases, WhilePlaying
<1> QED
    BY <1>1, <1>2, <1>3, <1>4, <1>5 DEF PlayPhases

\* A phone without a call is reported.
LEMMA PhasesNoCall ==
    ASSUME PhoneOK, PlayPhases, UNCHANGED <<extVars, playVars, plays>>,
           requests' \subseteq requests,
           NEW p \in {"off", "idle", "ring"}, PhoneGoesTo(p)
    PROVE  PlayPhases'
<1>1. UNCHANGED <<status, entering, pc, changed, plays>>
    BY DEF extVars, playVars
<1>2. phone' = p /\ reports' \in {reports, Append(reports, StatusOf(p))}
    BY PhoneGoesFacts DEF Phone
<1>3. StatusOf(p) \in Status /\ StatusOf(p) # "Busy" /\ reports \in Seq(Status)
    BY StatusType DEF StatusOf, Phone, PhoneOK
<1>4. Silent => Silent'
    <2>1. CASE reports' = reports
        BY <2>1 DEF Silent
    <2>2. CASE reports' = Append(reports, StatusOf(p))
        BY <1>3, <2>2, QueueAppend DEF Silent
    <2> QED
        BY <1>2, <2>1, <2>2
<1>5. Early' <=> Early
    BY <1>1 DEF Early
<1>6. Early => BeforeAsking'
    BY <1>1, <1>2, <1>4 DEF PlayPhases, BeforeAsking
<1>7. ~Early /\ "prompt" \in requests => WhileAsking'
    BY <1>1, <1>2, <1>4 DEF PlayPhases, WhileAsking
<1> QED
    BY <1>1, <1>2, <1>5, <1>6, <1>7 DEF PlayPhases

LEMMA PhasesServe ==
    ASSUME PhoneOK, PlayPhases, Serve PROVE PlayPhases'
<1> USE DEF pastVars
<1>1. UNCHANGED <<extVars, playVars, plays>>
    BY DEF Serve
<1>2. UNCHANGED <<status, entering, pc, changed, plays>>
    BY <1>1 DEF extVars, playVars
<1>3. PICK r \in requests :
          /\ requests' = requests \ {r}
          /\ \/ r = "hangup" /\ phone \in {"ring", "talk", "meeting", "prompt"} /\ PhoneGoesTo("idle")
             \/ r = "dial" /\ phone = "idle" /\ PhoneGoesTo("meeting")
             \/ r = "prompt" /\ phone = "idle" /\ PhoneGoesTo("prompt")
             \/ r = "query" /\ PhoneGoesTo(phone)
             \/ UNCHANGED <<phone, reports>>
    BY DEF Serve
<1>4. requests' \subseteq requests /\ r \notin requests'
    BY <1>3
<1>5. Early' <=> Early
    BY <1>2 DEF Early
<1>6. CASE UNCHANGED <<phone, reports>>
    BY <1>1, <1>4, <1>6, PhasesRequests
<1>7. CASE PhoneGoesTo("idle")
    BY <1>1, <1>4, <1>7, PhasesNoCall
<1>8. CASE r = "dial" /\ PhoneGoesTo("meeting")
    <2>1. ~Early /\ "prompt" \notin requests
        BY <1>3, <1>8 DEF PlayPhases, BeforeAsking, WhileAsking
    <2>2. phone' = "meeting"
        BY <1>8 DEF PhoneGoesTo
    <2> QED
        BY <1>2, <1>4, <1>5, <2>1, <2>2 DEF PlayPhases
<1>9. reports \in Seq(Status) /\ "Busy" \in Status /\ phone \in Phone
    BY DEF PhoneOK, Status
<1>10. CASE r = "prompt" /\ phone = "idle" /\ PhoneGoesTo("prompt")
    <2>1. ~Early /\ WhileAsking
        BY <1>3, <1>10 DEF PlayPhases, BeforeAsking
    <2>2. phone' = "prompt" /\ reports' \in {reports, Append(reports, "Busy")}
        BY <1>10 DEF PhoneGoesTo, StatusOf
    <2>3. BusyStays'
        <3>1. CASE reports' = reports
            BY <2>1, <3>1 DEF WhileAsking, Silent, BusyStays
        <3>2. CASE reports' = Append(reports, "Busy")
            <4>1. /\ DOMAIN reports = 1..Len(reports) /\ Len(reports) \in Nat
                  /\ DOMAIN reports' = 1..(Len(reports) + 1)
                  /\ \A i \in 1..Len(reports) : reports'[i] = reports[i]
                BY <1>9, <3>2, QueueAppend
            <4>2. ASSUME NEW i \in DOMAIN reports', NEW j \in DOMAIN reports', i < j,
                         reports'[i] = "Busy"
                  PROVE  reports'[j] = "Busy"
                <5>1. i \in 1..Len(reports)
                    BY <4>1, <4>2
                <5>2. reports[i] # "Busy"
                    BY <2>1, <4>1, <5>1 DEF WhileAsking, Silent
                <5> QED
                    BY <4>1, <4>2, <5>1, <5>2
            <4> QED
                BY <4>2 DEF BusyStays
        <3> QED
            BY <2>2, <3>1, <3>2
    <2>4. WhilePlaying'
        BY <1>2, <1>4, <1>10, <2>1, <2>3 DEF WhileAsking, WhilePlaying
    <2> QED
        BY <1>2, <1>4, <1>5, <1>10, <2>1, <2>2, <2>4 DEF PlayPhases
<1>11. CASE r = "query" /\ PhoneGoesTo(phone)
    <2>1. ~Early
        BY <1>3, <1>11 DEF PlayPhases, BeforeAsking
    <2>2. CASE phone \in {"off", "idle", "ring"}
        BY <1>1, <1>4, <1>11, <2>2, PhasesNoCall
    <2>3. CASE phone \in {"meeting", "prompt"}
        <3>1. phone' = phone /\ reports' \in {reports, Append(reports, "Busy")}
            BY <1>11, <2>3 DEF PhoneGoesTo, StatusOf
        <3>2. "prompt" \notin requests
            BY <2>1, <2>3 DEF PlayPhases, WhileAsking
        <3>3. CASE phone = "meeting"
            BY <1>2, <1>4, <1>5, <2>1, <3>1, <3>2, <3>3 DEF PlayPhases
        <3>4. CASE phone = "prompt"
            <4>1. WhilePlaying
                BY <2>1, <3>4 DEF PlayPhases
            <4>2. CASE reports' = reports
                BY <1>1, <1>4, <3>1, <4>2, PhasesRequests
            <4>3. CASE reports' = Append(reports, "Busy")
                <5>1. /\ DOMAIN reports = 1..Len(reports) /\ Len(reports) \in Nat
                      /\ DOMAIN reports' = 1..(Len(reports) + 1)
                      /\ reports'[Len(reports) + 1] = "Busy"
                      /\ \A i \in 1..Len(reports) : reports'[i] = reports[i]
                    BY <1>9, <4>3, QueueAppend
                <5>2. ASSUME NEW i \in DOMAIN reports', NEW j \in DOMAIN reports', i < j,
                             reports'[i] = "Busy"
                      PROVE  reports'[j] = "Busy"
                    <6>1. i \in 1..Len(reports) /\ (j \in 1..Len(reports) \/ j = Len(reports) + 1)
                        BY <5>1, <5>2
                    <6> QED
                        BY <4>1, <5>1, <5>2, <6>1 DEF WhilePlaying, BusyStays
                <5>3. (\A i \in DOMAIN reports : reports[i] = "Busy")
                         => \A i \in DOMAIN reports' : reports'[i] = "Busy"
                    BY <5>1
                <5>4. BusyStays'
                    BY <5>2 DEF BusyStays
                <5>5. WhilePlaying'
                    BY <1>2, <1>4, <3>2, <4>1, <5>3, <5>4 DEF WhilePlaying
                <5> QED
                    BY <1>2, <1>4, <1>5, <2>1, <3>1, <3>2, <5>5 DEF PlayPhases
            <4> QED
                BY <3>1, <4>2, <4>3
        <3> QED
            BY <2>3, <3>3, <3>4
    <2> QED
        BY <1>9, <2>2, <2>3 DEF Phone, PlayPhases
<1> QED
    BY <1>3, <1>6, <1>7, <1>8, <1>10, <1>11

LEMMA PhasesStatus ==
    ASSUME PhoneOK, InOrder, PlayPhases, StatusChanged PROVE PlayPhases'
<1> USE DEF pastVars
<1>1. UNCHANGED <<phone, requests, entering, pc, changed, plays>>
    BY DEF StatusChanged, playVars
<1>2. PICK i \in DOMAIN reports : i = 1 /\ status' = reports[i] /\ reports' = RemoveAt(reports, i)
    BY DEF StatusChanged
<1>3. reports \in Seq(Status)
    BY DEF PhoneOK
<1>4. /\ DOMAIN reports = 1..Len(reports) /\ Len(reports) \in Nat \ {0}
      /\ DOMAIN reports' = 1..(Len(reports) - 1)
      /\ \A j \in 1..(Len(reports) - 1) : reports'[j] = IF j < i THEN reports[j] ELSE reports[j + 1]
    BY <1>2, <1>3, QueueRemove
<1>5. \A j \in 1..(Len(reports) - 1) : reports'[j] = reports[j + 1] /\ j + 1 \in DOMAIN reports
    BY <1>2, <1>4
<1>6. status' = reports[1] /\ 1 \in DOMAIN reports
    BY <1>2
<1>7. reports # <<>>
    BY <1>4
<1>8. Early' <=> Early
    BY <1>1 DEF Early
<1>9. Silent => Silent' /\ status' # "Busy"
    BY <1>4, <1>5, <1>6 DEF Silent
<1>10. Early => BeforeAsking'
    BY <1>1, <1>7, <1>9 DEF PlayPhases, BeforeAsking
<1>11. ~Early /\ "prompt" \in requests => WhileAsking'
    BY <1>1, <1>9 DEF PlayPhases, WhileAsking
<1>12. ASSUME WhilePlaying PROVE WhilePlaying'
    <2>1. BusyStays'
        <3>1. ASSUME NEW k \in DOMAIN reports', NEW j \in DOMAIN reports', k < j,
                     reports'[k] = "Busy"
              PROVE  reports'[j] = "Busy"
            <4>1. /\ reports'[k] = reports[k + 1] /\ reports'[j] = reports[j + 1]
                  /\ k + 1 \in DOMAIN reports /\ j + 1 \in DOMAIN reports /\ k + 1 < j + 1
                BY <1>4, <1>5, <3>1
            <4> QED
                BY <1>12, <3>1, <4>1 DEF WhilePlaying, BusyStays
        <3> QED
            BY <3>1 DEF BusyStays
    <2>2. ASSUME status' = "Busy" \/ changed'
          PROVE  status' = "Busy" /\ \A j \in DOMAIN reports' : reports'[j] = "Busy"
        <3>1. reports[1] = "Busy"
            BY <1>1, <1>6, <1>12, <2>2 DEF WhilePlaying
        <3>2. ASSUME NEW j \in DOMAIN reports' PROVE reports'[j] = "Busy"
            <4>1. reports'[j] = reports[j + 1] /\ j + 1 \in DOMAIN reports /\ 1 < j + 1
                BY <1>4, <1>5, <3>2
            <4> QED
                BY <1>6, <1>12, <3>1, <4>1 DEF WhilePlaying, BusyStays
        <3> QED
            BY <1>6, <3>1, <3>2
    <2> QED
        BY <1>1, <1>12, <2>1, <2>2 DEF WhilePlaying
<1> QED
    BY <1>1, <1>8, <1>10, <1>11, <1>12 DEF PlayPhases

LEMMA PhasesLoseReport ==
    ASSUME PhoneOK, PlayPhases, LoseReport PROVE PlayPhases'
<1>1. UNCHANGED <<phone, requests, entering, status, pc, changed, plays>>
    BY DEF LoseReport, playVars, extVars
<1>2. PICK i \in DOMAIN reports : reports' = RemoveAt(reports, i)
    BY DEF LoseReport
<1>3. reports \in Seq(Status)
    BY DEF PhoneOK
<1>4. /\ DOMAIN reports = 1..Len(reports) /\ Len(reports) \in Nat \ {0}
      /\ DOMAIN reports' = 1..(Len(reports) - 1)
      /\ \A j \in 1..(Len(reports) - 1) : reports'[j] = IF j < i THEN reports[j] ELSE reports[j + 1]
    BY <1>2, <1>3, QueueRemove
<1> DEFINE at(j) == IF j < i THEN j ELSE j + 1
<1>5. ASSUME NEW j \in DOMAIN reports'
      PROVE  at(j) \in DOMAIN reports /\ reports'[j] = reports[at(j)]
    BY <1>4, <1>5
<1>6. ASSUME NEW j \in DOMAIN reports', NEW k \in DOMAIN reports', k < j PROVE at(k) < at(j)
    <2>1. i \in Int /\ j \in Int /\ k \in Int
        BY <1>4, <1>6
    <2> QED
        BY <1>6, <2>1
<1>7. reports # <<>>
    BY <1>4
<1>8. Early' <=> Early
    BY <1>1 DEF Early
<1> HIDE DEF at
<1>9. Silent => Silent'
    BY <1>5 DEF Silent
<1>10. Early => BeforeAsking'
    BY <1>1, <1>7, <1>9 DEF PlayPhases, BeforeAsking
<1>11. ~Early /\ "prompt" \in requests => WhileAsking'
    BY <1>1, <1>9 DEF PlayPhases, WhileAsking
<1>12. ASSUME WhilePlaying PROVE WhilePlaying'
    <2>1. BusyStays'
        <3>1. ASSUME NEW k \in DOMAIN reports', NEW j \in DOMAIN reports', k < j,
                     reports'[k] = "Busy"
              PROVE  reports'[j] = "Busy"
            BY <1>5, <1>6, <1>12, <3>1 DEF WhilePlaying, BusyStays
        <3> QED
            BY <3>1 DEF BusyStays
    <2>2. (\A j \in DOMAIN reports : reports[j] = "Busy") => \A j \in DOMAIN reports' : reports'[j] = "Busy"
        BY <1>5
    <2> QED
        BY <1>1, <1>12, <2>1, <2>2 DEF WhilePlaying
<1> QED
    BY <1>1, <1>8, <1>10, <1>11, <1>12 DEF PlayPhases

\* The first play begins with no call but the one it has to end.
LEMMA PhasesPlay ==
    ASSUME RestOK, plays = 0, BeforePlays, ~talked => PlayPhases, PlayAudio, ~talked'
    PROVE  PlayPhases'
<1> USE DEF phoneVars, extVars
<1>1. UNCHANGED <<phone, requests, reports, status, entering>> /\ plays' = plays + 1 /\ pc' = "run"
    BY DEF PlayAudio
<1>2. plays' # 0
    BY <1>1 DEF RestOK
<1>3. phone # "talk" /\ Silent
    <2>1. CASE talked
        <3>1. phone # "talk" /\ "Busy" \notin Range(reports)
            BY <2>1 DEF PlayAudio
        <3> QED
            BY <3>1 DEF Range, Silent
    <2>2. CASE ~talked
        <3>1. PlayPhases /\ pc = "none"
            BY <2>2 DEF BeforePlays
        <3>2. Early
            BY DEF Early
        <3> QED
            BY <3>1, <3>2 DEF PlayPhases, BeforeAsking
    <2> QED
        BY <2>1, <2>2
<1>4. Silent' <=> Silent
    BY <1>1 DEF Silent
<1>5. Early' /\ BeforeAsking'
    BY <1>1, <1>2, <1>3, <1>4 DEF BeforePlays, Early, BeforeAsking
<1> QED
    BY <1>1, <1>3, <1>5 DEF BeforePlays, PlayPhases, BeforeAsking

\* The play thread: one step per action.
LEMMA PhasesThread ==
    ASSUME RestOK, PlayOK, PlayPhases, Quiet',
           FinishedAudioPlay \/ RunBegins \/ HangUp \/ IdleSeen \/ OpenRelay \/ WaitOn
           \/ Poll \/ CloseAfterPlay \/ WaitOff
    PROVE  PlayPhases'
<1> USE DEF pastVars, phoneVars, extVars, GoesTo
<1>1. (reports' = reports => (Silent' <=> Silent) /\ (BusyStays' <=> BusyStays)) /\ ~gaveUp'
    BY DEF Silent, BusyStays, Quiet
<1>3. CASE FinishedAudioPlay
    <2>1. UNCHANGED <<phone, reports, status, entering, plays>> /\ pc = "done" /\ pc' = "none"
          /\ requests' \subseteq requests \cup {"dial"}
        BY <1>3 DEF FinishedAudioPlay, Requested
    <2>2. ~Early /\ ~Early'
        BY <2>1 DEF PlayPhases, Early, BeforeAsking
    <2>3. "prompt" \notin requests /\ phone # "prompt"
        BY <2>1, <2>2 DEF PlayPhases, WhileAsking, WhilePlaying
    <2> QED
        BY <2>1, <2>2, <2>3 DEF PlayPhases
<1>4. CASE RunBegins
    <2>1. UNCHANGED <<phone, requests, reports, status, entering, plays>> /\ pc = "run"
        BY <1>4 DEF RunBegins
    <2>2. Early /\ BeforeAsking
        BY <2>1 DEF PlayPhases, Early
    <2>3. plays # 0 /\ (status = "Busy" => pc' \notin {"open", "waiton"})
        BY <1>4, <2>1, <2>2 DEF RunBegins, BeforeAsking
    <2>4. BeforeAsking'
        BY <1>1, <2>1, <2>2, <2>3 DEF BeforeAsking
    <2>5. ~("prompt" \in requests') /\ phone' # "prompt"
        BY <2>1, <2>2 DEF BeforeAsking
    <2> QED
        BY <2>1, <2>4, <2>5 DEF PlayPhases
<1>5. CASE HangUp \/ IdleSeen \/ OpenRelay
    <2>1. /\ UNCHANGED <<phone, reports, status, entering, plays>>
          /\ pc \in {"hangup", "idlewait", "open"} /\ pc' \in {"idlewait", "open", "waiton"}
          /\ requests' \subseteq requests \cup {"hangup"}
          /\ pc = "idlewait" => status # "Busy"
          /\ pc = "hangup" => pc' = "idlewait"
        BY <1>5 DEF HangUp, IdleSeen, OpenRelay, Requested
    <2>2. Early /\ Early' /\ BeforeAsking
        BY <2>1 DEF PlayPhases, Early
    <2>3. plays # 0 /\ (status = "Busy" => pc' \notin {"open", "waiton"})
        BY <2>1, <2>2 DEF BeforeAsking
    <2>4. BeforeAsking'
        BY <1>1, <2>1, <2>2, <2>3 DEF BeforeAsking
    <2> QED
        BY <2>1, <2>2, <2>4 DEF PlayPhases
<1>6. CASE WaitOn
    <2>1. UNCHANGED <<phone, reports, status, entering, plays>> /\ pc = "waiton"
        BY <1>6 DEF WaitOn
    <2>2. Early /\ BeforeAsking /\ plays # 0
        BY <2>1 DEF PlayPhases, Early, BeforeAsking
    <2>3. CASE UNCHANGED <<pc, changed, requests>>
        <3>1. Early' /\ BeforeAsking'
            BY <1>1, <2>1, <2>2, <2>3 DEF Early, BeforeAsking
        <3> QED
            BY <2>1, <3>1 DEF PlayPhases
    <2>4. CASE pc' = "poll" /\ changed' = FALSE /\ requests' = requests \cup {"prompt"}
        <3>1. ~Early' /\ phone' # "prompt"
            BY <2>1, <2>2, <2>4 DEF Early, BeforeAsking
        <3>2. WhileAsking'
            BY <1>1, <2>1, <2>2, <2>4 DEF BeforeAsking, WhileAsking
        <3> QED
            BY <2>1, <3>1, <3>2 DEF PlayPhases
    <2>5. \/ UNCHANGED <<pc, changed, requests>>
          \/ pc' = "poll" /\ changed' = FALSE /\ requests' = requests \cup {"prompt"}
        BY <1>6 DEF WaitOn
    <2> QED
        BY <2>3, <2>4, <2>5
<1>7. CASE Poll
    <2>1. /\ UNCHANGED <<phone, reports, status, entering, plays>> /\ pc = "poll"
          /\ changed' <=> changed \/ status = "Busy"
          /\ changed \in BOOLEAN
        BY <1>7 DEF Poll, PlayOK
    <2>2. ~Early
        BY <2>1 DEF PlayPhases, Early, BeforeAsking
    <2>3. requests \subseteq requests' /\ requests' \subseteq requests \cup {"query", "hangup"}
        BY <1>7 DEF Poll, Requested
    <2>4. pc' = "poll" \/ (pc' = "close" /\ CountsAsEnd)
        BY <1>1, <1>7 DEF Poll
    <2>5. ~Early'
        BY <2>1, <2>2, <2>4 DEF Early
    <2>6. ASSUME "prompt" \in requests' PROVE WhileAsking'
        <3>1. WhileAsking
            BY <2>2, <2>3, <2>6 DEF PlayPhases
        <3>2. ~CountsAsEnd /\ ~changed'
            BY <2>1, <3>1 DEF WhileAsking, CountsAsEnd
        <3> QED
            BY <1>1, <2>1, <2>3, <2>4, <3>1, <3>2 DEF WhileAsking
    <2>7. ASSUME phone' = "prompt" PROVE WhilePlaying'
        <3>1. WhilePlaying
            BY <2>1, <2>2, <2>7 DEF PlayPhases
        <3>2. ~CountsAsEnd
            BY <3>1 DEF WhilePlaying, CountsAsEnd
        <3>3. pc' = "poll" /\ "prompt" \notin requests' /\ BusyStays'
            BY <1>1, <2>1, <2>3, <2>4, <3>1, <3>2 DEF WhilePlaying
        <3>4. status' = "Busy" \/ changed' =>
                 status' = "Busy" /\ \A i \in DOMAIN reports' : reports'[i] = "Busy"
            BY <2>1, <3>1 DEF WhilePlaying
        <3> QED
            BY <3>3, <3>4 DEF WhilePlaying
    <2> QED
        BY <2>1, <2>5, <2>6, <2>7 DEF PlayPhases
<1>8. CASE CloseAfterPlay \/ WaitOff
    <2>1. /\ UNCHANGED <<phone, requests, reports, status, entering, plays>>
          /\ pc \in {"close", "waitoff"} /\ pc' \in {"waitoff", "done"}
        BY <1>8 DEF CloseAfterPlay, WaitOff
    <2>2. ~Early /\ ~Early'
        BY <2>1 DEF PlayPhases, Early, BeforeAsking
    <2>3. "prompt" \notin requests /\ phone # "prompt"
        BY <2>1, <2>2 DEF PlayPhases, WhileAsking, WhilePlaying
    <2> QED
        BY <2>1, <2>2, <2>3 DEF PlayPhases
<1> QED
    BY <1>3, <1>4, <1>5, <1>6, <1>7, <1>8

LEMMA PhasesInit == Init => EInv
<1> SUFFICES ASSUME Init PROVE BeforePlays /\ PlayPhases
    BY DEF EInv
<1>1. plays = 0 /\ pc = "none" /\ requests = {} /\ reports = <<>> /\ ~entering
      /\ phone \in {"idle", "meeting"} /\ status = StatusOf(phone)
    BY DEF Init
<1>2. Early /\ Silent
    BY <1>1 DEF Early, Silent
<1>3. BeforeAsking /\ BeforePlays
    BY <1>1, <1>2 DEF BeforeAsking, BeforePlays, StatusOf
<1> QED
    BY <1>1, <1>2, <1>3 DEF PlayPhases

\* Before the first play only the PBX and the relay go on.
LEMMA BeforeStep ==
    ASSUME RestOK, PhoneOK, BeforePlays, plays = 0, plays' = 0, Quiet, Quiet', [Next]_vars
    PROVE  BeforePlays'
<1> USE DEF pastVars, phoneVars, extVars, playVars
<1>0. ~isAutoEnter /\ ~(clicks' > 0) /\ clicks \in Nat
    BY DEF Quiet, Dialled, RestOK
<1>1. ~(PlayAudio \/ TxPressed \/ CloseRelay \/ RxClicked \/ AutoEnterCheck)
    <2>1. ~(clicks' = clicks + 1) /\ ~(plays' = plays + 1)
        BY <1>0
    <2> QED
        BY <1>0, <2>1 DEF PlayAudio, TxPressed, CloseRelay, RxClicked, Acts, AutoEnterCheck
<1>2. ~(FinishedAudioPlay \/ AutoEnterDial \/ RunBegins \/ HangUp \/ IdleSeen \/ OpenRelay \/ WaitOn
        \/ Poll \/ CloseAfterPlay \/ WaitOff \/ Serve \/ LoseRequest)
    BY DEF BeforePlays, FinishedAudioPlay, AutoEnterDial, RunBegins, HangUp, IdleSeen, OpenRelay, WaitOn,
           Poll, CloseAfterPlay, WaitOff, Serve, LoseRequest
<1>3. CASE TxReleased \/ SendData \/ HeartBeat \/ RecvData \/ RelayDisConnected \/ RelayConnected
           \/ UNCHANGED vars
    BY <1>3 DEF BeforePlays, TxReleased, SendData, HeartBeat, RecvData, RelayDisConnected,
                RelayConnected, vars
<1>4. CASE StatusChanged \/ LoseReport
    <2>1. reports # <<>> /\ UNCHANGED <<phone, requests, pc, entering>>
        <3>1. DOMAIN reports # {} /\ UNCHANGED <<phone, requests, pc, entering>>
            BY <1>4 DEF StatusChanged, LoseReport
        <3>2. DOMAIN <<>> = {}
            OBVIOUS
        <3> QED
            BY <3>1, <3>2
    <2> QED
        BY <2>1 DEF BeforePlays
<1>5. CASE CallEnds \/ IncomingCall \/ CallAnswered \/ PhoneOff \/ PhoneOn
    <2>1. UNCHANGED <<requests, pc, entering, status>> /\ phone' \in {"idle", "ring", "talk", "off"}
        BY <1>5 DEF CallEnds, IncomingCall, CallAnswered, PhoneOff, PhoneOn, PhoneGoesTo
    <2> QED
        BY <2>1 DEF BeforePlays
<1> QED
    BY <1>1, <1>2, <1>3, <1>4, <1>5, Steps

\* No play is taken back, and a call is forgotten only when a play begins.
LEMMA PastSteps ==
    RestOK /\ [Next]_vars => /\ plays' = 0 => plays = 0
                             /\ PlayAudio \/ (talked => talked')
<1> SUFFICES ASSUME RestOK, [Next]_vars
             PROVE  (plays' = 0 => plays = 0) /\ (PlayAudio \/ (talked => talked'))
    OBVIOUS
<1> USE DEF pastVars
<1>1. CASE PlayAudio
    BY <1>1 DEF PlayAudio, RestOK
<1>2. CASE CallAnswered
    BY <1>2 DEF CallAnswered
<1>3. CASE TxPressed \/ TxReleased \/ CloseRelay \/ RxClicked \/ RelayDisConnected \/ IncomingCall
           \/ PhoneOff \/ LoseRequest \/ LoseReport
    BY <1>3 DEF TxPressed, TxReleased, CloseRelay, RxClicked, RelayDisConnected, IncomingCall, PhoneOff,
                LoseRequest, LoseReport
<1>4. CASE FinishedAudioPlay \/ StatusChanged \/ AutoEnterCheck
           \/ AutoEnterDial \/ RunBegins \/ HangUp \/ IdleSeen \/ OpenRelay \/ WaitOn \/ Poll
           \/ CloseAfterPlay \/ WaitOff \/ SendData \/ HeartBeat \/ RecvData \/ RelayConnected
           \/ Serve \/ CallEnds \/ PhoneOn \/ UNCHANGED vars
    BY <1>4 DEF FinishedAudioPlay, StatusChanged, AutoEnterCheck,
           AutoEnterDial, RunBegins, HangUp, IdleSeen, OpenRelay, WaitOn, Poll, CloseAfterPlay,
           WaitOff, SendData, HeartBeat, RecvData, RelayConnected, Serve, CallEnds, PhoneOn, vars
<1> QED
    BY <1>1, <1>2, <1>3, <1>4, Steps

\* Every other step while nobody talks.
LEMMA PhasesOther ==
    ASSUME PhoneOK, ExtOK, PlayOK, RestOK, Quiet, Quiet', PlayPhases, ~PlayAudio, ~talked',
           [Next]_vars
    PROVE  PlayPhases'
<1>1. PhoneOK /\ ExtOK /\ PlayOK /\ RestOK
    OBVIOUS
<1>2. Quiet /\ PlayPhases
    OBVIOUS
<1>3. InOrder /\ ~isAutoEnter /\ ~(clicks' > 0)
    BY DEF Quiet, Dialled
<1>4. CASE FinishedAudioPlay \/ RunBegins \/ HangUp \/ IdleSeen \/ OpenRelay \/ WaitOn
           \/ Poll \/ CloseAfterPlay \/ WaitOff
    BY <1>1, <1>2, <1>4, PhasesThread
<1>5. ~(TxPressed \/ CloseRelay \/ RxClicked \/ AutoEnterCheck \/ AutoEnterDial)
    <2>1. clicks \in Nat
        BY <1>1 DEF RestOK
    <2>2. ~(clicks' = clicks + 1)
        BY <1>3, <2>1
    <2> QED
        BY <1>2, <1>3, <2>2 DEF TxPressed, CloseRelay, RxClicked, Acts, AutoEnterCheck, AutoEnterDial,
                                PlayPhases
<1>6. CASE TxReleased \/ SendData \/ HeartBeat \/ RecvData \/ RelayDisConnected \/ RelayConnected
           \/ UNCHANGED vars
    <2>1. UNCHANGED <<phone, requests, reports, extVars, playVars, plays>>
        BY <1>6 DEF TxReleased, SendData, HeartBeat, RecvData, RelayDisConnected, RelayConnected, vars,
                    phoneVars, pastVars
    <2> QED
        BY <1>2, <2>1, PhasesRequests
<1>7. CASE StatusChanged
    BY <1>1, <1>2, <1>3, <1>7, PhasesStatus
<1>8. CASE Serve
    BY <1>1, <1>2, <1>8, PhasesServe
<1>9. CASE CallEnds \/ IncomingCall \/ PhoneOff \/ PhoneOn
    <2>1. /\ UNCHANGED <<requests, extVars, playVars, plays>>
          /\ \E p \in {"off", "idle", "ring"} : PhoneGoesTo(p)
        BY <1>9 DEF CallEnds, IncomingCall, PhoneOff, PhoneOn, pastVars
    <2> QED
        BY <1>1, <1>2, <2>1, PhasesNoCall
<1>10. CASE LoseRequest
    <2>1. UNCHANGED <<phone, reports, extVars, playVars, plays>> /\ requests' \subseteq requests
        BY <1>10 DEF LoseRequest
    <2> QED
        BY <1>2, <2>1, PhasesRequests
<1>11. CASE LoseReport
    BY <1>1, <1>2, <1>11, PhasesLoseReport
<1> QED
    BY <1>4, <1>5, <1>6, <1>7, <1>8, <1>9, <1>10, <1>11, Steps DEF CallAnswered

LEMMA PhasesStep == TypeOK /\ EInv /\ [Next]_vars => EInv'
<1> SUFFICES ASSUME TypeOK, EInv, [Next]_vars, Quiet'
             PROVE  (plays' = 0 => BeforePlays') /\ (~talked' => PlayPhases')
    BY DEF EInv
<1>1. PhoneOK /\ ExtOK /\ PlayOK /\ RestOK
    BY Parts
<1>2. Quiet /\ (plays = 0 => BeforePlays) /\ (~talked => PlayPhases)
    BY <1>1, QuietBefore DEF EInv
<1>3. plays' = 0 => BeforePlays'
    BY <1>1, <1>2, BeforeStep, PastSteps
<1>4. CASE PlayAudio
    <2>1. plays = 0
        <3>1. plays' = plays + 1 /\ ~(plays' > 1) /\ plays \in Nat
            BY <1>1, <1>4 DEF PlayAudio, Quiet, Dialled, RestOK
        <3> QED
            BY <3>1
    <2> QED
        BY <1>1, <1>2, <1>3, <1>4, <2>1, PhasesPlay
<1>5. CASE ~PlayAudio
    <2> SUFFICES ASSUME ~talked' PROVE PlayPhases'
        BY <1>3
    <2>1. PlayPhases
        BY <1>1, <1>2, <1>5, PastSteps
    <2> QED
        BY <1>1, <1>2, <1>5, <2>1, PhasesOther
<1> QED
    BY <1>4, <1>5

\* A thread that sees its play end is right while reports keep their order, and there
\* was no other call (zchxVHFAudioPlayThread::run, its second loop).
THEOREM EndsAreSeen == Spec => []EndIsSeen
<1>1. TypeOK /\ EInv => EndIsSeen
    <2> SUFFICES ASSUME EInv, Quiet, ~talked, phone = "prompt", pc = "none", TypeOK PROVE FALSE
        BY DEF EndIsSeen, isPlayAudio, Quiet
    <2> QED
        BY DEF EInv, PlayPhases, Early, BeforeAsking, WhilePlaying
<1>2. Spec => []EInv
    <2>1. TypeOK /\ EInv /\ [Next]_vars => EInv'
        BY PhasesStep
    <2> QED
        BY <2>1, PhasesInit, TypeCorrect, PTL DEF Spec
<1> QED
    BY <1>1, <1>2, TypeCorrect, PTL

=============================================================================
