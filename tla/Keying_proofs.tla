--------------------------- MODULE Keying_proofs ---------------------------
(***************************************************************************)
(* Proofs about Keying: who talks with a TX button stays on the air, the   *)
(* open microphone is heard, and a contact is closed for a reason, also    *)
(* when the client closes, for any center, any stations and any limit of   *)
(* the microphone.                                                         *)
(***************************************************************************)
EXTENDS Keying, TLAPS

\* A client that is off holds nothing, and one that closes holds no button.
OffIsEmpty ==
    /\ app = "off" => /\ signals = <<>> /\ pressed = {} /\ linked = {} /\ ~isOpend /\ ~conn
                      /\ \A w \in Widget : play[w] = "no"
    /\ app # "up" => held = "none"

\* The poll cuts the microphone off only when its time is over: until then the
\* last it has said is that it is open.
LastIsOpen ==
    isOpend /\ age < MaxOpen /\ signals # <<>> => signals[Len(signals)] = "open"

IInv ==
    /\ TypeOK /\ OffIsEmpty /\ LastIsOpen
    /\ TalkerIsOnAir /\ MicIsHeard /\ OpenForAReason /\ LeftOnTheAir

-----------------------------------------------------------------------------
(* Sequences and commands *)

Signal  == {"open", "close", "cutoff"}
Command == [cmd : {0, 1},
            by : {"none", "mic", "tx", "play", "test", "exit", "start"}, at : {"up", "closing"}]

\* A queue to which a signal is appended.
LEMMA QueueAppend ==
    ASSUME NEW q \in Seq(Signal), NEW e \in Signal
    PROVE  /\ Append(q, e) \in Seq(Signal) /\ Len(Append(q, e)) = Len(q) + 1
           /\ Append(q, e) # <<>> /\ Append(q, e)[Len(Append(q, e))] = e
           /\ CloseQueued(Append(q, e)) <=> CloseQueued(q) \/ e # "open"
<1>1. /\ Append(q, e) \in Seq(Signal) /\ Len(Append(q, e)) = Len(q) + 1 /\ Len(q) \in Nat
      /\ Append(q, e)[Len(q) + 1] = e
      /\ \A i \in DOMAIN q : Append(q, e)[i] = q[i]
      /\ DOMAIN Append(q, e) = DOMAIN q \cup {Len(q) + 1}
    OBVIOUS
<1>2. Append(q, e) # <<>>
    <2>1. Len(<<>>) = 0
        OBVIOUS
    <2> QED
        BY <1>1, <2>1
<1> QED
    BY <1>1, <1>2 DEF CloseQueued

\* A queue whose head is taken.
LEMMA QueueTail ==
    ASSUME NEW q \in Seq(Signal), q # <<>>
    PROVE  /\ Tail(q) \in Seq(Signal) /\ Len(Tail(q)) = Len(q) - 1 /\ Len(q) \in Nat
           /\ Tail(q) # <<>> => Tail(q)[Len(Tail(q))] = q[Len(q)]
           /\ Tail(q) = <<>> => Head(q) = q[Len(q)]
           /\ CloseQueued(q) <=> CloseQueued(Tail(q)) \/ Head(q) # "open"
<1>1. /\ Len(q) \in Nat /\ Len(q) > 0 /\ DOMAIN q = 1..Len(q) /\ Head(q) = q[1]
      /\ Tail(q) \in Seq(Signal) /\ Len(Tail(q)) = Len(q) - 1
      /\ DOMAIN Tail(q) = 1..(Len(q) - 1)
      /\ \A i \in 1..(Len(q) - 1) : Tail(q)[i] = q[i + 1]
    OBVIOUS
<1>2. Tail(q) = <<>> => Len(q) = 1
    BY <1>1
<1>3. Tail(q) # <<>> => Len(q) - 1 \in 1..(Len(q) - 1)
    BY <1>1
<1>4. Tail(q) # <<>> => Tail(q)[Len(q) - 1] = q[Len(q)]
    BY <1>1, <1>3
<1>5. CloseQueued(Tail(q)) => CloseQueued(q)
    <2>1. \A i \in 1..(Len(q) - 1) : i + 1 \in 1..Len(q)
        BY <1>1
    <2> QED
        BY <1>1, <2>1 DEF CloseQueued
<1>6. ASSUME CloseQueued(q), Head(q) = "open" PROVE CloseQueued(Tail(q))
    <2>1. PICK i \in 1..Len(q) : q[i] # "open"
        BY <1>1, <1>6 DEF CloseQueued
    <2>2. i - 1 \in 1..(Len(q) - 1) /\ Tail(q)[i - 1] = q[(i - 1) + 1] /\ (i - 1) + 1 = i
        BY <1>1, <1>6, <2>1
    <2> QED
        BY <1>1, <2>1, <2>2 DEF CloseQueued
<1>7. Head(q) # "open" => CloseQueued(q)
    <2>1. 1 \in DOMAIN q
        BY <1>1
    <2> QED
        BY <1>1, <2>1 DEF CloseQueued
<1> QED
    BY <1>1, <1>2, <1>4, <1>5, <1>6, <1>7

\* What a command changes.
LEMMA SendFacts ==
    ASSUME TypeOK, app # "off", NEW L \in SUBSET Widget, NEW W \in SUBSET Widget,
           NEW c \in {0, 1}, NEW who \in {"mic", "tx", "play", "test", "exit"},
           Send(L, W, c, who)
    PROVE  /\ relay' \in [Widget -> BOOLEAN] /\ last' \in [Widget -> Command]
           /\ \A w \in W : last'[w] = [cmd |-> c, by |-> who, at |-> app]
           /\ \A w \in Widget \ W : last'[w] = last[w]
           /\ \A w \in W \cap L : relay'[w] <=> c = 1
           /\ \A w \in Widget \ (W \cap L) : relay'[w] <=> relay[w]
<1>1. [cmd |-> c, by |-> who, at |-> app] \in Command
    BY DEF TypeOK, Command
<1>2. last \in [Widget -> Command] /\ relay \in [Widget -> BOOLEAN]
    BY DEF TypeOK, Command
<1>3. last' = [w \in Widget |-> IF w \in W THEN [cmd |-> c, by |-> who, at |-> app] ELSE last[w]]
    BY DEF Send
<1>4. relay' = [w \in Widget |-> IF w \in W \cap L THEN c = 1 ELSE relay[w]]
    BY DEF Send
<1>5. last' \in [Widget -> Command]
    BY <1>1, <1>2, <1>3
<1>6. relay' \in [Widget -> BOOLEAN]
    BY <1>2, <1>4
<1>7. \A w \in W : last'[w] = [cmd |-> c, by |-> who, at |-> app]
    BY <1>3
<1>8. \A w \in Widget \ W : last'[w] = last[w]
    BY <1>3
<1>9. \A w \in W \cap L : relay'[w] <=> c = 1
    BY <1>4
<1>10. \A w \in Widget \ (W \cap L) : relay'[w] <=> relay[w]
    BY <1>2, <1>4
<1> QED
    BY <1>5, <1>6, <1>7, <1>8, <1>9, <1>10

\* The sets of widgets the actions command.
LEMMA Sets ==
    /\ Center \in Widget /\ MicWidget \subseteq Widget /\ MicWidget \cap Broadcast = {}
    /\ On \subseteq Widget
    /\ \A W \in SUBSET Widget : Idle(W) \subseteq W
    /\ TypeOK => \A b \in Widget \cup {"group"} : Reached(b) \subseteq Widget
    BY BoundAssumption DEF Widget, MicWidget, On, Idle, Reached, TypeOK

-----------------------------------------------------------------------------
(* Types *)

LEMMA TypeInit == Init => TypeOK /\ OffIsEmpty
<1> SUFFICES ASSUME Init PROVE TypeOK /\ OffIsEmpty
    OBVIOUS
<1>1. signals \in Seq(Signal) /\ Len(signals) <= MaxSignals /\ age \in 0..MaxOpen
    BY BoundAssumption DEF Init
<1>2. last \in [Widget -> Command]
    BY DEF Init, Command
<1> QED
    BY <1>1, <1>2 DEF Init, TypeOK, OffIsEmpty, Signal, Command

\* A command keeps the types, and so does the release of buttons.
LEMMA AirTypes ==
    ASSUME TypeOK, app # "off", NEW L \in SUBSET Widget, NEW W \in SUBSET Widget,
           NEW c \in {0, 1}, NEW who \in {"mic", "tx", "play", "test", "exit"},
           Send(L, W, c, who)
    PROVE  /\ relay' \in [Widget -> BOOLEAN]
           /\ last' \in [Widget -> Command]
           /\ \A S : Closed(L, W, S) => missed' \subseteq Widget
<1>1. relay' \in [Widget -> BOOLEAN] /\ last' \in [Widget -> Command]
    BY SendFacts
<1>2. missed \subseteq Widget /\ On \subseteq Widget
    BY Sets DEF TypeOK
<1>3. \A S : Closed(L, W, S) => missed' \subseteq Widget
    BY <1>2 DEF Closed
<1> QED
    BY <1>1, <1>3

LEMMA ReleaseTypes ==
    ASSUME TypeOK, app # "off", NEW L \in SUBSET Widget, NEW R \in SUBSET Widget, Release(L, R)
    PROVE  /\ relay' \in [Widget -> BOOLEAN] /\ last' \in [Widget -> Command]
           /\ missed' \subseteq Widget /\ pressed' \subseteq Widget
<1> DEFINE closed == R \ {w \in Widget : isPlayAudio(w)}
<1>1. closed \in SUBSET Widget /\ Send(L, closed, 0, "tx") /\ Closed(L, closed, R \ closed)
      /\ pressed' = pressed \ R
    BY DEF Release
<1>2. pressed' \subseteq Widget
    BY <1>1 DEF TypeOK
<1> HIDE DEF closed
<1> QED
    BY <1>1, <1>2, AirTypes

\* A button that is disabled is released, or only forgotten.
LEMMA ButtonTypes ==
    ASSUME TypeOK, app # "off", NEW w \in Widget, NEW L \in SUBSET Widget, ButtonGoes(w, L)
    PROVE  /\ relay' \in [Widget -> BOOLEAN] /\ last' \in [Widget -> Command]
           /\ missed' \subseteq Widget /\ pressed' \subseteq Widget
           /\ held' \in Widget \cup {"group", "none"}
<1>1. held' \in {held, "none"} /\ held \in Widget \cup {"group", "none"}
    BY DEF ButtonGoes, TypeOK
<1>2. CASE Release(L, Reached(w))
    <2>1. Reached(w) \in SUBSET Widget
        BY Sets
    <2> QED
        BY <1>1, <1>2, <2>1, ReleaseTypes
<1>3. CASE UNCHANGED <<pressed, airVars>>
    BY <1>1, <1>3 DEF airVars, TypeOK, Command
<1> QED
    BY <1>2, <1>3 DEF ButtonGoes

\* Who is heard of is there.
LEMMA NotOff ==
    ASSUME TypeOK, OffIsEmpty
    PROVE  /\ signals # <<>> => app # "off"
           /\ \A w \in Widget : play[w] # "no" => app # "off"
           /\ held # "none" => app = "up"
           /\ linked # {} => app # "off"
           /\ isOpend => app # "off"
    BY DEF OffIsEmpty

\* The thread of the microphone keeps the types.
LEMMA TypeMicStep == TypeOK /\ (Mic \/ SwitchMic \/ SecondPasses) => TypeOK'
<1> SUFFICES ASSUME TypeOK, Mic \/ SwitchMic \/ SecondPasses PROVE TypeOK'
    OBVIOUS
<1> USE DEF micVars, txVars, airVars, boundVars
<1>0. signals \in Seq(Signal) /\ MaxOpen \in Nat /\ MaxSignals \in Nat
    BY BoundAssumption DEF TypeOK, Signal
<1>1. CASE PollOn
    <2>1. \A e \in Signal : Append(signals, e) \in Seq(Signal) /\ Len(Append(signals, e)) = Len(signals) + 1
        BY <1>0, QueueAppend
    <2>2. Len(signals) \in Nat /\ Len(signals) < MaxSignals
        BY <1>0, <1>1 DEF PollOn
    <2>3. signals' \in {Append(signals, "open"), Append(signals, "cutoff"), signals}
        BY <1>1 DEF PollOn
    <2>4. signals' \in Seq(Signal) /\ Len(signals') <= MaxSignals
        BY <1>0, <2>1, <2>2, <2>3 DEF Signal
    <2>5. age' \in 0..MaxOpen /\ isOpend' \in BOOLEAN
        BY <1>0, <1>1 DEF PollOn, TypeOK
    <2> QED
        BY <1>1, <2>4, <2>5 DEF PollOn, TypeOK, Signal
<1>2. CASE PollOff
    <2>1. Append(signals, "close") \in Seq(Signal) /\ Len(Append(signals, "close")) = Len(signals) + 1
        BY <1>0, QueueAppend DEF Signal
    <2>2. Len(signals) \in Nat /\ Len(signals) < MaxSignals
        BY <1>0, <1>2 DEF PollOff
    <2>3. signals' \in {Append(signals, "close"), signals}
        BY <1>2 DEF PollOff
    <2>4. signals' \in Seq(Signal) /\ Len(signals') <= MaxSignals
        BY <1>0, <2>1, <2>2, <2>3
    <2> QED
        BY <1>2, <2>4 DEF PollOff, TypeOK, Signal
<1>3. CASE PollGarbled
    <2>1. missed' \subseteq Widget
        BY <1>3, Sets DEF PollGarbled, TypeOK
    <2>2. faults' \in Nat
        BY <1>3 DEF PollGarbled, TypeOK
    <2> QED
        BY <1>3, <2>1, <2>2 DEF PollGarbled, TypeOK
<1>4. CASE Disconnect
    <2>1. faults' \in Nat
        BY <1>4 DEF Disconnect, TypeOK
    <2> QED
        BY <1>4, <2>1 DEF Disconnect, TypeOK
<1>5. CASE Connect
    BY <1>5 DEF Connect, TypeOK
<1>6. CASE SwitchMic
    BY <1>6 DEF SwitchMic, TypeOK
<1>7. CASE SecondPasses
    <2>1. age' \in 0..MaxOpen
        BY <1>0, <1>7 DEF SecondPasses, TypeOK
    <2> QED
        BY <1>7, <2>1 DEF SecondPasses, TypeOK
<1> QED
    BY <1>1, <1>2, <1>3, <1>4, <1>5, <1>6, <1>7 DEF Mic

\* Taking a signal leaves a queue that is not longer.
LEMMA TakenTypes ==
    ASSUME TypeOK, signals # <<>>, signals' = Tail(signals)
    PROVE  signals' \in Seq(Signal) /\ Len(signals') <= MaxSignals
<1>1. signals \in Seq(Signal) /\ Len(signals) <= MaxSignals /\ MaxSignals \in Nat
    BY BoundAssumption DEF TypeOK, Signal
<1>2. Tail(signals) \in Seq(Signal) /\ Len(Tail(signals)) = Len(signals) - 1 /\ Len(signals) \in Nat
    BY <1>1, QueueTail
<1> QED
    BY <1>1, <1>2

\* So do the steps of the window,
LEMMA TypeGuiStep == TypeOK /\ OffIsEmpty /\ Gui => TypeOK'
<1> SUFFICES ASSUME TypeOK, OffIsEmpty, Gui PROVE TypeOK'
    OBVIOUS
<1> USE DEF micVars, txVars, boundVars
<1>0. /\ missed \subseteq Widget /\ linked \in SUBSET Widget /\ MicWidget \in SUBSET Widget
      /\ pressed \subseteq Widget /\ faults \in Nat /\ presses \in Nat
    BY Sets DEF TypeOK
<1>1. CASE RecvOpen
    <2>1. app # "off" /\ signals' \in Seq(Signal) /\ Len(signals') <= MaxSignals
        BY <1>1, NotOff, TakenTypes DEF RecvOpen
    <2>2. relay' \in [Widget -> BOOLEAN] /\ last' \in [Widget -> Command]
        BY <1>0, <1>1, <2>1, AirTypes DEF RecvOpen
    <2>3. missed' \subseteq Widget
        BY <1>0, <1>1 DEF RecvOpen
    <2> QED
        BY <1>1, <2>1, <2>2, <2>3 DEF RecvOpen, TypeOK, Signal, Command
<1>2. CASE RecvClose
    <2>1. app # "off" /\ signals' \in Seq(Signal) /\ Len(signals') <= MaxSignals
        BY <1>2, NotOff, TakenTypes DEF RecvClose
    <2>2. /\ relay' \in [Widget -> BOOLEAN] /\ last' \in [Widget -> Command]
          /\ missed' \subseteq Widget
        <3>1. CASE CenterIsUsed
            BY <1>0, <1>2, <3>1, Sets DEF RecvClose, TypeOK, Command
        <3>2. CASE ~CenterIsUsed
            <4>1. Idle(MicWidget) \in SUBSET Widget
                BY <1>0, Sets
            <4>2. /\ Send(linked, Idle(MicWidget), 0, "mic")
                  /\ Closed(linked, Idle(MicWidget), MicWidget \ Idle(MicWidget))
                BY <1>2, <3>2 DEF RecvClose
            <4> QED
                BY <1>0, <2>1, <4>1, <4>2, AirTypes
        <3> QED
            BY <3>1, <3>2
    <2> QED
        BY <1>2, <2>1, <2>2 DEF RecvClose, TypeOK, Signal, Command
<1>3. CASE ReleaseTx
    <2>1. /\ app # "off" /\ held \in Widget \cup {"group"} /\ Release(linked, Reached(held))
          /\ Reached(held) \in SUBSET Widget
        BY <1>3, NotOff, Sets DEF ReleaseTx, TypeOK
    <2>2. /\ relay' \in [Widget -> BOOLEAN] /\ last' \in [Widget -> Command]
          /\ missed' \subseteq Widget /\ pressed' \subseteq Widget
        BY <1>0, <2>1, ReleaseTypes
    <2> QED
        BY <1>3, <2>2 DEF ReleaseTx, TypeOK, Command
<1>4. ASSUME NEW b \in Widget \cup {"group"}, PressTx(b) PROVE TypeOK'
    <2>1. Reached(b) \in SUBSET Widget /\ app # "off" /\ Send(linked, Reached(b), 1, "tx")
        BY <1>4, Sets DEF PressTx
    <2>2. relay' \in [Widget -> BOOLEAN] /\ last' \in [Widget -> Command]
        BY <1>0, <2>1, AirTypes
    <2>3. presses' \in Nat /\ pressed' \subseteq Widget
        BY <1>0, <1>4, <2>1 DEF PressTx
    <2> QED
        BY <1>4, <2>2, <2>3 DEF PressTx, TypeOK, Command
<1>5. ASSUME NEW w \in Widget, TxDisabled(w) PROVE TypeOK'
    <2>1. /\ relay' \in [Widget -> BOOLEAN] /\ last' \in [Widget -> Command]
          /\ missed' \subseteq Widget /\ pressed' \subseteq Widget
          /\ held' \in Widget \cup {"group", "none"}
        BY <1>0, <1>5, ButtonTypes DEF TxDisabled, Up
    <2>2. faults' \in Nat /\ disabled' \subseteq Widget
        BY <1>0, <1>5 DEF TxDisabled, TypeOK
    <2> QED
        BY <1>5, <2>1, <2>2 DEF TxDisabled, TypeOK, Command
<1>7. ASSUME NEW w \in Widget, TxEnabled(w) PROVE TypeOK'
    BY <1>7 DEF TxEnabled, TypeOK, airVars
<1>6. ASSUME NEW w \in Widget, CloseClicked(w) PROVE TypeOK'
    <2>1. {w} \in SUBSET Widget /\ app # "off" /\ Send(linked, {w}, 0, "test") /\ Closed(linked, {w}, {})
        BY <1>6 DEF CloseClicked
    <2>2. relay' \in [Widget -> BOOLEAN] /\ last' \in [Widget -> Command] /\ missed' \subseteq Widget
        BY <1>0, <2>1, AirTypes
    <2>3. presses' \in Nat
        BY <1>0, <1>6 DEF CloseClicked
    <2> QED
        BY <1>6, <2>2, <2>3 DEF CloseClicked, TypeOK, Command
<1> QED
    BY <1>1, <1>2, <1>3, <1>4, <1>5, <1>6, <1>7 DEF Gui

\* those of the sockets and of the plays,
LEMMA TypeLinkStep == TypeOK /\ OffIsEmpty /\ (Links \/ Plays) => TypeOK'
<1> SUFFICES ASSUME TypeOK, OffIsEmpty, Links \/ Plays PROVE TypeOK'
    OBVIOUS
<1> USE DEF micVars, txVars, boundVars
<1>0. linked \in SUBSET Widget /\ faults \in Nat /\ plays \in Nat
    BY DEF TypeOK
<1>1. ASSUME NEW w \in Widget, LinkDown(w) PROVE TypeOK'
    <2>1. app # "off"
        BY <1>0, <1>1, NotOff DEF LinkDown
    <2>2. PICK L \in SUBSET Widget : L = linked'
        BY <1>0, <1>1 DEF LinkDown
    <2>3. ButtonGoes(w, L)
        BY <1>1, <2>2 DEF LinkDown
    <2>4. /\ relay' \in [Widget -> BOOLEAN] /\ last' \in [Widget -> Command]
          /\ missed' \subseteq Widget /\ pressed' \subseteq Widget
          /\ held' \in Widget \cup {"group", "none"}
        BY <2>1, <2>3, ButtonTypes
    <2>5. faults' \in Nat /\ disabled' \subseteq Widget
        BY <1>0, <1>1 DEF LinkDown, TypeOK
    <2> QED
        BY <1>1, <2>2, <2>4, <2>5 DEF LinkDown, TypeOK, Command
<1>2. ASSUME NEW w \in Widget, LinkUp(w) PROVE TypeOK'
    BY <1>0, <1>2 DEF LinkUp, TypeOK, airVars
<1>3. ASSUME NEW w \in Widget, PlayBegins(w) PROVE TypeOK'
    <2>1. plays' \in Nat /\ play' \in [Widget -> {"no", "begun", "starved", "open", "closed"}]
        BY <1>0, <1>3 DEF PlayBegins, TypeOK
    <2> QED
        BY <1>3, <2>1 DEF PlayBegins, TypeOK, airVars
<1>4. ASSUME NEW w \in Widget, PlayOpens(w) PROVE TypeOK'
    <2>1. {w} \in SUBSET Widget /\ app # "off" /\ Send(linked, {w}, 1, "play")
        BY <1>4, NotOff DEF PlayOpens
    <2>2. relay' \in [Widget -> BOOLEAN] /\ last' \in [Widget -> Command]
        BY <1>0, <2>1, AirTypes
    <2>3. play' \in [Widget -> {"no", "begun", "starved", "open", "closed"}]
        BY <1>4 DEF PlayOpens, TypeOK
    <2> QED
        BY <1>4, <2>2, <2>3 DEF PlayOpens, TypeOK, Command
<1>5. ASSUME NEW w \in Widget, PlayCloses(w) PROVE TypeOK'
    <2>1. {w} \in SUBSET Widget /\ app # "off" /\ Send(linked, {w}, 0, "play") /\ Closed(linked, {w}, {})
        BY <1>5, NotOff DEF PlayCloses
    <2>2. relay' \in [Widget -> BOOLEAN] /\ last' \in [Widget -> Command] /\ missed' \subseteq Widget
        BY <1>0, <2>1, AirTypes
    <2>3. play' \in [Widget -> {"no", "begun", "starved", "open", "closed"}]
        BY <1>5 DEF PlayCloses, TypeOK
    <2> QED
        BY <1>5, <2>2, <2>3 DEF PlayCloses, TypeOK, Command
<1>7. ASSUME NEW w \in Widget, PlayStarves(w) PROVE TypeOK'
    <2>1. play' \in [Widget -> {"no", "begun", "starved", "open", "closed"}]
        BY <1>7 DEF PlayStarves, TypeOK
    <2> QED
        BY <1>7, <2>1 DEF PlayStarves, TypeOK, airVars
<1>6. ASSUME NEW w \in Widget, PlayEnds(w) PROVE TypeOK'
    <2>1. play' \in [Widget -> {"no", "begun", "starved", "open", "closed"}]
        BY <1>6 DEF PlayEnds, TypeOK
    <2> QED
        BY <1>6, <2>1 DEF PlayEnds, TypeOK, airVars
<1> QED
    BY <1>1, <1>2, <1>3, <1>4, <1>5, <1>6, <1>7 DEF Links, Plays

\* and the comings and goings of the client.
LEMMA TypeClientStep == TypeOK /\ OffIsEmpty /\ Client => TypeOK'
<1> SUFFICES ASSUME TypeOK, OffIsEmpty, Client PROVE TypeOK'
    OBVIOUS
<1> USE DEF micVars, txVars, boundVars
<1>0. /\ missed \subseteq Widget /\ linked \in SUBSET Widget /\ faults \in Nat
      /\ On \subseteq Widget /\ last \in [Widget -> Command]
      /\ 0 \in 0..MaxOpen /\ <<>> \in Seq(Signal) /\ Len(<<>>) <= MaxSignals
    BY Sets, BoundAssumption DEF TypeOK, Command
<1>1. AskBroadcastToClose => last' \in [Widget -> Command]
    BY <1>0 DEF AskBroadcastToClose, Command
<1>2. WidgetsGone => /\ ~isOpend' /\ isOpend' \in BOOLEAN /\ age' \in 0..MaxOpen
                     /\ conn' \in BOOLEAN /\ signals' \in Seq(Signal) /\ Len(signals') <= MaxSignals
                     /\ pressed' \subseteq Widget /\ disabled' \subseteq Widget
                     /\ linked' \subseteq Widget
                     /\ play' \in [Widget -> {"no", "begun", "starved", "open", "closed"}]
    BY <1>0 DEF WidgetsGone
<1>3. CASE Die \/ Rebuild
    <2>1. faults' \in Nat /\ UNCHANGED <<mic, switches, presses, plays>>
        BY <1>0, <1>3 DEF Die, Rebuild
    <2>2. CASE Dies
        <3>1. WidgetsGone /\ app' = "off" /\ held' = "none" /\ wired' = TRUE
              /\ missed' = missed \cup On /\ relay' = relay /\ last' = last
            BY <2>2 DEF Dies
        <3> QED
            BY <1>0, <1>2, <2>1, <3>1 DEF TypeOK, Signal, Command
    <2>3. CASE ~Dies
        <3>1. /\ WidgetsGone /\ wired' = FALSE /\ held' = IF held = "group" THEN "group" ELSE "none"
              /\ missed' = missed \cup On /\ AskBroadcastToClose /\ app' = app /\ relay' = relay
            BY <1>3, <2>3 DEF Die, Rebuild
        <3> QED
            BY <1>0, <1>1, <1>2, <2>1, <3>1 DEF TypeOK, Signal, Command
    <2> QED
        BY <2>2, <2>3
<1>4. CASE ConfirmExit
    <2>1. Widget \in SUBSET Widget /\ app # "off" /\ Send(linked, Widget, 0, "exit") /\ Closed(linked, Widget, {})
        BY <1>4 DEF ConfirmExit
    <2>2. relay' \in [Widget -> BOOLEAN] /\ last' \in [Widget -> Command] /\ missed' \subseteq Widget
        BY <1>0, <2>1, AirTypes
    <2> QED
        BY <1>4, <2>2 DEF ConfirmExit, TypeOK, Command
<1>5. CASE ExitEnds
    <2>1. /\ app' = "off" /\ WidgetsGone /\ wired' = TRUE
          /\ UNCHANGED <<mic, held, airVars, boundVars>>
        BY <1>5 DEF ExitEnds
    <2> QED
        BY <1>2, <2>1 DEF TypeOK, Signal, Command, airVars
<1>6. CASE Start
    <2>1. faults' \in Nat /\ missed' \subseteq Widget /\ last' \in [Widget -> Command]
        BY <1>0, <1>1, <1>6 DEF Start
    <2> QED
        BY <1>6, <2>1 DEF Start, TypeOK, Command
<1> QED
    BY <1>3, <1>4, <1>5, <1>6 DEF Client

LEMMA TypeStep == TypeOK /\ OffIsEmpty /\ [Next]_vars => TypeOK'
<1>1. TypeOK /\ UNCHANGED vars => TypeOK'
    BY DEF vars, micVars, txVars, airVars, boundVars, TypeOK
<1> QED
    BY <1>1, TypeMicStep, TypeGuiStep, TypeLinkStep, TypeClientStep DEF Next

-----------------------------------------------------------------------------
(* What the client holds, and what the microphone has said *)

\* A client that is off takes no step but its start and the microphone's.
LEMMA OffStep == TypeOK /\ OffIsEmpty /\ [Next]_vars => OffIsEmpty'
<1> SUFFICES ASSUME TypeOK, OffIsEmpty, [Next]_vars PROVE OffIsEmpty'
    OBVIOUS
<1> USE DEF micVars, txVars, boundVars
<1>1. CASE app' = "up"
    BY <1>1 DEF OffIsEmpty
<1>2. CASE Die
    BY <1>2 DEF Die, Dies, WidgetsGone, OffIsEmpty
<1>3. CASE Rebuild
    <2>1. Dies => OffIsEmpty'
        BY DEF Dies, WidgetsGone, OffIsEmpty
    <2>2. ~Dies => app' = app /\ app # "off" /\ held' = IF held = "group" THEN "group" ELSE "none"
        BY <1>3 DEF Rebuild, Up
    <2> QED
        BY <2>1, <2>2 DEF OffIsEmpty
<1>4. CASE ExitEnds
    BY <1>4 DEF ExitEnds, WidgetsGone, OffIsEmpty
<1>5. CASE ConfirmExit
    BY <1>5 DEF ConfirmExit, OffIsEmpty
<1>6. CASE Start
    BY <1>6 DEF Start, OffIsEmpty
<1>7. CASE Mic \/ SwitchMic \/ SecondPasses
    <2>1. app' = app /\ UNCHANGED <<pressed, linked, play, held>>
        BY <1>7 DEF Mic, PollOn, PollOff, PollGarbled, Disconnect, Connect, SwitchMic, SecondPasses
    <2>2. app = "off" => UNCHANGED <<conn, signals, isOpend>>
        BY <1>7 DEF OffIsEmpty, Mic, PollOn, PollOff, PollGarbled, Disconnect, Connect, SwitchMic,
                    SecondPasses, Up
    <2> QED
        BY <2>1, <2>2 DEF OffIsEmpty
<1>8. ASSUME Gui \/ Links \/ Plays PROVE OffIsEmpty'
    <2>1. app' = app /\ (app = "closing" => held' = held)
        BY <1>8, NotOff DEF Gui, RecvOpen, RecvClose, ReleaseTx, PressTx, TxDisabled, TxEnabled, ButtonGoes,
                    CloseClicked, Links, LinkDown, LinkUp, Plays, PlayBegins, PlayStarves, PlayOpens, PlayCloses, PlayEnds
    <2>2. app # "off"
        BY <1>8, NotOff DEF Gui, RecvOpen, RecvClose, ReleaseTx, PressTx, TxDisabled, TxEnabled, ButtonGoes,
                    CloseClicked, Links, LinkDown, LinkUp, Plays, PlayBegins, PlayStarves, PlayOpens, PlayCloses, PlayEnds, Up
    <2> QED
        BY <2>1, <2>2 DEF OffIsEmpty, TypeOK
<1>9. CASE UNCHANGED vars
    BY <1>9 DEF vars, OffIsEmpty
<1> QED
    BY <1>2, <1>3, <1>4, <1>5, <1>6, <1>7, <1>8, <1>9 DEF Next, Client

\* The poll says "cutoff" when the time is over and "close" when it forgets.
LEMMA LastStep == TypeOK /\ OffIsEmpty /\ LastIsOpen /\ [Next]_vars => LastIsOpen'
<1> SUFFICES ASSUME TypeOK, OffIsEmpty, LastIsOpen, [Next]_vars,
                    isOpend', age' < MaxOpen, signals' # <<>>
             PROVE  signals'[Len(signals')] = "open"
    BY DEF LastIsOpen
<1> USE DEF micVars
<1>0. signals \in Seq(Signal) /\ age \in Nat /\ MaxOpen \in Nat
    BY BoundAssumption DEF TypeOK, Signal
<1>1. CASE signals' = signals /\ (isOpend' <=> isOpend) /\ age' \in {age, age + 1}
    BY <1>0, <1>1 DEF LastIsOpen
<1>2. CASE PollOn
    <2>1. CASE ~isOpend
        <3>1. signals' = Append(signals, "open")
            BY <1>2, <2>1 DEF PollOn
        <3> QED
            BY <1>0, <3>1, QueueAppend DEF Signal
    <2>2. CASE isOpend
        <3>1. age' = age /\ signals' = signals
            BY <1>0, <1>2, <2>2 DEF PollOn, TooLong
        <3> QED
            BY <2>2, <3>1 DEF LastIsOpen
    <2> QED
        BY <2>1, <2>2
<1>3. CASE RecvOpen \/ RecvClose
    <2>1. signals # <<>> /\ signals' = Tail(signals) /\ isOpend' = isOpend /\ age' = age
        BY <1>3 DEF RecvOpen, RecvClose
    <2>2. signals'[Len(signals')] = signals[Len(signals)]
        BY <1>0, <2>1, QueueTail
    <2> QED
        BY <2>1, <2>2 DEF LastIsOpen
<1>4. CASE PollOff \/ PollGarbled
    BY <1>4 DEF PollOff, PollGarbled
<1>5. CASE Rebuild \/ Die \/ ExitEnds
    BY <1>5 DEF Rebuild, Die, ExitEnds, Dies, WidgetsGone
<1>6. CASE Disconnect \/ Connect \/ SwitchMic \/ SecondPasses \/ ConfirmExit \/ Start \/ Plays \/ Links
    <2>1. signals' = signals /\ (isOpend' <=> isOpend) /\ age' \in {age, age + 1}
        BY <1>0, <1>6 DEF Disconnect, Connect, SwitchMic, SecondPasses, ConfirmExit, Start, Plays, Links,
              LinkDown, LinkUp, PlayBegins, PlayStarves, PlayOpens, PlayCloses, PlayEnds
    <2> QED
        BY <1>1, <2>1
<1>7. CASE ReleaseTx \/ \E w \in Widget : TxDisabled(w) \/ TxEnabled(w) \/ CloseClicked(w)
    <2>1. signals' = signals /\ (isOpend' <=> isOpend) /\ age' \in {age, age + 1}
        BY <1>0, <1>7 DEF ReleaseTx, TxDisabled, TxEnabled, CloseClicked
    <2> QED
        BY <1>1, <2>1
<1>8. CASE \E b \in Widget \cup {"group"} : PressTx(b)
    <2>1. signals' = signals /\ (isOpend' <=> isOpend) /\ age' \in {age, age + 1}
        BY <1>0, <1>8 DEF PressTx
    <2> QED
        BY <1>1, <2>1
<1>9. CASE UNCHANGED vars
    <2>1. signals' = signals /\ (isOpend' <=> isOpend) /\ age' \in {age, age + 1}
        BY <1>0, <1>9 DEF vars
    <2> QED
        BY <1>1, <2>1
<1> QED
    BY <1>2, <1>3, <1>4, <1>5, <1>6, <1>7, <1>8, <1>9 DEF Next, Mic, Gui, Client

-----------------------------------------------------------------------------
(* Who is on the air *)

\* A close leaves on what it does not reach, and the history has it.
LEMMA CloseFacts ==
    ASSUME TypeOK, app # "off", NEW L \in SUBSET Widget, NEW W \in SUBSET Widget, NEW S,
           NEW who \in {"mic", "tx", "play", "test", "exit"},
           Send(L, W, 0, who), Closed(L, W, S)
    PROVE  /\ \A w \in Widget : relay'[w] => /\ relay[w] /\ (w \in missed => w \in missed')
                                             /\ (w \in W \cup S => w \in missed')
           /\ \A w \in W : last'[w] = [cmd |-> 0, by |-> who, at |-> app]
           /\ \A w \in Widget \ W : last'[w] = last[w]
<1>0. /\ last' = [w \in Widget |-> IF w \in W THEN [cmd |-> 0, by |-> who, at |-> app] ELSE last[w]]
      /\ relay' = [w \in Widget |-> IF w \in W \cap L THEN 0 = 1 ELSE relay[w]]
    BY DEF Send
<1>1. /\ \A w \in W : last'[w] = [cmd |-> 0, by |-> who, at |-> app]
      /\ \A w \in Widget \ W : last'[w] = last[w]
      /\ \A w \in W \cap L : ~relay'[w]
      /\ \A w \in Widget \ (W \cap L) : relay'[w] <=> relay[w]
    <2>1. /\ \A w \in W : last'[w] = [cmd |-> 0, by |-> who, at |-> app]
          /\ \A w \in Widget \ W : last'[w] = last[w]
        BY <1>0
    <2>2. \A w \in W \cap L : ~relay'[w]
        <3>1. W \cap L \subseteq Widget
            OBVIOUS
        <3>2. \A w \in W \cap L : relay'[w] = (0 = 1)
            BY <1>0, <3>1
        <3>3. \A w \in W \cap L : relay'[w] <=> 0 = 1
            BY <3>2
        <3> QED
            BY <3>3
    <2>3. \A w \in Widget \ (W \cap L) : relay'[w] <=> relay[w]
        BY <1>0
    <2> QED
        BY <2>1, <2>2, <2>3
<1>2. missed' = (missed \ (W \cap L)) \cup (On \cap (S \cup (W \ L)))
    BY DEF Closed
<1>3. \A w \in Widget : relay[w] => w \in On
    BY DEF On
<1> QED
    BY <1>1, <1>2, <1>3

\* Letting TX go closes the relays that play nothing.
LEMMA ReleaseFacts ==
    ASSUME TypeOK, app # "off", NEW L \in SUBSET Widget, NEW R \in SUBSET Widget, Release(L, R)
    PROVE  /\ pressed' = pressed \ R
           /\ \A w \in Widget : relay'[w] => /\ relay[w] /\ (w \in missed => w \in missed')
                                             /\ (w \in R => w \in missed')
           /\ \A w \in Widget : last'[w] = last[w] \/ (w \in R /\ last'[w].by = "tx")
<1> DEFINE closed == R \ {w \in Widget : isPlayAudio(w)}
<1>1. closed \in SUBSET Widget /\ Send(L, closed, 0, "tx") /\ Closed(L, closed, R \ closed)
      /\ pressed' = pressed \ R /\ closed \subseteq R
    BY DEF Release
<1> HIDE DEF closed
<1>2. \A w \in Widget : relay'[w] => /\ relay[w] /\ (w \in missed => w \in missed')
                                     /\ (w \in closed \cup (R \ closed) => w \in missed')
    BY <1>1, CloseFacts
<1>3. last' = [w \in Widget |-> IF w \in closed THEN [cmd |-> 0, by |-> "tx", at |-> app] ELSE last[w]]
    BY <1>1 DEF Send
<1>4. \A w \in Widget : last'[w] = last[w] \/ (w \in R /\ last'[w].by = "tx")
    BY <1>1, <1>3
<1> QED
    BY <1>1, <1>2, <1>4

\* Every step that commands no relay leaves the air as it is, or ends the client.
Quiet ==
    \/ PollOn \/ PollOff \/ PollGarbled \/ Disconnect \/ Connect \/ SwitchMic \/ SecondPasses
    \/ \E w \in Widget : LinkUp(w) \/ PlayBegins(w) \/ PlayStarves(w) \/ PlayEnds(w)
    \/ ExitEnds \/ UNCHANGED vars

LEMMA QuietFacts ==
    Quiet => relay' = relay /\ last' = last /\ (missed \subseteq missed')
<1> USE DEF airVars
<1>1. PollOn \/ PollOff \/ PollGarbled \/ Disconnect \/ Connect
        => relay' = relay /\ last' = last /\ (missed \subseteq missed')
    BY DEF PollOn, PollOff, PollGarbled, Disconnect, Connect
<1>2. ASSUME NEW w \in Widget, LinkUp(w) \/ PlayBegins(w) \/ PlayStarves(w) \/ PlayEnds(w)
      PROVE  relay' = relay /\ last' = last /\ (missed \subseteq missed')
    BY <1>2 DEF LinkUp, PlayBegins, PlayStarves, PlayEnds
<1>3. SwitchMic \/ SecondPasses \/ ExitEnds \/ UNCHANGED vars
        => relay' = relay /\ last' = last /\ (missed \subseteq missed')
    BY DEF SwitchMic, SecondPasses, ExitEnds, vars
<1> QED
    BY <1>1, <1>2, <1>3 DEF Quiet

\* A button that is disabled while it is down is released, or only forgotten.
Disabled(w) ==
    /\ app = "up" /\ app' = "up" /\ UNCHANGED <<signals, isOpend, age, play>>
    /\ \/ \E L \in SUBSET Widget : Release(L, Reached(w)) /\ linked' \in {L, linked}
       \/ UNCHANGED <<pressed, airVars>>

LEMMA DisabledFacts ==
    ASSUME TypeOK, OffIsEmpty, NEW w \in Widget, TxDisabled(w) \/ TxEnabled(w) \/ LinkDown(w)
    PROVE  Disabled(w) \/ UNCHANGED <<app, signals, isOpend, age, play, pressed, airVars>>
<1> USE DEF micVars
<1>1. linked \in SUBSET Widget /\ linked \ {w} \in SUBSET Widget
    BY DEF TypeOK
<1>2. CASE TxEnabled(w)
    BY <1>2 DEF TxEnabled
<1>3. CASE TxDisabled(w) \/ LinkDown(w)
    <2>1. app' = app /\ UNCHANGED <<signals, isOpend, age, play>>
        BY <1>3 DEF TxDisabled, LinkDown
    <2>2. PICK L \in SUBSET Widget : L = linked'
        BY <1>1, <1>3 DEF TxDisabled, LinkDown
    <2>3. ButtonGoes(w, L)
        BY <1>3, <2>2 DEF TxDisabled, LinkDown
    <2>4. CASE held # "none" /\ w \in pressed
        <3>1. app = "up"
            BY <2>4, NotOff
        <3> QED
            BY <2>1, <2>2, <2>3, <2>4, <3>1 DEF ButtonGoes, Disabled
    <2>5. CASE ~(held # "none" /\ w \in pressed)
        BY <2>1, <2>3, <2>5 DEF ButtonGoes
    <2> QED
        BY <2>4, <2>5
<1> QED
    BY <1>2, <1>3

\* The steps of the client, sorted by what they do to the air.
LEMMA Cases ==
    ASSUME TypeOK, OffIsEmpty, [Next]_vars
    PROVE  \/ Quiet \/ RecvOpen \/ RecvClose \/ ReleaseTx
           \/ \E b \in Widget \cup {"group"} : PressTx(b)
           \/ \E w \in Widget :
                Disabled(w) \/ CloseClicked(w) \/ PlayOpens(w) \/ PlayCloses(w)
           \/ UNCHANGED <<app, signals, isOpend, age, play, pressed, airVars>>
           \/ Rebuild \/ Die \/ ConfirmExit \/ Start
<1>1. CASE Mic \/ SwitchMic \/ SecondPasses \/ UNCHANGED vars
    BY <1>1 DEF Mic, Quiet
<1>2. CASE Gui
    BY <1>2, DisabledFacts DEF Gui
<1>3. CASE Links
    BY <1>3, DisabledFacts DEF Links, Quiet
<1>4. CASE Plays
    BY <1>4 DEF Plays, Quiet
<1>5. CASE Client
    BY <1>5 DEF Client, Quiet
<1> QED
    BY <1>1, <1>2, <1>3, <1>4, <1>5 DEF Next

\* An open reaches what is connected.
LEMMA OpenFacts ==
    ASSUME TypeOK, NEW L \in SUBSET Widget, NEW W \in SUBSET Widget,
           NEW who \in {"mic", "tx", "play"}, Send(L, W, 1, who)
    PROVE  /\ \A w \in Widget : relay'[w] => (w \in W /\ w \in L) \/ relay[w]
           /\ \A w \in W : last'[w].cmd = 1 /\ last'[w].at = app
           /\ \A w \in Widget \ W : last'[w] = last[w]
<1>0. /\ last' = [w \in Widget |-> IF w \in W THEN [cmd |-> 1, by |-> who, at |-> app] ELSE last[w]]
      /\ relay' = [w \in Widget |-> IF w \in W \cap L THEN 1 = 1 ELSE relay[w]]
    BY DEF Send
<1>1. \A w \in Widget : relay'[w] => (w \in W /\ w \in L) \/ relay[w]
    BY <1>0
<1>2. \A w \in W : last'[w] = [cmd |-> 1, by |-> who, at |-> app]
    BY <1>0
<1>3. \A w \in Widget \ W : last'[w] = last[w]
    BY <1>0
<1> QED
    BY <1>1, <1>2, <1>3

\* What RecvClose does where the center is not in use, and ConfirmExit.
LEMMA RecvCloseFacts ==
    ASSUME TypeOK, OffIsEmpty, RecvClose
    PROVE  /\ \A w \in Widget : relay'[w] => /\ relay[w] /\ (w \in missed => w \in missed')
                                             /\ (w \in MicWidget => w \in missed')
           /\ \A w \in Widget : \/ last'[w] = last[w]
                                \/ /\ w \in MicWidget /\ ~isTxPressed(w) /\ last'[w].at = app
<1>1. app # "off" /\ linked \in SUBSET Widget /\ MicWidget \in SUBSET Widget
      /\ Idle(MicWidget) \in SUBSET Widget
    BY NotOff, Sets DEF RecvClose, TypeOK
<1>2. CASE CenterIsUsed
    <2>1. missed' = missed \cup (On \cap MicWidget) /\ relay' = relay /\ last' = last
        BY <1>2 DEF RecvClose
    <2> QED
        BY <2>1 DEF On
<1>3. CASE ~CenterIsUsed
    <2>1. /\ Send(linked, Idle(MicWidget), 0, "mic")
          /\ Closed(linked, Idle(MicWidget), MicWidget \ Idle(MicWidget))
        BY <1>3 DEF RecvClose
    <2>2. \A w \in Widget : relay'[w] =>
             /\ relay[w] /\ (w \in missed => w \in missed')
             /\ (w \in Idle(MicWidget) \cup (MicWidget \ Idle(MicWidget)) => w \in missed')
        BY <1>1, <2>1, CloseFacts
    <2>3. last' = [w \in Widget |-> IF w \in Idle(MicWidget)
                                    THEN [cmd |-> 0, by |-> "mic", at |-> app] ELSE last[w]]
        BY <2>1 DEF Send
    <2>4. \A w \in Idle(MicWidget) : w \in MicWidget /\ ~isTxPressed(w)
        BY DEF Idle
    <2>5. \A w \in Widget : \/ last'[w] = last[w]
                            \/ /\ w \in MicWidget /\ ~isTxPressed(w) /\ last'[w].at = app
        BY <2>3, <2>4
    <2> QED
        BY <2>2, <2>5
<1> QED
    BY <1>2, <1>3

\* The same of the other steps that close one relay or all of them.
LEMMA CloseStepFacts ==
    ASSUME TypeOK, OffIsEmpty, NEW W \in SUBSET Widget, NEW who \in {"test", "play", "exit"},
           app # "off", Send(linked, W, 0, who), Closed(linked, W, {})
    PROVE  /\ \A w \in Widget : relay'[w] => /\ relay[w] /\ (w \in missed => w \in missed')
                                             /\ (w \in W => w \in missed')
           /\ \A w \in Widget : last'[w] = last[w] \/ last'[w].by = who
<1>1. linked \in SUBSET Widget
    BY DEF TypeOK
<1>2. \A w \in Widget : relay'[w] => /\ relay[w] /\ (w \in missed => w \in missed')
                                     /\ (w \in W \cup {} => w \in missed')
    BY <1>1, CloseFacts
<1>3. last' = [w \in Widget |-> IF w \in W THEN [cmd |-> 0, by |-> who, at |-> app] ELSE last[w]]
    BY DEF Send
<1>4. \A w \in Widget : last'[w] = last[w] \/ last'[w].by = who
    BY <1>3
<1> QED
    BY <1>2, <1>4

\* Who talks with a TX button is on the air.
LEMMA TalkerStep ==
    TypeOK /\ OffIsEmpty /\ TalkerIsOnAir /\ [Next]_vars => TalkerIsOnAir'
<1> SUFFICES ASSUME TypeOK, OffIsEmpty, TalkerIsOnAir, [Next]_vars, NEW w \in pressed'
             PROVE  last'[w].cmd = 1 \/ last'[w].by \in {"play", "test", "exit"}
    BY DEF TalkerIsOnAir
<1> USE DEF micVars, txVars, boundVars
<1>0. pressed \subseteq Widget /\ linked \in SUBSET Widget /\ MicWidget \in SUBSET Widget
    BY Sets DEF TypeOK
<1>a. CASE w \in pressed /\ last'[w] = last[w]
    BY <1>a DEF TalkerIsOnAir
<1>1. CASE Quiet
    <2>1. w \in pressed
        <3>1. pressed' \subseteq pressed
            BY <1>1 DEF Quiet, PollOn, PollOff, PollGarbled, Disconnect, Connect, SwitchMic, SecondPasses,
                  LinkUp, PlayBegins, PlayStarves, PlayEnds, ExitEnds, WidgetsGone, vars
        <3> QED
            BY <3>1
    <2> QED
        BY <1>1, <1>a, <2>1, QuietFacts
<1>2. CASE RecvOpen
    <2>1. w \in pressed /\ Send(linked, MicWidget, 1, "mic")
        BY <1>2 DEF RecvOpen
    <2>2. w \in MicWidget => last'[w].cmd = 1
        BY <1>0, <2>1, OpenFacts
    <2>3. w \notin MicWidget => last'[w] = last[w]
        BY <1>0, <2>1, OpenFacts
    <2> QED
        BY <1>a, <2>1, <2>2, <2>3
<1>3. CASE RecvClose
    <2>1. w \in pressed
        BY <1>3 DEF RecvClose
    <2> QED
        BY <1>0, <1>3, <1>a, <2>1, RecvCloseFacts DEF isTxPressed
<1>4. ASSUME NEW L \in SUBSET Widget, NEW R \in SUBSET Widget, app # "off", Release(L, R)
      PROVE  last'[w].cmd = 1 \/ last'[w].by \in {"play", "test", "exit"}
    <2>1. pressed' = pressed \ R
        BY <1>4, ReleaseFacts
    <2>2. last'[w] = last[w] \/ w \in R
        BY <1>0, <1>4, <2>1, ReleaseFacts
    <2> QED
        BY <1>a, <2>1, <2>2
<1>5. CASE ReleaseTx
    <2>1. app # "off" /\ Reached(held) \in SUBSET Widget /\ Release(linked, Reached(held))
        BY <1>5, NotOff, Sets DEF ReleaseTx, TypeOK
    <2> QED
        BY <1>0, <1>4, <2>1
<1>6. ASSUME NEW b \in Widget \cup {"group"}, PressTx(b)
      PROVE  last'[w].cmd = 1 \/ last'[w].by \in {"play", "test", "exit"}
    <2>1. Reached(b) \in SUBSET Widget /\ Send(linked, Reached(b), 1, "tx")
          /\ pressed' = pressed \cup Reached(b)
        BY <1>6, Sets DEF PressTx
    <2>2. w \in Reached(b) => last'[w].cmd = 1
        BY <1>0, <2>1, OpenFacts
    <2>3. w \notin Reached(b) => last'[w] = last[w] /\ w \in pressed
        BY <1>0, <2>1, OpenFacts
    <2> QED
        BY <1>a, <2>2, <2>3
<1>7. ASSUME NEW v \in Widget, Disabled(v)
      PROVE  last'[w].cmd = 1 \/ last'[w].by \in {"play", "test", "exit"}
    <2>1. CASE UNCHANGED <<pressed, airVars>>
        BY <1>a, <2>1 DEF airVars
    <2>2. CASE \E L \in SUBSET Widget : Release(L, Reached(v))
        <3>1. app # "off" /\ Reached(v) \in SUBSET Widget
            BY <1>7, Sets DEF Disabled
        <3> QED
            BY <1>4, <2>2, <3>1
    <2> QED
        BY <1>7, <2>1, <2>2 DEF Disabled
<1>8. ASSUME NEW v \in Widget, CloseClicked(v) \/ PlayCloses(v)
      PROVE  last'[w].cmd = 1 \/ last'[w].by \in {"play", "test", "exit"}
    <2>1. w \in pressed /\ app # "off" /\ {v} \in SUBSET Widget
        BY <1>8, NotOff DEF CloseClicked, PlayCloses
    <2>2. \E who \in {"test", "play", "exit"} : Send(linked, {v}, 0, who) /\ Closed(linked, {v}, {})
        BY <1>8 DEF CloseClicked, PlayCloses
    <2>3. \E who \in {"test", "play", "exit"} : last'[w] = last[w] \/ last'[w].by = who
        BY <1>0, <2>1, <2>2, CloseStepFacts
    <2> QED
        BY <1>a, <2>1, <2>3
<1>9. ASSUME NEW v \in Widget, PlayOpens(v)
      PROVE  last'[w].cmd = 1 \/ last'[w].by \in {"play", "test", "exit"}
    <2>1. w \in pressed /\ Send(linked, {v}, 1, "play") /\ {v} \in SUBSET Widget
        BY <1>9 DEF PlayOpens
    <2>2. w \in {v} => last'[w].cmd = 1
        BY <1>0, <2>1, OpenFacts
    <2>3. w \notin {v} => last'[w] = last[w]
        BY <1>0, <2>1, OpenFacts
    <2> QED
        BY <1>a, <2>1, <2>2, <2>3
<1>10. CASE UNCHANGED <<app, signals, isOpend, age, play, pressed, airVars>>
    BY <1>a, <1>10 DEF airVars
<1>11. CASE Rebuild \/ Die
    BY <1>11 DEF Rebuild, Die, Dies, WidgetsGone
<1>12. CASE ConfirmExit
    <2>1. w \in pressed /\ app # "off" /\ Widget \in SUBSET Widget
          /\ Send(linked, Widget, 0, "exit") /\ Closed(linked, Widget, {})
        BY <1>12 DEF ConfirmExit
    <2>2. last'[w] = last[w] \/ last'[w].by = "exit"
        BY <1>0, <2>1, CloseStepFacts
    <2> QED
        BY <1>a, <2>1, <2>2
<1>13. CASE Start
    BY <1>13 DEF Start, OffIsEmpty
<1> QED
    BY <1>1, <1>2, <1>3, <1>5, <1>6, <1>7, <1>8, <1>9, <1>10, <1>11, <1>12, <1>13, Cases

\* The open microphone is heard.
LEMMA HeardStep ==
    TypeOK /\ OffIsEmpty /\ LastIsOpen /\ MicIsHeard /\ [Next]_vars => MicIsHeard'
<1> DEFINE Heard(w) == last'[w].cmd = 1 \/ last'[w].by \in {"tx", "play", "test", "exit"}
<1> SUFFICES ASSUME TypeOK, OffIsEmpty, LastIsOpen, MicIsHeard, [Next]_vars,
                    isOpend', signals' = <<>>, age' < MaxOpen, NEW w \in MicWidget
             PROVE  Heard(w)
    BY DEF MicIsHeard
<1> USE DEF micVars, txVars, boundVars
<1>0. /\ linked \in SUBSET Widget /\ MicWidget \in SUBSET Widget /\ w \in Widget
      /\ signals \in Seq(Signal) /\ age \in Nat /\ MaxOpen \in Nat
    BY Sets, BoundAssumption DEF TypeOK, Signal
<1>a. CASE isOpend /\ signals = <<>> /\ age < MaxOpen /\ last'[w] = last[w]
    BY <1>a DEF MicIsHeard
<1>1. CASE Quiet
    <2>1. isOpend /\ signals = <<>> /\ age < MaxOpen
        <3>1. CASE PollOn
            <4>1. signals' \in {Append(signals, "open"), Append(signals, "cutoff"), signals}
                BY <3>1 DEF PollOn
            <4>2. Append(signals, "open") # <<>> /\ Append(signals, "cutoff") # <<>>
                BY <1>0, QueueAppend DEF Signal
            <4>3. isOpend
                BY <3>1, <4>2 DEF PollOn
            <4> QED
                BY <3>1, <4>1, <4>2, <4>3 DEF PollOn
        <3>2. CASE PollOff \/ PollGarbled \/ ExitEnds
            BY <3>2 DEF PollOff, PollGarbled, ExitEnds, WidgetsGone
        <3>3. CASE Disconnect \/ Connect \/ SwitchMic \/ SecondPasses \/ UNCHANGED vars
            BY <1>0, <3>3 DEF Disconnect, Connect, SwitchMic, SecondPasses, vars
        <3>4. CASE \E v \in Widget : LinkUp(v) \/ PlayBegins(v) \/ PlayStarves(v) \/ PlayEnds(v)
            BY <3>4 DEF LinkUp, PlayBegins, PlayStarves, PlayEnds
        <3> QED
            BY <1>1, <3>1, <3>2, <3>3, <3>4 DEF Quiet
    <2> QED
        BY <1>1, <1>a, <2>1, QuietFacts
<1>2. CASE RecvOpen
    <2>1. Send(linked, MicWidget, 1, "mic")
        BY <1>2 DEF RecvOpen
    <2> QED
        BY <1>0, <2>1, OpenFacts
<1>3. CASE RecvClose
    <2>1. /\ signals # <<>> /\ Head(signals) # "open" /\ Tail(signals) = <<>>
          /\ isOpend /\ age < MaxOpen
        BY <1>3 DEF RecvClose
    <2>2. Head(signals) = signals[Len(signals)]
        BY <1>0, <2>1, QueueTail
    <2> QED
        BY <2>1, <2>2 DEF LastIsOpen
<1>4. ASSUME NEW L \in SUBSET Widget, NEW R \in SUBSET Widget, app # "off", Release(L, R),
             UNCHANGED <<signals, isOpend, age>>
      PROVE  Heard(w)
    <2>1. last'[w] = last[w] \/ last'[w].by = "tx"
        BY <1>0, <1>4, ReleaseFacts
    <2> QED
        BY <1>4, <1>a, <2>1
<1>5. CASE ReleaseTx
    <2>1. app # "off" /\ Reached(held) \in SUBSET Widget /\ Release(linked, Reached(held))
          /\ UNCHANGED <<signals, isOpend, age>>
        BY <1>5, NotOff, Sets DEF ReleaseTx, TypeOK
    <2> QED
        BY <1>0, <1>4, <2>1
<1>6. ASSUME NEW b \in Widget \cup {"group"}, PressTx(b) PROVE Heard(w)
    <2>1. Reached(b) \in SUBSET Widget /\ Send(linked, Reached(b), 1, "tx")
          /\ UNCHANGED <<signals, isOpend, age>>
        BY <1>6, Sets DEF PressTx
    <2>2. w \in Reached(b) => last'[w].cmd = 1
        BY <1>0, <2>1, OpenFacts
    <2>3. w \notin Reached(b) => last'[w] = last[w]
        BY <1>0, <2>1, OpenFacts
    <2> QED
        BY <1>a, <2>1, <2>2, <2>3
<1>7. ASSUME NEW v \in Widget, Disabled(v) PROVE Heard(w)
    <2>0. UNCHANGED <<signals, isOpend, age>>
        BY <1>7 DEF Disabled
    <2>1. CASE UNCHANGED <<pressed, airVars>>
        BY <1>a, <2>0, <2>1 DEF airVars
    <2>2. CASE \E L \in SUBSET Widget : Release(L, Reached(v))
        <3>1. app # "off" /\ Reached(v) \in SUBSET Widget
            BY <1>7, Sets DEF Disabled
        <3> QED
            BY <1>4, <2>0, <2>2, <3>1
    <2> QED
        BY <1>7, <2>1, <2>2 DEF Disabled
<1>8. ASSUME NEW v \in Widget, CloseClicked(v) \/ PlayCloses(v) PROVE Heard(w)
    <2>1. app # "off" /\ {v} \in SUBSET Widget /\ UNCHANGED <<signals, isOpend, age>>
        BY <1>8, NotOff DEF CloseClicked, PlayCloses
    <2>2. \E who \in {"test", "play", "exit"} : Send(linked, {v}, 0, who) /\ Closed(linked, {v}, {})
        BY <1>8 DEF CloseClicked, PlayCloses
    <2>3. \E who \in {"test", "play", "exit"} : last'[w] = last[w] \/ last'[w].by = who
        BY <1>0, <2>1, <2>2, CloseStepFacts
    <2> QED
        BY <1>a, <2>1, <2>3
<1>9. ASSUME NEW v \in Widget, PlayOpens(v) PROVE Heard(w)
    <2>1. /\ UNCHANGED <<signals, isOpend, age>>
          /\ Send(linked, {v}, 1, "play") /\ {v} \in SUBSET Widget
        BY <1>9 DEF PlayOpens
    <2>2. w \in {v} => last'[w].cmd = 1
        BY <1>0, <2>1, OpenFacts
    <2>3. w \notin {v} => last'[w] = last[w]
        BY <1>0, <2>1, OpenFacts
    <2> QED
        BY <1>a, <2>1, <2>2, <2>3
<1>10. CASE UNCHANGED <<app, signals, isOpend, age, play, pressed, airVars>>
    BY <1>a, <1>10 DEF airVars
<1>11. CASE Rebuild \/ Die
    BY <1>11 DEF Rebuild, Die, Dies, WidgetsGone
<1>12. CASE ConfirmExit
    <2>1. app # "off" /\ Widget \in SUBSET Widget /\ UNCHANGED <<signals, isOpend, age>>
          /\ Send(linked, Widget, 0, "exit") /\ Closed(linked, Widget, {})
        BY <1>12 DEF ConfirmExit
    <2>2. last'[w] = last[w] \/ last'[w].by = "exit"
        BY <1>0, <2>1, CloseStepFacts
    <2> QED
        BY <1>a, <2>1, <2>2
<1>13. CASE Start
    BY <1>13 DEF Start, OffIsEmpty
<1> QED
    BY <1>1, <1>2, <1>3, <1>5, <1>6, <1>7, <1>8, <1>9, <1>10, <1>11, <1>12, <1>13, Cases

\* A contact is closed for a reason.
LEMMA ReasonStep ==
    TypeOK /\ OffIsEmpty /\ OpenForAReason /\ [Next]_vars => OpenForAReason'
<1> SUFFICES ASSUME TypeOK, OffIsEmpty, OpenForAReason, [Next]_vars,
                    NEW w \in Widget, Up', relay'[w]
             PROVE  \/ w \in pressed' \/ play'[w] = "open" \/ w \in missed'
                    \/ w \in MicWidget /\ (isOpend' \/ CloseQueued(signals'))
    BY DEF OpenForAReason, isTxPressed
<1> DEFINE Goal == \/ w \in pressed' \/ play'[w] = "open" \/ w \in missed'
                   \/ w \in MicWidget /\ (isOpend' \/ CloseQueued(signals'))
<1> USE DEF micVars, txVars, boundVars
<1>0. /\ linked \in SUBSET Widget /\ MicWidget \in SUBSET Widget
      /\ signals \in Seq(Signal) /\ play \in [Widget -> {"no", "begun", "starved", "open", "closed"}]
    BY Sets DEF TypeOK, Signal
<1>a. CASE /\ app # "off" /\ relay[w] /\ missed \subseteq missed'
           /\ w \in pressed' \/ w \notin pressed \/ w \in missed'
           /\ play'[w] = play[w]
           /\ UNCHANGED <<signals, isOpend>>
    BY <1>a DEF OpenForAReason, isTxPressed, Up
<1>1. CASE Quiet
    <2>0. relay[w] /\ missed \subseteq missed'
        BY <1>1, QuietFacts
    <2>1. CASE PollOn
        BY <2>0, <2>1 DEF PollOn, Up, OpenForAReason, isTxPressed
    <2>2. CASE PollOff
        <3>1. isOpend => CloseQueued(signals')
            BY <1>0, <2>2, QueueAppend DEF PollOff, Signal
        <3>2. ~isOpend => signals' = signals
            BY <2>2 DEF PollOff
        <3> QED
            BY <2>0, <2>2, <3>1, <3>2 DEF PollOff, Up, OpenForAReason, isTxPressed
    <2>3. CASE PollGarbled
        BY <2>0, <2>3 DEF PollGarbled, Up, OpenForAReason, isTxPressed, On
    <2>4. CASE Disconnect \/ Connect \/ SwitchMic \/ SecondPasses \/ UNCHANGED vars
        BY <2>0, <2>4 DEF Disconnect, Connect, SwitchMic, SecondPasses, vars, Up, OpenForAReason,
                    isTxPressed
    <2>5. ASSUME NEW v \in Widget, LinkUp(v) \/ PlayBegins(v) \/ PlayStarves(v) \/ PlayEnds(v)
          PROVE  Goal
        <3>1. UNCHANGED <<app, pressed, signals, isOpend>> /\ (play[w] = "open" => play'[w] = "open")
            BY <1>0, <2>5 DEF LinkUp, PlayBegins, PlayStarves, PlayEnds
        <3> QED
            BY <2>0, <3>1 DEF OpenForAReason, isTxPressed, Up
    <2>6. CASE ExitEnds
        BY <2>6 DEF ExitEnds, Up
    <2> QED
        BY <1>1, <2>1, <2>2, <2>3, <2>4, <2>5, <2>6 DEF Quiet
<1>2. CASE RecvOpen
    <2>1. /\ Send(linked, MicWidget, 1, "mic") /\ UNCHANGED <<app, pressed, isOpend, play>>
          /\ signals # <<>> /\ signals' = Tail(signals) /\ Head(signals) = "open"
          /\ missed' = IF isOpend \/ CloseQueued(signals') THEN missed
                       ELSE missed \cup (MicWidget \cap linked)
        BY <1>2 DEF RecvOpen
    <2>2. relay[w] \/ (w \in MicWidget /\ w \in linked)
        BY <1>0, <2>1, OpenFacts
    <2>3. CloseQueued(signals) <=> CloseQueued(signals')
        BY <1>0, <2>1, QueueTail
    <2>4. CASE isOpend \/ CloseQueued(signals')
        BY <2>1, <2>2, <2>3, <2>4 DEF OpenForAReason, isTxPressed, Up
    <2>5. CASE ~(isOpend \/ CloseQueued(signals'))
        BY <2>1, <2>2, <2>3, <2>5 DEF OpenForAReason, isTxPressed, Up
    <2> QED
        BY <2>4, <2>5
<1>3. CASE RecvClose
    <2>1. relay[w] /\ (w \in missed => w \in missed') /\ (w \in MicWidget => w \in missed')
        BY <1>3, RecvCloseFacts
    <2>2. UNCHANGED <<app, pressed, isOpend, play>>
        BY <1>3 DEF RecvClose
    <2> QED
        BY <2>1, <2>2 DEF OpenForAReason, isTxPressed, Up
<1>4. ASSUME NEW L \in SUBSET Widget, NEW R \in SUBSET Widget, app # "off", Release(L, R),
             UNCHANGED <<signals, isOpend, play>>
      PROVE  Goal
    <2>1. relay[w] /\ (w \in missed => w \in missed') /\ (w \in R => w \in missed')
          /\ pressed' = pressed \ R
        BY <1>4, ReleaseFacts
    <2> QED
        BY <1>4, <2>1 DEF OpenForAReason, isTxPressed, Up
<1>5. CASE ReleaseTx
    <2>1. app # "off" /\ Reached(held) \in SUBSET Widget /\ Release(linked, Reached(held))
          /\ UNCHANGED <<signals, isOpend, play>>
        BY <1>5, NotOff, Sets DEF ReleaseTx, TypeOK
    <2> QED
        BY <1>0, <1>4, <2>1
<1>6. ASSUME NEW b \in Widget \cup {"group"}, PressTx(b) PROVE Goal
    <2>1. Reached(b) \in SUBSET Widget /\ Send(linked, Reached(b), 1, "tx")
          /\ UNCHANGED <<app, signals, isOpend, play, missed>> /\ pressed' = pressed \cup Reached(b)
        BY <1>6, Sets DEF PressTx
    <2>2. relay[w] \/ w \in Reached(b)
        BY <1>0, <2>1, OpenFacts
    <2> QED
        BY <2>1, <2>2 DEF OpenForAReason, isTxPressed, Up
<1>7. ASSUME NEW v \in Widget, Disabled(v) PROVE Goal
    <2>0. UNCHANGED <<signals, isOpend, play>> /\ app # "off"
        BY <1>7 DEF Disabled
    <2>1. CASE UNCHANGED <<pressed, airVars>>
        BY <1>a, <2>0, <2>1 DEF airVars
    <2>2. CASE \E L \in SUBSET Widget : Release(L, Reached(v))
        <3>1. Reached(v) \in SUBSET Widget
            BY Sets
        <3> QED
            BY <1>4, <2>0, <2>2, <3>1
    <2> QED
        BY <1>7, <2>1, <2>2 DEF Disabled
<1>8. ASSUME NEW v \in Widget, CloseClicked(v) \/ PlayCloses(v) PROVE Goal
    <2>1. /\ app # "off" /\ {v} \in SUBSET Widget /\ UNCHANGED <<signals, isOpend, pressed>>
          /\ (play[w] = "open" /\ w # v => play'[w] = "open")
          /\ (CloseClicked(v) => play' = play)
        BY <1>0, <1>8, NotOff DEF CloseClicked, PlayCloses
    <2>2. \E who \in {"test", "play", "exit"} : Send(linked, {v}, 0, who) /\ Closed(linked, {v}, {})
        BY <1>8 DEF CloseClicked, PlayCloses
    <2>3. relay[w] /\ (w \in missed => w \in missed') /\ (w \in {v} => w \in missed')
        BY <1>0, <2>1, <2>2, CloseStepFacts
    <2> QED
        BY <2>1, <2>3 DEF OpenForAReason, isTxPressed, Up
<1>9. ASSUME NEW v \in Widget, PlayOpens(v) PROVE Goal
    <2>1. /\ UNCHANGED <<app, signals, isOpend, pressed, missed>> /\ play' = [play EXCEPT ![v] = "open"]
          /\ Send(linked, {v}, 1, "play") /\ {v} \in SUBSET Widget
        BY <1>9 DEF PlayOpens
    <2>2. play'[v] = "open" /\ (w # v => play'[w] = play[w])
        BY <1>0, <2>1
    <2>3. relay[w] \/ w \in {v}
        BY <1>0, <2>1, OpenFacts
    <2> QED
        BY <2>1, <2>2, <2>3 DEF OpenForAReason, isTxPressed, Up
<1>10. CASE UNCHANGED <<app, signals, isOpend, age, play, pressed, airVars>>
    BY <1>10 DEF airVars, OpenForAReason, isTxPressed, Up
<1>11. CASE Rebuild \/ Die
    <2>1. Dies \/ (missed' = missed \cup On /\ relay' = relay)
        BY <1>11 DEF Rebuild, Die
    <2>2. ~Dies
        BY DEF Dies, Up
    <2> QED
        BY <2>1, <2>2 DEF On
<1>12. CASE ConfirmExit
    <2>1. app # "off" /\ Widget \in SUBSET Widget
          /\ Send(linked, Widget, 0, "exit") /\ Closed(linked, Widget, {})
        BY <1>12 DEF ConfirmExit
    <2> QED
        BY <1>0, <2>1, CloseStepFacts
<1>13. CASE Start
    BY <1>13 DEF Start, On
<1> QED
    BY <1>1, <1>2, <1>3, <1>5, <1>6, <1>7, <1>8, <1>9, <1>10, <1>11, <1>12, <1>13, Cases

\* The exit leaves nothing on that it reached.
LEMMA LeftStep ==
    TypeOK /\ OffIsEmpty /\ LeftOnTheAir /\ [Next]_vars => LeftOnTheAir'
<1> SUFFICES ASSUME TypeOK, OffIsEmpty, LeftOnTheAir, [Next]_vars,
                    NEW w \in Widget, app' # "up", relay'[w]
             PROVE  w \in missed' \/ last'[w].at = "closing"
    BY DEF LeftOnTheAir
<1> USE DEF micVars, txVars, boundVars
<1>0. /\ linked \in SUBSET Widget /\ MicWidget \in SUBSET Widget
      /\ app \in {"up", "closing", "off"}
    BY Sets DEF TypeOK
<1>a. CASE app # "up" /\ relay[w] /\ (w \in missed => w \in missed') /\ last'[w] = last[w]
    BY <1>a DEF LeftOnTheAir
<1>1. CASE Quiet
    <2>1. app # "up"
        <3>1. CASE ExitEnds
            BY <3>1 DEF ExitEnds
        <3>2. CASE PollOn \/ PollOff \/ PollGarbled \/ Disconnect \/ Connect \/ SwitchMic
                    \/ SecondPasses \/ UNCHANGED vars
            BY <3>2 DEF PollOn, PollOff, PollGarbled, Disconnect, Connect, SwitchMic, SecondPasses, vars
        <3>3. CASE \E v \in Widget : LinkUp(v) \/ PlayBegins(v) \/ PlayStarves(v) \/ PlayEnds(v)
            BY <3>3 DEF LinkUp, PlayBegins, PlayStarves, PlayEnds
        <3> QED
            BY <1>1, <3>1, <3>2, <3>3 DEF Quiet
    <2> QED
        BY <1>1, <1>a, <2>1, QuietFacts
<1>2. CASE RecvOpen
    <2>1. Send(linked, MicWidget, 1, "mic") /\ app' = app /\ app = "closing" /\ missed \subseteq missed'
        BY <1>0, <1>2, NotOff DEF RecvOpen
    <2>2. w \in MicWidget => last'[w].at = "closing"
        BY <1>0, <2>1, OpenFacts
    <2>3. w \notin MicWidget => last'[w] = last[w] /\ relay[w]
        BY <1>0, <2>1, OpenFacts
    <2> QED
        BY <1>a, <2>1, <2>2, <2>3
<1>3. CASE RecvClose
    <2>1. app' = app /\ app = "closing"
        BY <1>0, <1>3, NotOff DEF RecvClose
    <2>2. relay[w] /\ (w \in missed => w \in missed') /\ (w \in MicWidget => w \in missed')
        BY <1>3, RecvCloseFacts
    <2>3. last'[w] = last[w] \/ w \in MicWidget
        BY <1>3, RecvCloseFacts
    <2> QED
        BY <1>a, <2>1, <2>2, <2>3
<1>4. CASE ReleaseTx
    BY <1>4, NotOff DEF ReleaseTx
<1>5. CASE \E b \in Widget \cup {"group"} : PressTx(b)
    BY <1>5 DEF PressTx
<1>6. CASE \E v \in Widget : Disabled(v) \/ CloseClicked(v)
    BY <1>6 DEF Disabled, CloseClicked
<1>7. ASSUME NEW v \in Widget, PlayCloses(v) PROVE w \in missed' \/ last'[w].at = "closing"
    <2>1. app' = app /\ app = "closing" /\ {v} \in SUBSET Widget
          /\ Send(linked, {v}, 0, "play") /\ Closed(linked, {v}, {})
        BY <1>0, <1>7, NotOff DEF PlayCloses
    <2>2. relay[w] /\ (w \in missed => w \in missed') /\ (w \in {v} => w \in missed')
        BY <1>0, <2>1, CloseStepFacts
    <2>3. w # v => last'[w] = last[w]
        BY <2>1 DEF Send
    <2> QED
        BY <1>a, <2>1, <2>2, <2>3
<1>8. ASSUME NEW v \in Widget, PlayOpens(v) PROVE w \in missed' \/ last'[w].at = "closing"
    <2>1. app' = app /\ app = "closing" /\ missed' = missed
          /\ Send(linked, {v}, 1, "play") /\ {v} \in SUBSET Widget
        BY <1>0, <1>8, NotOff DEF PlayOpens
    <2>2. w \in {v} => last'[w].at = "closing"
        BY <1>0, <2>1, OpenFacts
    <2>3. w \notin {v} => last'[w] = last[w] /\ relay[w]
        BY <1>0, <2>1, OpenFacts
    <2> QED
        BY <1>a, <2>1, <2>2, <2>3
<1>9. CASE UNCHANGED <<app, signals, isOpend, age, play, pressed, airVars>>
    BY <1>a, <1>9 DEF airVars
<1>10. CASE Rebuild \/ Die
    BY <1>10 DEF Rebuild, Die, Dies, On
<1>11. CASE ConfirmExit
    <2>1. app # "off" /\ Widget \in SUBSET Widget
          /\ Send(linked, Widget, 0, "exit") /\ Closed(linked, Widget, {})
        BY <1>11 DEF ConfirmExit
    <2> QED
        BY <1>0, <2>1, CloseStepFacts
<1>12. CASE Start
    BY <1>12 DEF Start
<1> QED
    BY <1>1, <1>2, <1>3, <1>4, <1>5, <1>6, <1>7, <1>8, <1>9, <1>10, <1>11, <1>12, Cases

-----------------------------------------------------------------------------
(* The invariant and what follows from it *)

LEMMA InvInit == Init => IInv
<1> SUFFICES ASSUME Init PROVE IInv
    OBVIOUS
<1>1. TypeOK /\ OffIsEmpty
    BY TypeInit
<1>2. /\ ~isOpend /\ pressed = {} /\ app = "up" /\ \A w \in Widget : ~relay[w]
    BY DEF Init
<1> QED
    BY <1>1, <1>2 DEF IInv, LastIsOpen, TalkerIsOnAir, MicIsHeard, OpenForAReason, LeftOnTheAir

LEMMA InvStep == IInv /\ [Next]_vars => IInv'
    BY TypeStep, OffStep, LastStep, TalkerStep, HeardStep, ReasonStep, LeftStep DEF IInv

\* Every reachable state satisfies the inductive invariant.
THEOREM InvCorrect == Spec => []IInv
<1> QED
    BY InvInit, InvStep, PTL DEF Spec

\* Every variable keeps its type.
THEOREM TypeCorrect == Spec => []TypeOK
<1>1. IInv => TypeOK
    BY DEF IInv
<1> QED
    BY InvCorrect, <1>1, PTL

\* No close of the microphone takes a talker off the air (openRelayControl,
\* closeRelayControl, OnTxButtonPressed and OnTxButtonReleased).
THEOREM TalkerStaysOnAir == Spec => []TalkerIsOnAir
<1>1. IInv => TalkerIsOnAir
    BY DEF IInv
<1> QED
    BY InvCorrect, <1>1, PTL

\* However late the window takes the microphone's signals, the last of them opens
\* (CenterControlThread::run, slotRecvControlCmd).
THEOREM OpenMicIsHeard == Spec => []MicIsHeard
<1>1. IInv => MicIsHeard
    BY DEF IInv
<1> QED
    BY InvCorrect, <1>1, PTL

\* A closed contact has somebody who wants it, or a close that passed it by.
THEOREM ContactsHaveReasons == Spec => []OpenForAReason
<1>1. IInv => OpenForAReason
    BY DEF IInv
<1> QED
    BY InvCorrect, <1>1, PTL

\* What is on after the exit was out of its reach, or switched on in its box
\* (closeEvent).
THEOREM ExitSilences == Spec => []LeftOnTheAir
<1>1. IInv => LeftOnTheAir
    BY DEF IInv
<1> QED
    BY InvCorrect, <1>1, PTL

=============================================================================
