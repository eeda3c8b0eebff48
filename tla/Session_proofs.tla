--------------------------- MODULE Session_proofs ---------------------------
(***************************************************************************)
(* Proofs about Session: a session that is taken for good has a token, a   *)
(* lost session is noticed by the next heartbeat and its second try, the   *)
(* client ends itself neither too early nor never, and the loader leaves a *)
(* window alone.                                                           *)
(***************************************************************************)
EXTENDS Session, TLAPS

-----------------------------------------------------------------------------
(* The inductive invariant.  Most of it speaks of a client whose operator   *)
(* has never clicked OK while a login was under way (clicks = 0): then no    *)
(* two requests wait inside each other, because a heartbeat with its second  *)
(* try ends before the next one.                                             *)

\* A reply that is there has told its loop to quit; a quiet client waits for nothing.
RepliesQuit == \A i \in DOMAIN calls : calls[i].reply # "none" => calls[i].quit
OffIsEmpty  == app = "off" => calls = <<>> /\ results = <<>> /\ ~ok /\ fooled = 0

\* The watchdog writes before the next tick.
FileIsYoung == app = "window" => fileAge <= 1

\* Silent logins are the window's.
SilentInWindow ==
    /\ \A i \in DOMAIN calls : calls[i].at = "login" /\ ~calls[i].send => app = "window"
    /\ fails > 0 \/ killing => app = "window"

OneCall == clicks = 0 => Len(calls) <= 1

\* While the dialog is open there is its login, or its result, or neither.
DialogWaits ==
    clicks = 0 /\ app = "login" =>
        /\ Len(results) <= 1
        /\ calls # <<>> => calls[1].at = "login" /\ calls[1].send /\ results = <<>> /\ ~ok
        /\ ok => results # <<>> /\ results[1] = "success" /\ token # "none"
        /\ fails = 0 /\ fooled = 0

\* noSession has counted n heartbeat periods and the time since.
Without(n) == noSession = Cap \/ noSession >= n * Beat + beatAge

\* What the window waits for, and for how long it may be wrong about its session.
WindowIsSound ==
    /\ results = <<>>
    /\ ok => token # "none" /\ fails = 0
    /\ calls = <<>> =>
         /\ ok => fooled <= beatAge
         /\ ~ok => fooled = 0 \/ (beatAge <= 2 /\ fooled <= Beat + beatAge)
         /\ fails > 0 => Without(fails - 1)
    /\ \A i \in DOMAIN calls : calls[i].at = "login" =>
         /\ ~calls[i].send /\ ~ok /\ fooled = 0
         /\ beatAge <= calls[i].waited /\ Without(fails)
    /\ \A i \in DOMAIN calls : calls[i].at # "login" =>
         /\ token # "none" /\ fails = 0
         /\ calls[i].at = "beat" => ok /\ beatAge <= calls[i].waited
         /\ beatAge <= calls[i].waited + 1
         /\ fooled <= Beat + beatAge
         /\ calls[i].with = "valid" => token = "valid"
         /\ calls[i].reply = "success" => fooled = 0

WindowWaits == clicks = 0 /\ app = "window" => WindowIsSound

\* Nobody is fooled by a session that works.
WorkingIsTrue == clicks = 0 /\ net /\ token = "valid" => fooled = 0

IInv ==
    /\ TypeOK
    /\ RepliesQuit /\ OffIsEmpty /\ FileIsYoung /\ SilentInWindow
    /\ OneCall /\ DialogWaits /\ WindowWaits /\ WorkingIsTrue
    /\ TooManyIsFinal
    /\ clicks = 0 => KillIsLate

-----------------------------------------------------------------------------
(* The stack of the waits *)

\* A new call is a call, and it has just begun.
LEMMA CallType ==
    ASSUME net \in BOOLEAN,
           NEW a \in {"login", "beat", "again"}, NEW s \in BOOLEAN,
           NEW t \in {"none", "valid", "stale"}
    PROVE  /\ Call(a, s, t) \in WaitingCall
           /\ Call(a, s, t).at = a /\ Call(a, s, t).send = s /\ Call(a, s, t).with = t
           /\ Call(a, s, t).waited = 0 /\ ~Call(a, s, t).quit
           /\ Call(a, s, t).reply = "none"
    BY DEF Call, WaitingCall

\* A sequence with one more element.
LEMMA AppendOne ==
    ASSUME NEW S, NEW q \in Seq(S), NEW e \in S
    PROVE  /\ Append(q, e) \in Seq(S)
           /\ Len(Append(q, e)) = Len(q) + 1
           /\ Append(q, e)[Len(q) + 1] = e
           /\ \A i \in DOMAIN q : Append(q, e)[i] = q[i]
           /\ DOMAIN Append(q, e) = DOMAIN q \cup {Len(q) + 1}
           /\ Len(q) + 1 \notin DOMAIN q
    OBVIOUS

\* The calls without the innermost one.
LEMMA BelowType ==
    ASSUME calls \in Seq(WaitingCall), calls # <<>>
    PROVE  /\ Below \in Seq(WaitingCall) /\ Len(Below) = Len(calls) - 1
           /\ Top \in WaitingCall /\ Len(calls) \in DOMAIN calls
           /\ DOMAIN Below \subseteq DOMAIN calls
           /\ \A i \in DOMAIN Below : Below[i] = calls[i]
<1>1. Len(calls) \in Nat /\ Len(calls) > 0 /\ DOMAIN calls = 1..Len(calls)
    OBVIOUS
<1>2. \A n \in Nat : \A f \in [1..n -> WaitingCall] : f \in Seq(WaitingCall) /\ Len(f) = n
    OBVIOUS
<1>3. Below = [i \in 1..(Len(calls) - 1) |-> calls[i]]
    BY <1>1 DEF Below
<1>4. \A i \in 1..(Len(calls) - 1) : i \in DOMAIN calls /\ calls[i] \in WaitingCall
    BY <1>1
<1>5. Below \in [1..(Len(calls) - 1) -> WaitingCall]
    BY <1>3, <1>4
<1>6. Below \in Seq(WaitingCall) /\ Len(Below) = Len(calls) - 1
    <2>1. Len(calls) - 1 \in Nat
        BY <1>1
    <2> QED
        BY <1>2, <1>5, <2>1
<1>7. Top \in WaitingCall /\ Len(calls) \in DOMAIN calls
    BY <1>1 DEF Top
<1> QED
    BY <1>1, <1>3, <1>4, <1>6, <1>7

\* Calls of which only the course of their wait has changed.
LEMMA MapType ==
    ASSUME calls \in Seq(WaitingCall), NEW f \in [DOMAIN calls -> WaitingCall]
    PROVE  f \in Seq(WaitingCall) /\ Len(f) = Len(calls)
    OBVIOUS

\* The calls are calls, and stay so when the course of their wait changes.
LEMMA CallUpdates ==
    /\ calls \in Seq(WaitingCall) => \A i \in DOMAIN calls : calls[i] \in WaitingCall
    /\ \A c \in WaitingCall :
         /\ [c EXCEPT !.quit = TRUE] \in WaitingCall
         /\ [c EXCEPT !.lost = TRUE] \in WaitingCall
         /\ [c EXCEPT !.waited = 1] \in WaitingCall
         /\ [c EXCEPT !.with = IF c.with = "valid" THEN "stale" ELSE c.with] \in WaitingCall
         /\ \A r \in {"success", "failed", "empty"} : [c EXCEPT !.reply = r] \in WaitingCall
<1>1. calls \in Seq(WaitingCall) => \A i \in DOMAIN calls : calls[i] \in WaitingCall
    OBVIOUS
<1>2. ASSUME NEW c \in WaitingCall
      PROVE  /\ [c EXCEPT !.quit = TRUE] \in WaitingCall
             /\ [c EXCEPT !.lost = TRUE] \in WaitingCall
             /\ [c EXCEPT !.waited = 1] \in WaitingCall
             /\ [c EXCEPT !.with = IF c.with = "valid" THEN "stale" ELSE c.with] \in WaitingCall
             /\ \A r \in {"success", "failed", "empty"} : [c EXCEPT !.reply = r] \in WaitingCall
    <2>1. [c EXCEPT !.quit = TRUE] \in WaitingCall /\ [c EXCEPT !.lost = TRUE] \in WaitingCall
        BY DEF WaitingCall
    <2>2. [c EXCEPT !.waited = 1] \in WaitingCall
        BY DEF WaitingCall
    <2>3. \A t \in {"none", "valid", "stale"} : [c EXCEPT !.with = t] \in WaitingCall
        BY DEF WaitingCall
    <2>4. c.with \in {"none", "valid", "stale"}
        BY DEF WaitingCall
    <2>5. \A r \in {"success", "failed", "empty"} : [c EXCEPT !.reply = r] \in WaitingCall
        BY DEF WaitingCall
    <2> QED
        BY <2>1, <2>2, <2>3, <2>4, <2>5
<1> QED
    BY <1>1, <1>2

\* What a finished reply does to the calls.
LEMMA FinishedCalls ==
    ASSUME calls \in Seq(WaitingCall), NEW i \in DOMAIN calls,
           NEW r \in {"success", "failed", "empty"}, Finished(i, r)
    PROVE  /\ calls' \in Seq(WaitingCall) /\ Len(calls') = Len(calls)
           /\ DOMAIN calls' = DOMAIN calls
           /\ \A j \in DOMAIN calls :
                calls'[j] = [calls[j] EXCEPT !.quit = TRUE, !.reply = IF j = i THEN r ELSE @]
<1>1. AllQuit \in [DOMAIN calls -> WaitingCall]
    BY CallUpdates DEF AllQuit
<1>2. AllQuit[i] = [calls[i] EXCEPT !.quit = TRUE]
    BY DEF AllQuit
<1>3. calls' = [AllQuit EXCEPT ![i] = [AllQuit[i] EXCEPT !.reply = r]]
    BY DEF Finished
<1>4. [AllQuit[i] EXCEPT !.reply = r] \in WaitingCall
    BY <1>1 DEF WaitingCall
<1>5. calls' \in [DOMAIN calls -> WaitingCall]
    BY <1>1, <1>3, <1>4
<1>6. \A j \in DOMAIN calls : calls[j] \in WaitingCall
    OBVIOUS
<1>7. \A j \in DOMAIN calls :
        calls'[j] = [calls[j] EXCEPT !.quit = TRUE, !.reply = IF j = i THEN r ELSE @]
    BY <1>1, <1>2, <1>3, <1>6 DEF AllQuit, WaitingCall
<1> QED
    BY <1>5, <1>7, MapType

\* What a finished reply to somebody else does to them.
LEMMA AllQuitCalls ==
    ASSUME calls \in Seq(WaitingCall), calls' = AllQuit
    PROVE  /\ calls' \in Seq(WaitingCall) /\ Len(calls') = Len(calls)
           /\ DOMAIN calls' = DOMAIN calls
           /\ \A j \in DOMAIN calls : calls'[j] = [calls[j] EXCEPT !.quit = TRUE]
<1>1. AllQuit \in [DOMAIN calls -> WaitingCall]
    BY CallUpdates DEF AllQuit
<1> QED
    BY <1>1, MapType DEF AllQuit

\* What a timeout does to them,
LEMMA TimeoutCalls ==
    ASSUME calls \in Seq(WaitingCall), NEW i \in DOMAIN calls,
           calls' = [calls EXCEPT ![i].quit = TRUE]
    PROVE  /\ calls' \in Seq(WaitingCall) /\ Len(calls') = Len(calls)
           /\ DOMAIN calls' = DOMAIN calls
           /\ \A j \in DOMAIN calls :
                calls'[j] = [calls[j] EXCEPT !.quit = IF j = i THEN TRUE ELSE @]
<1>1. [calls[i] EXCEPT !.quit = TRUE] \in WaitingCall
    BY CallUpdates
<1>2. calls' \in [DOMAIN calls -> WaitingCall]
    BY <1>1
<1>3. \A j \in DOMAIN calls : calls[j] \in WaitingCall
    OBVIOUS
<1>4. \A j \in DOMAIN calls :
        calls'[j] = [calls[j] EXCEPT !.quit = IF j = i THEN TRUE ELSE @]
    BY <1>3 DEF WaitingCall
<1> QED
    BY <1>2, <1>4, MapType

\* the end of the connection,
LEMMA NetDownCalls ==
    ASSUME calls \in Seq(WaitingCall), NetDown
    PROVE  /\ calls' \in Seq(WaitingCall) /\ Len(calls') = Len(calls)
           /\ DOMAIN calls' = DOMAIN calls
           /\ \A j \in DOMAIN calls : calls'[j] = [calls[j] EXCEPT !.lost = TRUE]
<1>1. calls' = [j \in DOMAIN calls |-> [calls[j] EXCEPT !.lost = TRUE]]
    BY DEF NetDown
<1>2. calls' \in [DOMAIN calls -> WaitingCall]
    BY <1>1, CallUpdates
<1> QED
    BY <1>1, <1>2, MapType

\* that of the session at the PBX,
LEMMA ForgottenCalls ==
    ASSUME calls \in Seq(WaitingCall), PbxForgets
    PROVE  /\ calls' \in Seq(WaitingCall) /\ Len(calls') = Len(calls)
           /\ DOMAIN calls' = DOMAIN calls
           /\ \A j \in DOMAIN calls :
                calls'[j] = [calls[j] EXCEPT !.with = IF @ = "valid" THEN "stale" ELSE @]
<1>1. calls' = [j \in DOMAIN calls |->
                  [calls[j] EXCEPT !.with = IF @ = "valid" THEN "stale" ELSE @]]
    BY DEF PbxForgets
<1>2. calls' \in [DOMAIN calls -> WaitingCall]
    BY <1>1, CallUpdates
<1> QED
    BY <1>1, <1>2, MapType

\* and a tick.
LEMMA TickCalls ==
    ASSUME calls \in Seq(WaitingCall), TimePasses
    PROVE  /\ calls' \in Seq(WaitingCall) /\ Len(calls') = Len(calls)
           /\ DOMAIN calls' = DOMAIN calls
           /\ \A j \in DOMAIN calls : calls'[j] = [calls[j] EXCEPT !.waited = 1]
<1>1. calls' = [j \in DOMAIN calls |-> [calls[j] EXCEPT !.waited = 1]]
    BY DEF TimePasses
<1>2. calls' \in [DOMAIN calls -> WaitingCall]
    BY <1>1, CallUpdates
<1> QED
    BY <1>1, <1>2, MapType

-----------------------------------------------------------------------------
(* Types *)

\* The bound on the faults is a number, and stays what it is.
LEMMA FaultsType == Faults \in Nat /\ (auto' = auto => Faults' = Faults)
    BY BoundAssumption DEF Faults

\* A login that begins: one more call.
LEMMA SlotLoginCalls ==
    ASSUME TypeOK, NEW s \in BOOLEAN, SlotLogin(s)
    PROVE  /\ calls' \in Seq(WaitingCall) /\ token' = "none"
           /\ Len(calls') = Len(calls) + 1
           /\ DOMAIN calls' = DOMAIN calls \cup {Len(calls) + 1}
           /\ Len(calls) + 1 \notin DOMAIN calls
           /\ \A i \in DOMAIN calls : calls'[i] = calls[i]
           /\ LET c == calls'[Len(calls) + 1]
              IN  /\ c.at = "login" /\ c.send = s /\ c.waited = 0
                  /\ ~c.quit /\ c.reply = "none"
<1>1. Call("login", s, "none") \in WaitingCall
    BY CallType DEF TypeOK
<1>2. calls' = Append(calls, Call("login", s, "none"))
    BY DEF SlotLogin
<1>3. calls \in Seq(WaitingCall)
    BY DEF TypeOK
<1> HIDE DEF Call
<1>4. /\ calls' \in Seq(WaitingCall)
      /\ Len(calls') = Len(calls) + 1
      /\ DOMAIN calls' = DOMAIN calls \cup {Len(calls) + 1}
      /\ Len(calls) + 1 \notin DOMAIN calls
      /\ \A i \in DOMAIN calls : calls'[i] = calls[i]
      /\ calls'[Len(calls) + 1] = Call("login", s, "none")
    BY <1>1, <1>2, <1>3, AppendOne
<1>5. LET c == Call("login", s, "none")
      IN  /\ c.at = "login" /\ c.send = s /\ c.waited = 0
          /\ ~c.quit /\ c.reply = "none"
    BY CallType DEF TypeOK
<1> QED
    BY <1>4, <1>5 DEF SlotLogin

\* A heartbeat or its second try that begins on top of some of the calls.
LEMMA BeatCalls ==
    ASSUME TypeOK, NEW a \in {"beat", "again"}, NEW s \in BOOLEAN, NEW q \in Seq(WaitingCall),
           calls' = Append(q, Call(a, s, token))
    PROVE  /\ calls' \in Seq(WaitingCall)
           /\ Len(calls') = Len(q) + 1
           /\ DOMAIN calls' = DOMAIN q \cup {Len(q) + 1}
           /\ Len(q) + 1 \notin DOMAIN q
           /\ \A i \in DOMAIN q : calls'[i] = q[i]
           /\ LET c == calls'[Len(q) + 1]
              IN  /\ c.at = a /\ c.waited = 0 /\ c.with = token
                  /\ ~c.quit /\ c.reply = "none"
<1>1. /\ Call(a, s, token) \in WaitingCall
      /\ LET c == Call(a, s, token)
         IN  /\ c.at = a /\ c.waited = 0 /\ c.with = token
             /\ ~c.quit /\ c.reply = "none"
    <2>1. net \in BOOLEAN /\ token \in {"none", "valid", "stale"}
          /\ a \in {"login", "beat", "again"}
        BY DEF TypeOK
    <2> QED
        BY <2>1 DEF Call, WaitingCall
<1> DEFINE new == Call(a, s, token)
<1>2. new \in WaitingCall /\ calls' = Append(q, new)
    BY <1>1
<1> HIDE DEF new
<1>3. /\ calls' \in Seq(WaitingCall)
      /\ Len(calls') = Len(q) + 1
      /\ DOMAIN calls' = DOMAIN q \cup {Len(q) + 1}
      /\ Len(q) + 1 \notin DOMAIN q
      /\ \A i \in DOMAIN q : calls'[i] = q[i]
      /\ calls'[Len(q) + 1] = new
    BY <1>2, AppendOne
<1> QED
    BY <1>1, <1>3 DEF new

\* The bounds are numbers.
LEMMA Numbers ==
    /\ Beat \in Nat /\ Scan \in Nat /\ Old \in Nat /\ TooMany \in Nat /\ TooMany > 0
    /\ MaxAsync \in Nat /\ MaxQuits \in Nat /\ MaxClicks \in Nat /\ Cap \in Nat
    /\ Beat > 2 /\ Old > 1 /\ Scan > 0 /\ Cap > Beat + 2
    BY BoundAssumption

\* The initial state is well typed.
LEMMA TypeInit == Init => TypeOK
<1> SUFFICES ASSUME Init PROVE TypeOK
    OBVIOUS
<1>1. calls \in Seq(WaitingCall) /\ results \in Seq(Result)
    BY DEF Init
<1>2. faults \in 0..Faults /\ fails \in Nat /\ asyncs \in 0..MaxAsync
      /\ quits \in 0..MaxQuits /\ clicks \in 0..MaxClicks
    BY Numbers, FaultsType DEF Init
<1>3. /\ beatAge \in 0..Beat /\ fileAge \in 0..Old /\ scanAge \in 0..Scan
      /\ noSession \in 0..Cap /\ fooled \in 0..Cap
    BY Numbers DEF Init
<1> QED
    BY <1>1, <1>2, <1>3 DEF Init, TypeOK

\* The steps of NetWorker's thread keep the types,
LEMMA TypeWorkerStep == TypeOK /\ WorkerStep => TypeOK'
<1> SUFFICES ASSUME TypeOK, WorkerStep PROVE TypeOK'
    OBVIOUS
<1> USE FaultsType, Numbers DEF link, worker, session, clocks, bounds
<1>0. calls \in Seq(WaitingCall) /\ Faults \in Nat
    BY DEF TypeOK
<1>1. CASE HeartBeat
    <2>1. calls' \in Seq(WaitingCall) /\ token' \in {"none", "valid", "stale"}
        <3>1. CASE ok
            BY <1>0, <1>1, <3>1, BeatCalls DEF HeartBeat, TypeOK
        <3>2. CASE ~ok
            BY <1>1, <3>2, SlotLoginCalls DEF HeartBeat
        <3> QED
            BY <3>1, <3>2
    <2>2. beatAge' \in 0..Beat
        BY <1>1, BoundAssumption DEF HeartBeat
    <2> QED
        BY <1>1, <2>1, <2>2 DEF HeartBeat, TypeOK
<1>2. CASE QueryExtension
    <2>1. asyncs' \in 0..MaxAsync
        BY <1>2 DEF QueryExtension, TypeOK
    <2> QED
        BY <1>2, <2>1 DEF QueryExtension, TypeOK
<1>3. CASE Answer
    <2>1. calls' \in Seq(WaitingCall)
        BY <1>0, <1>3, FinishedCalls DEF Answer, Reply
    <2> QED
        BY <1>3, <2>1 DEF Answer, TypeOK
<1>4. CASE Refuse
    <2>1. calls' \in Seq(WaitingCall)
        BY <1>0, <1>4, FinishedCalls DEF Refuse
    <2> QED
        BY <1>4, <2>1 DEF Refuse, TypeOK
<1>5. CASE Timeout
    <2>1. calls' \in Seq(WaitingCall)
        BY <1>0, <1>5, TimeoutCalls DEF Timeout
    <2> QED
        BY <1>5, <2>1 DEF Timeout, TypeOK
<1>6. CASE AnswerError
    <2>1. calls' \in Seq(WaitingCall)
        BY <1>0, <1>6, FinishedCalls DEF AnswerError
    <2> QED
        BY <1>6, <2>1 DEF AnswerError, TypeOK
<1>7. CASE AsyncFinished
    <2>1. calls' \in Seq(WaitingCall)
        BY <1>0, <1>7, AllQuitCalls DEF AsyncFinished
    <2> QED
        BY <1>7, <2>1 DEF AsyncFinished, TypeOK
<1>8. CASE Return
    <2> DEFINE reply == IF Top.reply = "none" THEN "unfinished" ELSE Top.reply
    <2>1. /\ Top \in WaitingCall /\ Below \in Seq(WaitingCall)
          /\ AfterLogin(reply) \/ AfterBeat(reply) \/ AfterAgain(reply)
        BY <1>0, <1>8, BelowType DEF Return
    <2>2. reply \in Result /\ Top.send \in BOOLEAN
        BY <2>1 DEF WaitingCall, Result
    <2> HIDE DEF reply
    <2>3. CASE AfterLogin(reply)
        <3>1. results' \in Seq(Result)
            BY <2>2, <2>3, AppendOne DEF AfterLogin, TypeOK
        <3> QED
            BY <1>8, <2>1, <2>2, <2>3, <3>1 DEF Return, AfterLogin, TypeOK
    <2>4. CASE AfterBeat(reply)
        <3>1. calls' \in Seq(WaitingCall)
            BY <2>1, <2>4, BeatCalls DEF AfterBeat
        <3> QED
            BY <1>8, <2>4, <3>1 DEF Return, AfterBeat, TypeOK
    <2>5. CASE AfterAgain(reply)
        BY <1>8, <2>1, <2>5 DEF Return, AfterAgain, TypeOK
    <2> QED
        BY <2>1, <2>3, <2>4, <2>5
<1> QED
    BY <1>1, <1>2, <1>3, <1>4, <1>5, <1>6, <1>7, <1>8 DEF WorkerStep, WaitEnds

\* and so do those of the client, the loader and the surroundings.
LEMMA TypeOtherStep == TypeOK /\ (ClientStep \/ LoaderStep \/ WorldStep) => TypeOK'
<1> SUFFICES ASSUME TypeOK, ClientStep \/ LoaderStep \/ WorldStep PROVE TypeOK'
    OBVIOUS
<1> USE FaultsType, Numbers DEF link, worker, session, clocks, bounds
<1>0. /\ calls \in Seq(WaitingCall) /\ Faults \in Nat
      /\ results # <<>> => Tail(results) \in Seq(Result)
      /\ <<>> \in Seq(WaitingCall) /\ <<>> \in Seq(Result)
      /\ auto \in AutoLogin /\ net \in BOOLEAN
      /\ faults \in 0..Faults /\ quits \in 0..MaxQuits /\ clicks \in 0..MaxClicks
      /\ beatAge \in 0..Beat /\ fileAge \in 0..Old /\ scanAge \in 0..Scan
      /\ noSession \in 0..Cap /\ fooled \in 0..Cap
    BY DEF TypeOK
<1>1. CASE Accept
    BY <1>0, <1>1 DEF Accept, TypeOK
<1>2. CASE Retry
    <2>1. calls' \in Seq(WaitingCall) /\ token' = "none"
        BY <1>2, SlotLoginCalls DEF Retry
    <2> QED
        BY <1>0, <1>2, <2>1 DEF Retry, TypeOK
<1>3. CASE LateResult
    BY <1>0, <1>3 DEF LateResult, TypeOK
<1>4. CASE Reject \/ KillMe \/ Quit
    <2>1. Gone /\ UNCHANGED <<net, faults, auto, fileAge, scanAge, clicks>>
        BY <1>4 DEF Reject, KillMe, Quit
    <2>2. quits' \in 0..MaxQuits
        BY <1>4 DEF Reject, KillMe, Quit, TypeOK
    <2>3. /\ app' = "off" /\ calls' = <<>> /\ ok' = FALSE /\ token' = "none" /\ fails' = 0
          /\ asyncs' = 0 /\ queries' = FALSE /\ results' = <<>> /\ killing' = FALSE
          /\ beatAge' = 0 /\ noSession' = 0 /\ fooled' = 0
        BY <2>1 DEF Gone, Reset
    <2>4. auto' \in AutoLogin /\ net' \in BOOLEAN /\ faults' \in 0..Faults' /\ clicks' \in 0..MaxClicks
        BY <2>1 DEF TypeOK
    <2>5. fileAge' \in 0..Old /\ scanAge' \in 0..Scan
        BY <2>1 DEF TypeOK
    <2>6. /\ calls' \in Seq(WaitingCall) /\ results' \in Seq(Result)
          /\ fails' \in Nat /\ asyncs' \in 0..MaxAsync
          /\ beatAge' \in 0..Beat /\ noSession' \in 0..Cap /\ fooled' \in 0..Cap
        BY <1>0, <2>3
    <2> QED
        BY <2>2, <2>3, <2>4, <2>5, <2>6 DEF TypeOK
<1>5. CASE WriteFile
    BY <1>5 DEF WriteFile, TypeOK
<1>6. CASE LoaderStarts \/ LoaderWaits
    <2>1. /\ UNCHANGED <<link, session, asyncs, beatAge, fileAge, noSession, fooled, bounds>>
          /\ scanAge' = 0 /\ app' \in {"off", "login", "window"}
        BY <1>6 DEF LoaderStarts, LoaderWaits, Run, TypeOK
    <2> QED
        BY <2>1 DEF TypeOK
<1>7. CASE LoaderKills
    <2>1. /\ app' = "login" /\ calls' = <<>> /\ ok' = FALSE /\ token' = "none" /\ fails' = 0
          /\ asyncs' = 0 /\ queries' = FALSE /\ results' = <<>> /\ killing' = FALSE
          /\ beatAge' = 0 /\ noSession' = 0 /\ fooled' = 0 /\ scanAge' = 0
          /\ UNCHANGED <<net, faults, fileAge, auto, quits, clicks>>
        BY <1>7 DEF LoaderKills, Reset, Run
    <2>4. auto' \in AutoLogin /\ net' \in BOOLEAN /\ faults' \in 0..Faults' /\ clicks' \in 0..MaxClicks
        BY <2>1 DEF TypeOK
    <2>5. fileAge' \in 0..Old /\ scanAge' \in 0..Scan /\ quits' \in 0..MaxQuits
        BY <2>1 DEF TypeOK
    <2>6. /\ calls' \in Seq(WaitingCall) /\ results' \in Seq(Result)
          /\ fails' \in Nat /\ asyncs' \in 0..MaxAsync
          /\ beatAge' \in 0..Beat /\ noSession' \in 0..Cap /\ fooled' \in 0..Cap
        BY <1>0, <2>1
    <2> QED
        BY <2>1, <2>4, <2>5, <2>6 DEF TypeOK
<1>8. CASE OkClicked
    <2>1. calls' \in Seq(WaitingCall) /\ token' = "none"
        BY <1>8, SlotLoginCalls DEF OkClicked
    <2>2. clicks' \in 0..MaxClicks
        BY <1>8 DEF OkClicked, TypeOK
    <2> QED
        BY <1>0, <1>8, <2>1, <2>2 DEF OkClicked, TypeOK
<1>9. CASE AsyncRequest
    <2>1. asyncs' \in 0..MaxAsync
        BY <1>9 DEF AsyncRequest, TypeOK
    <2> QED
        BY <1>9, <2>1 DEF AsyncRequest, TypeOK
<1>10. CASE NetDown
    <2>1. calls' \in Seq(WaitingCall)
        BY <1>0, <1>10, NetDownCalls
    <2>2. faults' \in 0..Faults'
        <3>1. faults < Faults /\ faults' = faults + 1 /\ auto' = auto
            BY <1>10 DEF NetDown
        <3> QED
            BY <1>0, <3>1
    <2> QED
        BY <1>10, <2>1, <2>2 DEF NetDown, TypeOK
<1>11. CASE NetUp
    BY <1>11 DEF NetUp, TypeOK
<1>12. CASE PbxForgets
    <2>1. calls' \in Seq(WaitingCall)
        BY <1>0, <1>12, ForgottenCalls
    <2>2. faults' \in 0..Faults'
        <3>1. faults < Faults /\ faults' = faults + 1 /\ auto' = auto
            BY <1>12 DEF PbxForgets
        <3> QED
            BY <1>0, <3>1
    <2> QED
        BY <1>12, <2>1, <2>2 DEF PbxForgets, TypeOK
<1>13. CASE TimePasses
    <2>1. calls' \in Seq(WaitingCall)
        BY <1>0, <1>13, TickCalls
    <2>5. /\ app = "window" => beatAge < Beat
          /\ scanAge < Scan /\ scanAge' = scanAge + 1
          /\ beatAge' = IF app = "window" THEN beatAge + 1 ELSE 0
          /\ fileAge' = UpTo(Old, fileAge)
          /\ noSession' \in {UpTo(Cap, noSession), 0}
          /\ fooled' \in {UpTo(Cap, fooled), 0}
        BY <1>13 DEF TimePasses
    <2>2. beatAge' \in 0..Beat /\ scanAge' \in 0..Scan
        BY <1>0, <2>5
    <2>3. \A b \in Nat : \A age \in 0..b : UpTo(b, age) \in 0..b
        BY DEF UpTo
    <2>4. fileAge' \in 0..Old /\ noSession' \in 0..Cap /\ fooled' \in 0..Cap
        <3>1. /\ UpTo(Old, fileAge) \in 0..Old
              /\ UpTo(Cap, noSession) \in 0..Cap /\ UpTo(Cap, fooled) \in 0..Cap
            BY <1>0, <2>3
        <3>2. 0 \in 0..Cap
            OBVIOUS
        <3> QED
            BY <2>5, <3>1, <3>2
    <2> QED
        BY <1>13, <2>1, <2>2, <2>4 DEF TimePasses, TypeOK
<1> QED
    BY <1>1, <1>2, <1>3, <1>4, <1>5, <1>6, <1>7, <1>8, <1>9, <1>10, <1>11, <1>12, <1>13
       DEF ClientStep, LoaderStep, WorldStep

\* So every step does.
LEMMA TypeStep == TypeOK /\ [Next]_vars => TypeOK'
<1>1. TypeOK /\ UNCHANGED vars => TypeOK'
    BY DEF vars, link, session, worker, clocks, bounds, TypeOK, Faults
<1> QED
    BY <1>1, TypeWorkerStep, TypeOtherStep DEF Next

-----------------------------------------------------------------------------
(* The invariant *)

\* A sequence is empty when its length is zero.
LEMMA EmptyLen == \A S : \A q \in Seq(S) : /\ q = <<>> <=> Len(q) = 0
                                           /\ DOMAIN q = 1..Len(q) /\ Len(q) \in Nat
    OBVIOUS

\* The waits go on or end, but none begins and none returns.
WaitsGoOn ==
    /\ DOMAIN calls' = DOMAIN calls /\ Len(calls') = Len(calls)
    /\ \A i \in DOMAIN calls :
         /\ calls'[i].at = calls[i].at /\ calls'[i].send = calls[i].send
         /\ calls'[i].waited = calls[i].waited
         /\ calls'[i].reply # "none" => calls'[i].quit
         /\ calls'[i].with = "valid" => calls[i].with = "valid" /\ token' = token
         /\ calls'[i].reply = "success" /\ calls[i].at # "login" =>
              calls[i].reply = "success" \/ (net /\ calls[i].with = "valid")

\* A step that does no more than that to the waits, and nothing to the state the
\* invariant speaks of, keeps it.
LEMMA WaitsGoOnStep ==
    ASSUME IInv, TypeOK', WaitsGoOn,
           UNCHANGED <<app, ok, fails, results, killing, clicks, beatAge, noSession, fooled>>,
           token' = token \/ (token = "valid" /\ token' = "stale"),
           net' = net \/ ~net',
           app' = "window" => fileAge' <= 1
    PROVE  IInv'
<1>1. calls' = <<>> <=> calls = <<>>
    BY EmptyLen DEF IInv, TypeOK, WaitsGoOn
<1>2. \A n : Without(n)' <=> Without(n)
    BY DEF Without
<1>3. RepliesQuit' /\ OffIsEmpty' /\ FileIsYoung' /\ SilentInWindow'
    BY <1>1 DEF IInv, WaitsGoOn, RepliesQuit, OffIsEmpty, FileIsYoung, SilentInWindow
<1>4. OneCall' /\ TooManyIsFinal' /\ (clicks = 0 => KillIsLate)'
    BY DEF IInv, WaitsGoOn, OneCall, TooManyIsFinal, KillIsLate
<1>5. DialogWaits'
    <2>1. calls # <<>> => 1 \in DOMAIN calls
        BY EmptyLen DEF IInv, TypeOK
    <2> QED
        BY <1>1, <2>1 DEF IInv, WaitsGoOn, DialogWaits
<1>6. WorkingIsTrue'
    BY DEF IInv, WorkingIsTrue, TypeOK
<1>7. WindowWaits'
    <2> SUFFICES ASSUME clicks = 0, app = "window" PROVE WindowIsSound'
        BY DEF WindowWaits
    <2>1. WindowIsSound
        BY DEF IInv, WindowWaits
    <2>2. \A i \in DOMAIN calls : calls[i].at # "login" =>
             /\ calls'[i].with = "valid" => token' = "valid"
             /\ calls'[i].reply = "success" => fooled = 0
        BY <2>1 DEF IInv, WaitsGoOn, WindowIsSound, WorkingIsTrue
    <2> QED
        BY <1>1, <1>2, <2>1, <2>2 DEF WaitsGoOn, WindowIsSound
<1> QED
    BY <1>3, <1>4, <1>5, <1>6, <1>7 DEF IInv

\* The process ends, or is started anew.
LEMMA ResetStep == ASSUME TypeOK', Reset, app' # "window" PROVE IInv'
<1>1. /\ calls' = <<>> /\ results' = <<>> /\ fails' = 0 /\ fooled' = 0 /\ ~killing' /\ ~ok'
      /\ token' = "none"
    BY DEF Reset
<1>2. DOMAIN calls' = {} /\ Len(calls') = 0 /\ Len(results') = 0
    BY <1>1
<1>3. RepliesQuit' /\ OffIsEmpty' /\ FileIsYoung' /\ SilentInWindow'
    BY <1>1, <1>2 DEF RepliesQuit, OffIsEmpty, FileIsYoung, SilentInWindow
<1>4. OneCall' /\ TooManyIsFinal' /\ KillIsLate'
    BY <1>1, <1>2, Numbers DEF OneCall, TooManyIsFinal, KillIsLate
<1>5. DialogWaits' /\ WindowWaits' /\ WorkingIsTrue'
    BY <1>1, <1>2 DEF DialogWaits, WindowWaits, WindowIsSound, WorkingIsTrue
<1> QED
    BY <1>3, <1>4, <1>5 DEF IInv

\* A heartbeat of a client with a session.
LEMMA BeatStep ==
    ASSUME IInv, TypeOK', HeartBeat, ok
    PROVE  IInv'
<1> DEFINE n == Len(calls) + 1
<1>0. calls \in Seq(WaitingCall) /\ calls' = Append(calls, Call("beat", FALSE, token))
    BY DEF IInv, TypeOK, HeartBeat
<1>1. /\ Len(calls') = n /\ DOMAIN calls' = DOMAIN calls \cup {n} /\ n \notin DOMAIN calls
      /\ \A i \in DOMAIN calls : calls'[i] = calls[i]
      /\ LET c == calls'[n]
         IN  c.at = "beat" /\ c.waited = 0 /\ c.with = token /\ ~c.quit /\ c.reply = "none"
    BY <1>0, BeatCalls DEF IInv
<1>2. /\ app = "window" /\ beatAge = Beat /\ beatAge' = 0
      /\ UNCHANGED <<net, app, ok, token, fails, results, killing, fileAge, clicks, noSession, fooled>>
    BY DEF HeartBeat, link, worker, bounds
<1>3. RepliesQuit' /\ OffIsEmpty' /\ FileIsYoung' /\ SilentInWindow'
    BY <1>1, <1>2 DEF IInv, RepliesQuit, OffIsEmpty, FileIsYoung, SilentInWindow
<1>4. TooManyIsFinal' /\ (clicks = 0 => KillIsLate)' /\ DialogWaits' /\ WorkingIsTrue'
    BY <1>2 DEF IInv, TooManyIsFinal, KillIsLate, DialogWaits, WorkingIsTrue
<1>5. clicks = 0 => calls = <<>> /\ token # "none" /\ fails = 0 /\ fooled <= Beat /\ results = <<>>
    <2>1. SUFFICES ASSUME clicks = 0 PROVE calls = <<>> /\ token # "none" /\ fails = 0
                                           /\ fooled <= Beat /\ results = <<>>
        OBVIOUS
    <2>2. WindowIsSound /\ Len(calls) <= 1
        BY <1>2, <2>1 DEF IInv, OneCall, WindowWaits
    <2>3. calls = <<>>
        <3>1. ASSUME calls # <<>> PROVE FALSE
            <4>1. 1 \in DOMAIN calls /\ calls[1] \in WaitingCall
                BY <1>0, <3>1, EmptyLen
            <4> QED
                BY <1>2, <2>2, <4>1, Numbers DEF WindowIsSound, WaitingCall
        <3> QED
            BY <3>1
    <2> QED
        BY <1>2, <2>2, <2>3 DEF WindowIsSound
<1>6. OneCall'
    BY <1>1, <1>2, <1>5, EmptyLen DEF OneCall
<1>7. WindowWaits'
    <2> SUFFICES ASSUME clicks = 0 PROVE WindowIsSound'
        BY <1>2 DEF WindowWaits
    <2>1. n = 1 /\ DOMAIN calls' = {1} /\ calls' # <<>>
        <3>1. Len(calls) = 0 /\ DOMAIN calls = {}
            BY <1>5
        <3>2. n = 1 /\ DOMAIN calls' = {1}
            BY <1>1, <3>1
        <3>3. Len(<<>>) = 0
            OBVIOUS
        <3> QED
            BY <1>1, <3>2, <3>3
    <2>2. fooled' <= Beat + beatAge' /\ beatAge' <= calls'[1].waited /\ beatAge' <= calls'[1].waited + 1
        BY <1>1, <1>2, <1>5, <2>1, Numbers DEF IInv, TypeOK
    <2> QED
        BY <1>1, <1>2, <1>5, <2>1, <2>2 DEF WindowIsSound
<1> QED
    BY <1>3, <1>4, <1>6, <1>7 DEF IInv

\* One heartbeat period more or less.
LEMMA OnePeriodMore ==
    /\ 0 * Beat = 0
    /\ \A n \in Nat : n * Beat \in Nat /\ (n > 0 => (n - 1) * Beat + Beat = n * Beat)
    /\ \A n \in Nat, m \in Nat : n <= m => n * Beat <= m * Beat
<1>1. Beat \in Nat
    BY Numbers
<1>2. \A n \in Nat : n * Beat \in Nat /\ (n > 0 => (n - 1) * Beat + Beat = n * Beat)
    BY <1>1
<1>3. ASSUME NEW n \in Nat, NEW m \in Nat, n <= m PROVE n * Beat <= m * Beat
    BY <1>1, <1>3
<1> QED
    BY <1>1, <1>2, <1>3

\* One call is at most one.
LEMMA OneCallAfter ==
    ASSUME clicks' = 0 => Len(calls') = 0 \/ Len(calls') = 1
    PROVE  OneCall'
<1> SUFFICES ASSUME clicks' = 0 PROVE Len(calls') <= 1
    BY DEF OneCall
<1>1. CASE Len(calls') = 0
    BY <1>1
<1>2. CASE Len(calls') = 1
    BY <1>2
<1> QED
    BY <1>1, <1>2

\* A login that begins, whoever asked for it, clears the token and nothing else.
LEMMA LoginBegins ==
    ASSUME IInv, TypeOK', NEW s \in BOOLEAN, SlotLogin(s), s \/ app = "window",
           app # "off",
           UNCHANGED <<net, app, ok, fails, killing, fileAge, noSession, fooled>>
    PROVE  /\ RepliesQuit' /\ OffIsEmpty' /\ FileIsYoung' /\ SilentInWindow'
           /\ TooManyIsFinal' /\ (KillIsLate => KillIsLate') /\ WorkingIsTrue'
           /\ calls = <<>> =>
                /\ DOMAIN calls' = {1} /\ Len(calls') = 1 /\ calls' # <<>>
                /\ calls'[1].at = "login" /\ calls'[1].send = s /\ calls'[1].waited = 0
<1> DEFINE n == Len(calls) + 1
<1>1. /\ Len(calls') = n /\ DOMAIN calls' = DOMAIN calls \cup {n} /\ n \notin DOMAIN calls
      /\ \A i \in DOMAIN calls : calls'[i] = calls[i]
      /\ LET c == calls'[n]
         IN  c.at = "login" /\ c.send = s /\ c.waited = 0 /\ ~c.quit /\ c.reply = "none"
      /\ token' = "none"
    BY SlotLoginCalls DEF IInv
<1>2. RepliesQuit' /\ OffIsEmpty' /\ FileIsYoung' /\ SilentInWindow'
    BY <1>1 DEF IInv, RepliesQuit, OffIsEmpty, FileIsYoung, SilentInWindow
<1>3. TooManyIsFinal' /\ (KillIsLate => KillIsLate') /\ WorkingIsTrue'
    BY <1>1 DEF IInv, TooManyIsFinal, KillIsLate, WorkingIsTrue
<1>4. ASSUME calls = <<>>
      PROVE  n = 1 /\ DOMAIN calls' = {1} /\ Len(calls') = 1 /\ calls' # <<>>
    <2>1. Len(calls) = 0 /\ DOMAIN calls = {}
        BY <1>4
    <2>2. n = 1 /\ DOMAIN calls' = {1}
        BY <1>1, <2>1
    <2>3. Len(<<>>) = 0
        OBVIOUS
    <2> QED
        BY <1>1, <2>2, <2>3
<1> QED
    BY <1>1, <1>2, <1>3, <1>4

\* The heartbeat of a client without a session is a silent login.
LEMMA SilentLoginStep ==
    ASSUME IInv, TypeOK', HeartBeat, ~ok
    PROVE  IInv'
<1>1. /\ app = "window" /\ beatAge = Beat /\ beatAge' = 0 /\ SlotLogin(FALSE) /\ token' = "none"
      /\ UNCHANGED <<net, app, ok, fails, results, killing, fileAge, clicks, noSession, fooled>>
    BY DEF HeartBeat, link, worker, bounds, SlotLogin
<1>2. /\ RepliesQuit' /\ OffIsEmpty' /\ FileIsYoung' /\ SilentInWindow'
      /\ TooManyIsFinal' /\ (KillIsLate => KillIsLate') /\ WorkingIsTrue'
      /\ calls = <<>> =>
           /\ DOMAIN calls' = {1} /\ Len(calls') = 1 /\ calls' # <<>>
           /\ calls'[1].at = "login" /\ ~calls'[1].send /\ calls'[1].waited = 0
    BY <1>1, LoginBegins
<1>3. clicks = 0 => /\ calls = <<>> /\ results = <<>> /\ fooled = 0
                    /\ fails > 0 => Without(fails - 1)
    <2>1. SUFFICES ASSUME clicks = 0
                   PROVE  /\ calls = <<>> /\ results = <<>> /\ fooled = 0
                          /\ fails > 0 => Without(fails - 1)
        OBVIOUS
    <2>2. WindowIsSound /\ Len(calls) <= 1
        BY <1>1, <2>1 DEF IInv, OneCall, WindowWaits
    <2>3. calls = <<>>
        <3>1. ASSUME calls # <<>> PROVE FALSE
            <4>0. calls \in Seq(WaitingCall)
                BY DEF IInv, TypeOK
            <4>1. 1 \in DOMAIN calls /\ calls[1] \in WaitingCall
                BY <3>1, <4>0, EmptyLen
            <4> QED
                BY <1>1, <2>2, <4>1, Numbers DEF WindowIsSound, WaitingCall
        <3> QED
            BY <3>1
    <2> QED
        BY <1>1, <2>2, <2>3, Numbers DEF WindowIsSound
<1>4. OneCall' /\ DialogWaits' /\ (clicks = 0 => KillIsLate)'
    <2>1. OneCall'
        <3>1. clicks' = 0 => calls = <<>>
            BY <1>1, <1>3
        <3>2. clicks' = 0 => Len(calls') = 1
            BY <3>1, <1>2
        <3> QED
            BY <3>2, OneCallAfter
    <2>2. DialogWaits'
        BY <1>1 DEF DialogWaits
    <2>3. (clicks = 0 => KillIsLate)'
        BY <1>1, <1>2 DEF IInv
    <2> QED
        BY <2>1, <2>2, <2>3
<1>5. clicks = 0 => Without(fails)'
    <2>1. fails \in Nat /\ noSession \in Nat
        BY DEF IInv, TypeOK
    <2>2. CASE fails = 0
        BY <1>1, <2>1, <2>2, OnePeriodMore DEF Without
    <2>3. CASE fails > 0
        BY <1>1, <1>3, <2>1, <2>3, OnePeriodMore DEF Without
    <2> QED
        BY <2>1, <2>2, <2>3
<1>6. WindowWaits'
    BY <1>1, <1>2, <1>3, <1>5 DEF WindowWaits, WindowIsSound
<1> QED
    BY <1>2, <1>4, <1>6 DEF IInv

\* The login of the dialog, asked for by the operator,
LEMMA OkClickedStep ==
    ASSUME IInv, TypeOK', OkClicked
    PROVE  IInv'
<1>1. /\ app = "login" /\ SlotLogin(TRUE) /\ token' = "none"
      /\ clicks' = 0 => clicks = 0 /\ calls = <<>> /\ results = <<>>
      /\ UNCHANGED <<net, app, ok, fails, results, killing, beatAge, fileAge, noSession, fooled>>
    BY DEF OkClicked, link, worker, clocks, SlotLogin, IInv, TypeOK
<1>2. /\ RepliesQuit' /\ OffIsEmpty' /\ FileIsYoung' /\ SilentInWindow'
      /\ TooManyIsFinal' /\ (KillIsLate => KillIsLate') /\ WorkingIsTrue'
      /\ calls = <<>> =>
           /\ DOMAIN calls' = {1} /\ Len(calls') = 1 /\ calls' # <<>>
           /\ calls'[1].at = "login" /\ calls'[1].send /\ calls'[1].waited = 0
    BY <1>1, LoginBegins
<1>3. OneCall' /\ WindowWaits' /\ (clicks = 0 => KillIsLate)'
    <2>1. OneCall'
        <3>1. clicks' = 0 => calls = <<>>
            BY <1>1
        <3>2. clicks' = 0 => Len(calls') = 1
            BY <3>1, <1>2
        <3> QED
            BY <3>2, OneCallAfter
    <2>2. WindowWaits'
        BY <1>1 DEF WindowWaits
    <2>3. (clicks = 0 => KillIsLate)'
        BY <1>1, <1>2 DEF IInv
    <2> QED
        BY <2>1, <2>2, <2>3
<1>4. DialogWaits'
    BY <1>1, <1>2 DEF IInv, DialogWaits
<1> QED
    BY <1>2, <1>3, <1>4 DEF IInv

\* or repeated because there was no reply.
LEMMA RetryStep ==
    ASSUME IInv, TypeOK', Retry
    PROVE  IInv'
<1>1. /\ results # <<>> /\ Head(results) \in {"empty", "unfinished"} /\ results' = Tail(results)
      /\ SlotLogin(TRUE) /\ token' = "none"
      /\ UNCHANGED <<net, app, ok, fails, killing, beatAge, fileAge, clicks, noSession, fooled>>
    BY DEF Retry, link, worker, clocks, bounds, SlotLogin
<1>2. app # "off" /\ app \in {"login", "window"}
    BY <1>1 DEF IInv, OffIsEmpty, TypeOK
<1>3. /\ RepliesQuit' /\ OffIsEmpty' /\ FileIsYoung' /\ SilentInWindow'
      /\ TooManyIsFinal' /\ (KillIsLate => KillIsLate') /\ WorkingIsTrue'
      /\ calls = <<>> =>
           /\ DOMAIN calls' = {1} /\ Len(calls') = 1 /\ calls' # <<>>
           /\ calls'[1].at = "login" /\ calls'[1].send /\ calls'[1].waited = 0
    BY <1>1, <1>2, LoginBegins
<1>4. clicks = 0 => app = "login" /\ calls = <<>> /\ results' = <<>> /\ ~ok /\ fails = 0 /\ fooled = 0
    <2>1. Len(results) <= 1 => results' = <<>>
        BY <1>1 DEF IInv, TypeOK
    <2>2. Head(results) = results[1]
        BY <1>1 DEF IInv, TypeOK
    <2> QED
        BY <1>1, <1>2, <2>1, <2>2 DEF IInv, DialogWaits, WindowWaits, WindowIsSound
<1>5. OneCall' /\ WindowWaits' /\ (clicks = 0 => KillIsLate)' /\ DialogWaits'
    <2>1. OneCall'
        <3>1. clicks' = 0 => calls = <<>>
            BY <1>1, <1>4
        <3>2. clicks' = 0 => Len(calls') = 1
            BY <3>1, <1>3
        <3> QED
            BY <3>2, OneCallAfter
    <2>2. WindowWaits'
        BY <1>1, <1>4 DEF WindowWaits
    <2>3. (clicks = 0 => KillIsLate)'
        BY <1>1, <1>3 DEF IInv
    <2>4. DialogWaits'
        <3>1. Len(<<>>) = 0
            OBVIOUS
        <3> SUFFICES ASSUME clicks' = 0
                     PROVE  /\ Len(results') <= 1 /\ results' = <<>> /\ ~ok'
                            /\ calls'[1].at = "login" /\ calls'[1].send
                            /\ fails' = 0 /\ fooled' = 0
            BY DEF DialogWaits
        <3>2. results' = <<>> /\ ~ok' /\ fails' = 0 /\ fooled' = 0 /\ calls = <<>>
            BY <1>1, <1>4
        <3>3. Len(results') <= 1
            BY <3>1, <3>2
        <3>4. calls'[1].at = "login" /\ calls'[1].send
            BY <1>3, <3>2
        <3> QED
            BY <3>2, <3>3, <3>4
    <2> QED
        BY <2>1, <2>2, <2>3, <2>4
<1> QED
    BY <1>3, <1>5 DEF IInv

\* The login dialog takes its result and the window opens.
LEMMA AcceptStep ==
    ASSUME IInv, TypeOK', Accept
    PROVE  IInv'
<1>1. /\ app = "login" /\ app' = "window" /\ beatAge' = 0 /\ fileAge' = 0
      /\ results # <<>> /\ results' = Tail(results)
      /\ UNCHANGED <<net, calls, ok, token, fails, killing, clicks, noSession, fooled>>
    BY DEF Accept, link, worker, bounds
<1>2. RepliesQuit' /\ OffIsEmpty' /\ FileIsYoung' /\ SilentInWindow'
    BY <1>1 DEF IInv, RepliesQuit, OffIsEmpty, FileIsYoung, SilentInWindow
<1>3. OneCall' /\ TooManyIsFinal' /\ (clicks = 0 => KillIsLate)' /\ WorkingIsTrue' /\ DialogWaits'
    BY <1>1 DEF IInv, OneCall, TooManyIsFinal, KillIsLate, WorkingIsTrue, DialogWaits
<1>4. clicks = 0 => results' = <<>> /\ calls = <<>> /\ DOMAIN calls = {}
    <2>1. Len(results) <= 1 => results' = <<>>
        BY <1>1 DEF IInv, TypeOK
    <2> QED
        BY <1>1, <2>1 DEF IInv, DialogWaits
<1>5. clicks = 0 => /\ ok => token # "none"
                    /\ fails = 0 /\ fooled = 0
    BY <1>1 DEF IInv, DialogWaits
<1>6. WindowWaits'
    BY <1>1, <1>4, <1>5 DEF WindowWaits, WindowIsSound
<1> QED
    BY <1>2, <1>3, <1>6 DEF IInv

\* A result for a dialog that is closed: with a patient operator there is none.
LEMMA LateResultStep ==
    ASSUME IInv, TypeOK', LateResult
    PROVE  IInv'
<1>1. /\ app = "window" /\ results # <<>>
      /\ UNCHANGED <<net, app, calls, ok, token, fails, killing, beatAge, fileAge, clicks,
                      noSession, fooled>>
    BY DEF LateResult, link, worker, clocks, bounds
<1>2. clicks # 0 /\ clicks' # 0
    BY <1>1 DEF IInv, WindowWaits, WindowIsSound
<1>3. RepliesQuit' /\ OffIsEmpty' /\ FileIsYoung' /\ SilentInWindow' /\ TooManyIsFinal'
    BY <1>1 DEF IInv, RepliesQuit, OffIsEmpty, FileIsYoung, SilentInWindow, TooManyIsFinal
<1>4. OneCall' /\ DialogWaits' /\ WindowWaits' /\ WorkingIsTrue' /\ (clicks = 0 => KillIsLate)'
    BY <1>2 DEF OneCall, DialogWaits, WindowWaits, WorkingIsTrue
<1> QED
    BY <1>3, <1>4 DEF IInv

\* The PBX can be reached again.
LEMMA NetUpStep ==
    ASSUME IInv, TypeOK', NetUp
    PROVE  IInv'
<1>1. /\ fooled' = IF token = "valid" THEN 0 ELSE fooled
      /\ UNCHANGED <<app, calls, ok, token, fails, results, killing, beatAge, fileAge, clicks,
                      noSession>>
    BY DEF NetUp, session, worker, bounds
<1>2. fooled' = fooled \/ fooled' = 0
    BY <1>1
<1>3. \A n : Without(n)' <=> Without(n)
    BY <1>1 DEF Without
<1>4. RepliesQuit' /\ OffIsEmpty' /\ FileIsYoung' /\ SilentInWindow' /\ TooManyIsFinal'
    BY <1>1 DEF IInv, RepliesQuit, OffIsEmpty, FileIsYoung, SilentInWindow, TooManyIsFinal
<1>5. OneCall' /\ DialogWaits' /\ (clicks = 0 => KillIsLate)'
    BY <1>1, <1>2 DEF IInv, OneCall, DialogWaits, KillIsLate
<1>6. WorkingIsTrue'
    BY <1>1 DEF WorkingIsTrue
<1>7. WindowWaits'
    <2>1. Beat \in Nat /\ beatAge \in Nat
        BY Numbers DEF IInv, TypeOK
    <2>2. 0 <= beatAge /\ 0 <= Beat + beatAge
        BY <2>1
    <2>3. WindowIsSound => WindowIsSound'
        BY <1>1, <1>2, <1>3, <2>2 DEF WindowIsSound
    <2> QED
        BY <1>1, <2>3 DEF IInv, WindowWaits
<1> QED
    BY <1>4, <1>5, <1>6, <1>7 DEF IInv

\* A tick: what waits has begun since the last one.
LEMMA TickStep ==
    ASSUME IInv, TypeOK', TimePasses
    PROVE  IInv'
<1>0. calls \in Seq(WaitingCall) /\ Len(calls) \in Nat /\ DOMAIN calls = 1..Len(calls)
      /\ beatAge \in Nat /\ noSession \in 0..Cap /\ fooled \in 0..Cap /\ fails \in Nat
    BY EmptyLen DEF IInv, TypeOK
<1>1. /\ \A i \in DOMAIN calls : ~calls[i].quit => calls[i].waited = 0
      /\ Listens /\ results = <<>> /\ ~killing
      /\ app = "window" => fileAge = 0
      /\ fileAge' = UpTo(Old, fileAge)
      /\ noSession' = IF app = "window" /\ ~ok THEN UpTo(Cap, noSession) ELSE 0
      /\ UNCHANGED <<net, app, ok, token, fails, results, killing, clicks>>
    BY DEF TimePasses, link, worker, bounds
<1>2. /\ beatAge' = IF app = "window" THEN beatAge + 1 ELSE 0
      /\ fooled' = IF app = "window" /\ ok /\ (~net \/ token # "valid")
                   THEN UpTo(Cap, fooled) ELSE 0
    BY DEF TimePasses
<1>3. /\ Len(calls') = Len(calls) /\ DOMAIN calls' = DOMAIN calls
      /\ calls' = <<>> <=> calls = <<>>
      /\ \A i \in DOMAIN calls :
           /\ calls'[i].at = calls[i].at /\ calls'[i].send = calls[i].send
           /\ calls'[i].with = calls[i].with /\ calls'[i].waited = 1
           /\ calls'[i].quit = calls[i].quit /\ calls'[i].reply = calls[i].reply
    <2>1. \A i \in DOMAIN calls : calls[i] \in WaitingCall
        BY <1>0
    <2>2. /\ calls' \in Seq(WaitingCall) /\ Len(calls') = Len(calls) /\ DOMAIN calls' = DOMAIN calls
          /\ \A j \in DOMAIN calls : calls'[j] = [calls[j] EXCEPT !.waited = 1]
        BY <1>0, TickCalls
    <2>3. calls' = <<>> <=> calls = <<>>
        BY <1>0, <2>2, EmptyLen
    <2> QED
        BY <2>1, <2>2, <2>3 DEF WaitingCall
<1>4. RepliesQuit' /\ SilentInWindow' /\ TooManyIsFinal' /\ (clicks = 0 => KillIsLate)' /\ OneCall'
    BY <1>1, <1>3 DEF IInv, RepliesQuit, SilentInWindow, TooManyIsFinal, KillIsLate, OneCall
<1>5. OffIsEmpty'
    BY <1>1, <1>2, <1>3 DEF IInv, OffIsEmpty
<1>6. FileIsYoung'
    BY <1>1, Numbers DEF FileIsYoung, UpTo
<1>7. WorkingIsTrue'
    BY <1>1, <1>2 DEF WorkingIsTrue
<1>8. DialogWaits'
    <2>1. calls # <<>> => 1 \in DOMAIN calls
        BY <1>0
    <2> QED
        BY <1>1, <1>2, <1>3, <2>1 DEF IInv, DialogWaits
<1>9. WindowWaits'
    <2> SUFFICES ASSUME clicks = 0, app = "window" PROVE WindowIsSound'
        BY <1>1 DEF WindowWaits
    <2>1. WindowIsSound /\ Len(calls) <= 1
        BY DEF IInv, OneCall, WindowWaits
    <2>2. \A i \in DOMAIN calls : ~calls[i].quit /\ calls[i].waited = 0 /\ calls[i].reply = "none"
        <3>1. \A i \in DOMAIN calls : i = Len(calls) /\ calls # <<>>
            BY <1>0, <2>1
        <3> QED
            BY <1>1, <3>1 DEF IInv, RepliesQuit, Listens, Top
    <2>3. /\ beatAge' = beatAge + 1 /\ fooled' \in Int /\ fooled' <= fooled + 1
          /\ ~ok => fooled' = 0
        BY <1>0, <1>2 DEF UpTo
    <2>4. ~ok => /\ Without(fails) => Without(fails)'
                 /\ fails > 0 /\ Without(fails - 1) => Without(fails - 1)'
        <3>1. \A n \in Nat : ~ok /\ (noSession = Cap \/ noSession >= n * Beat + beatAge) =>
                noSession' = Cap \/ noSession' >= n * Beat + beatAge'
            BY <1>0, <1>1, <2>3, OnePeriodMore, Numbers DEF UpTo
        <3>2. fails > 0 => fails - 1 \in Nat
            BY <1>0
        <3> QED
            BY <1>0, <1>1, <3>1, <3>2 DEF Without
    <2>5. calls = <<>> =>
             /\ ok => fooled' <= beatAge'
             /\ ~ok => fooled' = 0
             /\ fails > 0 => Without(fails - 1)'
        BY <1>0, <2>1, <2>3, <2>4 DEF WindowIsSound
    <2>6. \A i \in DOMAIN calls : calls[i].at = "login" =>
             /\ ~calls[i].send /\ ~ok /\ fooled' = 0
             /\ beatAge' <= 1 /\ Without(fails)'
        BY <1>0, <2>1, <2>2, <2>3, <2>4 DEF WindowIsSound
    <2>7. \A i \in DOMAIN calls : calls[i].at # "login" =>
             /\ token # "none" /\ fails = 0
             /\ calls[i].at = "beat" => ok /\ beatAge' <= 1
             /\ beatAge' <= 1 + 1
             /\ fooled' <= Beat + beatAge'
             /\ calls[i].with = "valid" => token = "valid"
             /\ calls[i].reply # "success"
        BY <1>0, <2>1, <2>2, <2>3, Numbers DEF WindowIsSound
    <2> QED
        BY <1>1, <1>3, <2>1, <2>5, <2>6, <2>7 DEF WindowIsSound
<1> QED
    BY <1>4, <1>5, <1>6, <1>7, <1>8, <1>9 DEF IInv

\* The calls after the innermost one has returned: with a patient operator, none.
LEMMA BelowCalls ==
    ASSUME IInv, calls # <<>>
    PROVE  /\ Below \in Seq(WaitingCall) /\ Top \in WaitingCall /\ Len(calls) \in DOMAIN calls
           /\ Top = calls[Len(calls)]
           /\ Len(Below) = Len(calls) - 1 /\ Len(calls) \in Nat
           /\ \A i \in DOMAIN Below : i \in DOMAIN calls /\ Below[i] = calls[i]
           /\ clicks = 0 => Len(calls) = 1 /\ Below = <<>> /\ Len(Below) = 0 /\ DOMAIN Below = {}
           /\ app # "off"
<1>1. calls \in Seq(WaitingCall)
    BY DEF IInv, TypeOK
<1>2. /\ Below \in Seq(WaitingCall) /\ Top \in WaitingCall /\ Len(calls) \in DOMAIN calls
      /\ Len(Below) = Len(calls) - 1
      /\ \A i \in DOMAIN Below : i \in DOMAIN calls /\ Below[i] = calls[i]
    BY <1>1, BelowType
<1>3. Len(calls) \in Nat /\ Len(calls) # 0
    BY <1>1, EmptyLen
<1>4. clicks = 0 => Len(calls) = 1 /\ Below = <<>> /\ Len(Below) = 0 /\ DOMAIN Below = {}
    BY <1>2, <1>3, EmptyLen DEF IInv, OneCall
<1>5. app # "off"
    BY DEF IInv, OffIsEmpty
<1> QED
    BY <1>2, <1>3, <1>4, <1>5 DEF Top

\* The end of a login.
LEMMA AfterLoginStep ==
    ASSUME IInv, TypeOK', calls # <<>>, NEW r \in Result, AfterLogin(r),
           UNCHANGED <<net, app, beatAge, fileAge, clicks, noSession, fooled>>
    PROVE  IInv'
<1>0. fails \in Nat /\ TooMany \in Nat /\ TooMany > 0 /\ Top.send \in BOOLEAN
    BY BelowCalls, Numbers DEF IInv, TypeOK, WaitingCall
<1>1. /\ Top.at = "login" /\ calls' = Below
      /\ ok' <=> r = "success"
      /\ ok' => token' = "valid" /\ fails' = 0
      /\ ~ok' => token' = token /\ fails' = IF Top.send THEN fails ELSE fails + 1
      /\ results' = IF Top.send THEN Append(results, r) ELSE results
      /\ killing' <=> killing \/ fails' >= TooMany
    BY DEF AfterLogin
<1>2. RepliesQuit'
    BY <1>1, BelowCalls DEF IInv, RepliesQuit
<1>3. OffIsEmpty' /\ FileIsYoung'
    BY BelowCalls DEF IInv, OffIsEmpty, FileIsYoung
<1>4. SilentInWindow' /\ TooManyIsFinal'
    <2>1. \A i \in DOMAIN calls' : i \in DOMAIN calls /\ calls'[i] = calls[i]
        BY <1>1, BelowCalls
    <2>2. fails' > 0 \/ killing' => app = "window"
        BY <1>0, <1>1, BelowCalls DEF IInv, SilentInWindow
    <2>3. SilentInWindow'
        BY <2>1, <2>2 DEF IInv, SilentInWindow
    <2>4. TooManyIsFinal'
        BY <1>0, <1>1, <2>2 DEF TooManyIsFinal
    <2> QED
        BY <2>3, <2>4
<1>5. clicks = 0 => /\ calls' = <<>> /\ DOMAIN calls' = {} /\ Len(calls') = 0
                    /\ 1 \in DOMAIN calls /\ Top = calls[1]
    BY <1>1, BelowCalls
<1>6. OneCall'
    BY <1>5 DEF OneCall
<1>7. CASE clicks # 0
    <2>1. DialogWaits' /\ WindowWaits' /\ WorkingIsTrue' /\ (clicks = 0 => KillIsLate)'
        BY <1>7 DEF DialogWaits, WindowWaits, WorkingIsTrue
    <2> QED
        BY <1>2, <1>3, <1>4, <1>6, <2>1 DEF IInv
<1>8. CASE clicks = 0 /\ app = "login"
    <2>1. Top.send /\ results = <<>> /\ ~ok /\ fails = 0 /\ fooled = 0 /\ ~killing
        BY <1>1, <1>5, <1>8, BelowCalls DEF IInv, DialogWaits, SilentInWindow
    <2>2. results' = <<r>> /\ fails' = 0 /\ fooled' = 0 /\ ~killing'
        BY <1>0, <1>1, <2>1
    <2>3. Len(results') = 1 /\ results' # <<>> /\ results'[1] = r
        BY <2>2
    <2>4. DialogWaits'
        <3>1. ok' => results' # <<>> /\ results'[1] = "success" /\ token' # "none"
            BY <1>1, <2>3
        <3>2. Len(results') <= 1 /\ calls' = <<>>
            BY <1>5, <1>8, <2>3
        <3> QED
            BY <2>2, <3>1, <3>2 DEF DialogWaits
    <2>5. WindowWaits' /\ WorkingIsTrue' /\ (clicks = 0 => KillIsLate)'
        BY <1>8, <2>2 DEF WindowWaits, WorkingIsTrue, KillIsLate
    <2> QED
        BY <1>2, <1>3, <1>4, <1>6, <2>4, <2>5 DEF IInv
<1>9. CASE clicks = 0 /\ app = "window"
    <2>1. /\ ~Top.send /\ ~ok /\ fooled = 0 /\ results = <<>> /\ Without(fails)
        BY <1>1, <1>5, <1>9 DEF IInv, WindowWaits, WindowIsSound
    <2>2. /\ results' = <<>> /\ fooled' = 0 /\ beatAge' = beatAge /\ noSession' = noSession
          /\ fails' = IF ok' THEN 0 ELSE fails + 1
          /\ ok' => token' = "valid"
        BY <1>0, <1>1, <2>1
    <2>3. fails' > 0 => Without(fails - 1)'
        BY <1>0, <2>1, <2>2 DEF Without
    <2>4. beatAge \in Nat /\ noSession \in Nat
        BY DEF IInv, TypeOK
    <2>5. WindowIsSound'
        <3>1. ok' => token' # "none" /\ fails' = 0
            BY <2>2
        <3>2. calls' = <<>> /\ DOMAIN calls' = {}
            BY <1>5, <1>9
        <3>3. fooled' <= beatAge'
            BY <2>2, <2>4
        <3> QED
            BY <2>2, <2>3, <3>1, <3>2, <3>3 DEF WindowIsSound
    <2>6. KillIsLate'
        <3>1. TooMany - 1 \in Nat
            BY <1>0
        <3>2. Cap > (TooMany - 1) * Beat
            BY BoundAssumption
        <3>3. fails + 1 >= TooMany => noSession >= (TooMany - 1) * Beat
            <4>1. SUFFICES ASSUME TooMany - 1 <= fails PROVE noSession >= (TooMany - 1) * Beat
                BY <1>0
            <4>2. (TooMany - 1) * Beat <= fails * Beat
                BY <1>0, <3>1, <4>1, OnePeriodMore
            <4>3. fails * Beat \in Nat /\ (TooMany - 1) * Beat \in Nat /\ Cap \in Nat
                BY <1>0, <3>1, OnePeriodMore, Numbers
            <4>4. noSession = Cap \/ noSession >= fails * Beat + beatAge
                BY <2>1 DEF Without
            <4> QED
                BY <2>4, <3>2, <4>2, <4>3, <4>4
        <3> QED
            BY <1>0, <1>1, <1>9, <2>2, <3>3 DEF IInv, KillIsLate
    <2>7. DialogWaits' /\ WorkingIsTrue'
        BY <1>9, <2>2 DEF DialogWaits, WorkingIsTrue
    <2> QED
        BY <1>2, <1>3, <1>4, <1>6, <2>5, <2>6, <2>7 DEF IInv, WindowWaits
<1> QED
    BY <1>7, <1>8, <1>9, BelowCalls DEF IInv, TypeOK

\* The parts of the invariant that the end of a heartbeat or of its second try
\* does not depend on.
LEMMA BeatEnds ==
    ASSUME IInv, TypeOK', calls # <<>>, Top.at # "login",
           calls' = Below \/ calls' = Append(Below, Call("again", FALSE, token)),
           UNCHANGED <<net, app, token, fails, results, killing, beatAge, fileAge, clicks,
                       noSession, fooled>>
    PROVE  /\ RepliesQuit' /\ OffIsEmpty' /\ FileIsYoung' /\ SilentInWindow'
           /\ OneCall' /\ DialogWaits' /\ WorkingIsTrue' /\ TooManyIsFinal'
           /\ (clicks = 0 => KillIsLate)'
           /\ clicks = 0 /\ calls' # Below =>
                /\ DOMAIN calls' = {1} /\ calls'[1].at = "again" /\ calls'[1].waited = 0
                /\ calls'[1].with = token /\ calls'[1].reply = "none" /\ calls' # <<>>
           /\ clicks = 0 /\ calls' = Below => DOMAIN calls' = {} /\ calls' = <<>>
           /\ clicks = 0 => app = "window" /\ 1 \in DOMAIN calls /\ Top = calls[1]
<1> DEFINE n == Len(Below) + 1
<1>1. calls' # Below =>
        /\ Len(calls') = n /\ DOMAIN calls' = DOMAIN Below \cup {n} /\ n \notin DOMAIN Below
        /\ \A i \in DOMAIN Below : calls'[i] = Below[i]
        /\ LET c == calls'[n]
           IN  c.at = "again" /\ c.waited = 0 /\ c.with = token /\ ~c.quit /\ c.reply = "none"
    BY BelowCalls, BeatCalls DEF IInv
<1>2. \A i \in DOMAIN calls' : \/ i \in DOMAIN calls /\ calls'[i] = calls[i]
                               \/ calls'[i].at = "again" /\ calls'[i].reply = "none"
    BY <1>1, BelowCalls
<1>3. RepliesQuit' /\ SilentInWindow'
    BY <1>2 DEF IInv, RepliesQuit, SilentInWindow
<1>4. OffIsEmpty' /\ FileIsYoung' /\ WorkingIsTrue' /\ TooManyIsFinal' /\ (clicks = 0 => KillIsLate)'
    BY BelowCalls DEF IInv, OffIsEmpty, FileIsYoung, WorkingIsTrue, TooManyIsFinal, KillIsLate
<1>5. clicks = 0 => app = "window" /\ 1 \in DOMAIN calls /\ Top = calls[1]
    BY BelowCalls DEF IInv, TypeOK, DialogWaits
<1>6. DialogWaits'
    BY <1>5 DEF DialogWaits
<1>7. clicks = 0 /\ calls' # Below =>
        /\ DOMAIN calls' = {1} /\ calls'[1].at = "again" /\ calls'[1].waited = 0
        /\ calls'[1].with = token /\ calls'[1].reply = "none" /\ Len(calls') = 1
    BY <1>1, BelowCalls
<1>8. clicks = 0 /\ calls' = Below => DOMAIN calls' = {} /\ calls' = <<>> /\ Len(calls') = 0
    BY BelowCalls
<1>9. Len(calls') = 1 => calls' # <<>>
    <2>1. Len(<<>>) = 0
        OBVIOUS
    <2> QED
        BY <2>1
<1>10. OneCall'
    <2>1. clicks' = 0 => Len(calls') = 0 \/ Len(calls') = 1
        BY <1>7, <1>8
    <2> QED
        BY <2>1, OneCallAfter
<1> QED
    BY <1>3, <1>4, <1>5, <1>6, <1>7, <1>8, <1>9, <1>10

\* The end of a heartbeat: with success, or with a second try.
LEMMA AfterBeatStep ==
    ASSUME IInv, TypeOK', calls # <<>>, NEW r \in Result, AfterBeat(r),
           r = "success" => Top.reply = "success",
           UNCHANGED <<net, app, beatAge, fileAge, clicks, noSession, fooled>>
    PROVE  IInv'
<1>1. /\ Top.at = "beat"
      /\ r = "success" => calls' = Below
      /\ r # "success" => calls' = Append(Below, Call("again", FALSE, token))
      /\ ok' => ok
      /\ r = "success" => (ok' <=> ok)
      /\ UNCHANGED <<token, fails, results, killing>>
    BY DEF AfterBeat
<1>2. /\ RepliesQuit' /\ OffIsEmpty' /\ FileIsYoung' /\ SilentInWindow'
      /\ OneCall' /\ DialogWaits' /\ WorkingIsTrue' /\ TooManyIsFinal'
      /\ (clicks = 0 => KillIsLate)'
      /\ clicks = 0 /\ calls' # Below =>
           /\ DOMAIN calls' = {1} /\ calls'[1].at = "again" /\ calls'[1].waited = 0
           /\ calls'[1].with = token /\ calls'[1].reply = "none" /\ calls' # <<>>
      /\ clicks = 0 /\ calls' = Below => DOMAIN calls' = {} /\ calls' = <<>>
      /\ clicks = 0 => app = "window" /\ 1 \in DOMAIN calls /\ Top = calls[1]
    BY <1>1, BeatEnds
<1>3. WindowWaits'
    <2> SUFFICES ASSUME clicks = 0 PROVE WindowIsSound'
        BY DEF WindowWaits
    <2>1. /\ token # "none" /\ fails = 0 /\ ok /\ results = <<>>
          /\ beatAge <= Top.waited /\ fooled <= Beat + beatAge
          /\ r = "success" => fooled = 0
        BY <1>1, <1>2 DEF IInv, WindowWaits, WindowIsSound
    <2>2. beatAge \in Nat /\ Top.waited \in 0..1
        BY BelowCalls DEF IInv, TypeOK, WaitingCall
    <2>3. CASE calls' = Below /\ r = "success"
        <3>1. calls' = <<>> /\ DOMAIN calls' = {}
            BY <1>2, <2>3
        <3>2. ok' /\ fooled' = 0 /\ fooled' <= beatAge'
            BY <1>1, <2>1, <2>2, <2>3
        <3> QED
            BY <1>1, <2>1, <3>1, <3>2 DEF WindowIsSound
    <2>4. CASE calls' # Below
        <3>1. beatAge' <= 1
            BY <2>1, <2>2
        <3> QED
            BY <1>1, <1>2, <2>1, <2>2, <2>4, <3>1 DEF WindowIsSound
    <2>5. r # "success" => calls' # Below
        <3>1. SUFFICES ASSUME r # "success", calls' = Below PROVE FALSE
            OBVIOUS
        <3>2. Len(calls') = Len(Below) + 1
            BY <1>1, <3>1, BelowCalls, BeatCalls DEF IInv
        <3> QED
            BY <3>1, <3>2, BelowCalls
    <2> QED
        BY <1>1, <2>3, <2>4, <2>5
<1> QED
    BY <1>2, <1>3 DEF IInv

\* The end of the second try.
LEMMA AfterAgainStep ==
    ASSUME IInv, TypeOK', calls # <<>>, NEW r \in Result, AfterAgain(r),
           r = "success" => Top.reply = "success",
           UNCHANGED <<net, app, beatAge, fileAge, clicks, noSession, fooled>>
    PROVE  IInv'
<1>1. /\ Top.at = "again" /\ calls' = Below
      /\ ok' <=> r = "success"
      /\ UNCHANGED <<token, fails, results, killing>>
    BY DEF AfterAgain
<1>2. /\ RepliesQuit' /\ OffIsEmpty' /\ FileIsYoung' /\ SilentInWindow'
      /\ OneCall' /\ DialogWaits' /\ WorkingIsTrue' /\ TooManyIsFinal'
      /\ (clicks = 0 => KillIsLate)'
      /\ clicks = 0 => DOMAIN calls' = {} /\ calls' = <<>>
      /\ clicks = 0 => app = "window" /\ 1 \in DOMAIN calls /\ Top = calls[1]
    BY <1>1, BeatEnds
<1>3. WindowWaits'
    <2> SUFFICES ASSUME clicks = 0 PROVE WindowIsSound'
        BY DEF WindowWaits
    <2>1. /\ token # "none" /\ fails = 0 /\ results = <<>>
          /\ beatAge <= Top.waited + 1 /\ fooled <= Beat + beatAge
          /\ r = "success" => fooled = 0
        BY <1>1, <1>2 DEF IInv, WindowWaits, WindowIsSound
    <2>2. beatAge \in Nat /\ Top.waited \in 0..1
        BY BelowCalls DEF IInv, TypeOK, WaitingCall
    <2>3. /\ ok' => fooled' <= beatAge'
          /\ beatAge' <= 2 /\ fooled' <= Beat + beatAge'
        BY <1>1, <2>1, <2>2
    <2> QED
        BY <1>1, <1>2, <2>1, <2>3 DEF WindowIsSound
<1> QED
    BY <1>2, <1>3 DEF IInv

\* So a request that returns keeps the invariant, whichever it is.
LEMMA ReturnStep ==
    ASSUME IInv, TypeOK', Return
    PROVE  IInv'
<1> DEFINE reply == IF Top.reply = "none" THEN "unfinished" ELSE Top.reply
<1>1. /\ calls # <<>>
      /\ AfterLogin(reply) \/ AfterBeat(reply) \/ AfterAgain(reply)
      /\ UNCHANGED <<net, app, beatAge, fileAge, clicks, noSession, fooled>>
    BY DEF Return, link, clocks, bounds
<1>2. reply \in Result /\ (reply = "success" => Top.reply = "success")
    BY <1>1, BelowCalls DEF WaitingCall, Result
<1> HIDE DEF reply
<1> QED
    BY <1>1, <1>2, AfterLoginStep, AfterBeatStep, AfterAgainStep

\* The steps that only change the course of the waits, or nothing of all this.
LEMMA WaitsStep ==
    ASSUME IInv, TypeOK',
           \/ WaitEnds \/ AnswerError \/ AsyncFinished \/ NetDown \/ PbxForgets
           \/ QueryExtension \/ AsyncRequest \/ WriteFile \/ LoaderWaits
           \/ UNCHANGED vars
    PROVE  IInv'
<1> USE DEF link, worker, session, clocks, bounds
<1>0. calls \in Seq(WaitingCall) /\ \A i \in DOMAIN calls : calls[i] \in WaitingCall
    BY CallUpdates DEF IInv, TypeOK
<1>1. ASSUME NEW i \in DOMAIN calls, NEW r \in {"success", "failed", "empty"}, Finished(i, r),
             r = "success" /\ calls[i].at # "login" => net /\ calls[i].with = "valid",
             UNCHANGED token
      PROVE  WaitsGoOn
    <2>1. /\ Len(calls') = Len(calls) /\ DOMAIN calls' = DOMAIN calls
          /\ \A j \in DOMAIN calls :
               calls'[j] = [calls[j] EXCEPT !.quit = TRUE, !.reply = IF j = i THEN r ELSE @]
        BY <1>0, <1>1, FinishedCalls
    <2>2. ASSUME NEW j \in DOMAIN calls
          PROVE  /\ calls'[j].at = calls[j].at /\ calls'[j].send = calls[j].send
                 /\ calls'[j].waited = calls[j].waited /\ calls'[j].with = calls[j].with
                 /\ calls'[j].quit /\ calls'[j].reply = IF j = i THEN r ELSE calls[j].reply
        BY <1>0, <2>1 DEF WaitingCall
    <2> QED
        BY <1>1, <2>1, <2>2 DEF WaitsGoOn
<1>2. CASE Answer
    <2>1. PICK i \in DOMAIN calls : Finished(i, Reply(calls[i]))
        BY <1>2 DEF Answer
    <2>2. /\ Reply(calls[i]) \in {"success", "failed", "empty"}
          /\ Reply(calls[i]) = "success" /\ calls[i].at # "login" => net /\ calls[i].with = "valid"
        BY <1>2 DEF Answer, Reply
    <2>3. WaitsGoOn
        BY <1>1, <1>2, <2>1, <2>2 DEF Answer
    <2> QED
        BY <1>2, <2>3, WaitsGoOnStep DEF Answer, IInv, FileIsYoung
<1>3. CASE AnswerError
    <2>1. WaitsGoOn
        BY <1>1, <1>3 DEF AnswerError
    <2> QED
        BY <1>3, <2>1, WaitsGoOnStep DEF AnswerError, IInv, FileIsYoung
<1>4. CASE Refuse
    <2>1. WaitsGoOn
        BY <1>1, <1>4 DEF Refuse
    <2> QED
        BY <1>4, <2>1, WaitsGoOnStep DEF Refuse, IInv, FileIsYoung
<1>5. CASE Timeout
    <2>1. WaitsGoOn
        BY <1>0, <1>5, TimeoutCalls DEF Timeout, IInv, RepliesQuit, WaitsGoOn, WaitingCall
    <2> QED
        BY <1>5, <2>1, WaitsGoOnStep DEF Timeout, IInv, FileIsYoung
<1>6. CASE AsyncFinished
    <2>1. WaitsGoOn
        BY <1>0, <1>6, AllQuitCalls DEF AsyncFinished, WaitsGoOn, WaitingCall
    <2> QED
        BY <1>6, <2>1, WaitsGoOnStep DEF AsyncFinished, IInv, FileIsYoung
<1>7. CASE NetDown
    <2>1. WaitsGoOn
        BY <1>0, <1>7, NetDownCalls DEF NetDown, IInv, RepliesQuit, WaitsGoOn, WaitingCall
    <2> QED
        BY <1>7, <2>1, WaitsGoOnStep DEF NetDown, IInv, FileIsYoung
<1>8. CASE PbxForgets
    <2>1. WaitsGoOn
        BY <1>0, <1>8, ForgottenCalls DEF PbxForgets, IInv, RepliesQuit, WaitsGoOn, WaitingCall
    <2> QED
        BY <1>8, <2>1, WaitsGoOnStep DEF PbxForgets, IInv, FileIsYoung
<1>9. ASSUME UNCHANGED <<net, app, calls, ok, token, fails, results, killing, clicks, beatAge,
                         noSession, fooled>>, fileAge' = fileAge \/ fileAge' = 0
      PROVE  IInv'
    <2>1. WaitsGoOn
        BY <1>9 DEF IInv, RepliesQuit, WaitsGoOn
    <2> QED
        BY <1>9, <2>1, WaitsGoOnStep DEF IInv, FileIsYoung
<1>10. CASE QueryExtension
    BY <1>9, <1>10 DEF QueryExtension
<1>11. CASE AsyncRequest
    BY <1>9, <1>11 DEF AsyncRequest
<1>12. CASE WriteFile
    BY <1>9, <1>12 DEF WriteFile
<1>13. CASE LoaderWaits
    BY <1>9, <1>13 DEF LoaderWaits
<1>14. CASE UNCHANGED vars
    BY <1>9, <1>14 DEF vars
<1> QED
    BY <1>2, <1>3, <1>4, <1>5, <1>6, <1>7, <1>8, <1>10, <1>11, <1>12, <1>13, <1>14 DEF WaitEnds

\* The loader starts a client that is not there.
LEMMA LoaderStartsStep ==
    ASSUME IInv, TypeOK', LoaderStarts
    PROVE  IInv'
<1>1. /\ app = "off" /\ app' = "login"
      /\ UNCHANGED <<net, calls, ok, token, fails, results, killing, clicks, noSession, fooled>>
    BY DEF LoaderStarts, Run, link, session, worker, bounds
<1>2. calls = <<>> /\ results = <<>> /\ ~ok /\ fails = 0 /\ ~killing /\ fooled = 0
    BY <1>1 DEF IInv, TypeOK, OffIsEmpty, SilentInWindow
<1>3. Len(calls) = 0 /\ Len(results) = 0 /\ DOMAIN calls = {}
    BY <1>2
<1>4. RepliesQuit' /\ OffIsEmpty' /\ FileIsYoung' /\ SilentInWindow' /\ OneCall'
    BY <1>1, <1>2, <1>3 DEF RepliesQuit, OffIsEmpty, FileIsYoung, SilentInWindow, OneCall
<1>5. DialogWaits' /\ WindowWaits' /\ WorkingIsTrue' /\ TooManyIsFinal' /\ (clicks = 0 => KillIsLate)'
    BY <1>1, <1>2, <1>3, Numbers DEF DialogWaits, WindowWaits, WorkingIsTrue, TooManyIsFinal, KillIsLate
<1> QED
    BY <1>4, <1>5 DEF IInv

-----------------------------------------------------------------------------
(* The theorems *)

LEMMA InvInit == Init => IInv
<1> SUFFICES ASSUME Init PROVE IInv
    OBVIOUS
<1>1. /\ calls = <<>> /\ results = <<>> /\ DOMAIN calls = {} /\ Len(calls) = 0
      /\ app = "off" /\ ~ok /\ token = "none" /\ fails = 0 /\ ~killing /\ fooled = 0
    BY DEF Init
<1>2. RepliesQuit /\ OffIsEmpty /\ FileIsYoung /\ SilentInWindow /\ OneCall
    BY <1>1 DEF RepliesQuit, OffIsEmpty, FileIsYoung, SilentInWindow, OneCall
<1>3. DialogWaits /\ WindowWaits /\ WorkingIsTrue /\ TooManyIsFinal /\ KillIsLate
    BY <1>1, Numbers DEF DialogWaits, WindowWaits, WorkingIsTrue, TooManyIsFinal, KillIsLate
<1> QED
    BY <1>2, <1>3, TypeInit DEF IInv

LEMMA InvStep == IInv /\ [Next]_vars => IInv'
<1> SUFFICES ASSUME IInv, [Next]_vars PROVE IInv'
    OBVIOUS
<1>1. TypeOK'
    BY TypeStep DEF IInv
<1>2. CASE WorkerStep
    BY <1>1, <1>2, BeatStep, SilentLoginStep, ReturnStep, WaitsStep DEF WorkerStep
<1>3. CASE Reject \/ KillMe \/ Quit \/ LoaderKills
    <2>1. Reset /\ app' # "window"
        BY <1>3 DEF Reject, KillMe, Quit, LoaderKills, Gone, Run
    <2> QED
        BY <1>1, <2>1, ResetStep
<1>4. CASE ClientStep
    BY <1>1, <1>3, <1>4, AcceptStep, RetryStep, LateResultStep, WaitsStep DEF ClientStep
<1>5. CASE LoaderStep
    BY <1>1, <1>3, <1>5, LoaderStartsStep, WaitsStep DEF LoaderStep
<1>6. CASE WorldStep
    BY <1>1, <1>6, OkClickedStep, NetUpStep, TickStep, WaitsStep DEF WorldStep
<1> QED
    BY <1>1, <1>2, <1>4, <1>5, <1>6, WaitsStep DEF Next

\* The inductive invariant holds in every reachable state.
THEOREM InvCorrect == Spec => []IInv
    BY InvInit, InvStep, PTL DEF Spec

\* Every variable of the session keeps its type, for all periods and bounds.
THEOREM TypeCorrect == Spec => []TypeOK
<1>1. IInv => TypeOK
    BY DEF IInv
<1> QED
    BY <1>1, InvCorrect, PTL

\* While mIsOK lets requests through there is a token to send with them
\* (slotLogin, slotHeartBeat): a heartbeat and its second try are over before
\* the next heartbeat, so no login clears the token of a session in use.
THEOREM RequestsHaveToken == Spec => []OkHasToken
<1>1. IInv => OkHasToken
    <2> SUFFICES ASSUME IInv, ok, clicks = 0
                 PROVE  token # "none" /\ \A i \in DOMAIN calls : calls[i].at # "login"
        BY DEF OkHasToken
    <2>1. Len(calls) \in Nat /\ Len(calls) <= 1 /\ DOMAIN calls = 1..Len(calls)
        BY EmptyLen DEF IInv, TypeOK, OneCall
    <2>2. \A i \in DOMAIN calls : i = 1
        BY <2>1
    <2>3. CASE app = "login"
        BY <2>2, <2>3 DEF IInv, DialogWaits
    <2>4. CASE app = "window"
        BY <2>4 DEF IInv, WindowWaits, WindowIsSound
    <2>5. app # "off"
        BY DEF IInv, OffIsEmpty
    <2> QED
        BY <2>3, <2>4, <2>5 DEF IInv, TypeOK
<1> QED
    BY <1>1, InvCorrect, PTL

\* A session that is lost is noticed by the next heartbeat and its second try,
\* for every heartbeat period, when the operator has never clicked OK while a
\* login was under way.  Each such click may leave one more login of the dialog
\* inside which the others have to wait; for those TLC checks it.
THEOREM LossNoticed == Spec => [](clicks = 0 => LossIsNoticed)
<1>1. IInv => (clicks = 0 => LossIsNoticed)
    <2> SUFFICES ASSUME IInv, clicks = 0 PROVE fooled <= Beat + 2
        BY DEF LossIsNoticed
    <2>1. Beat \in Nat /\ beatAge \in 0..Beat /\ fooled \in Nat
        BY Numbers DEF IInv, TypeOK
    <2>2. CASE app = "window" /\ calls = <<>>
        BY <2>1, <2>2 DEF IInv, WindowWaits, WindowIsSound
    <2>3. CASE app = "window" /\ calls # <<>>
        <3>0. calls \in Seq(WaitingCall)
            BY DEF IInv, TypeOK
        <3>1. 1 \in DOMAIN calls /\ calls[1] \in WaitingCall
            BY <2>3, <3>0, EmptyLen
        <3>2. calls[1].waited \in 0..1
            BY <3>1 DEF WaitingCall
        <3>3. fooled = 0 \/ (fooled <= Beat + beatAge /\ beatAge <= calls[1].waited + 1)
            BY <2>3, <3>1 DEF IInv, WindowWaits, WindowIsSound
        <3> QED
            BY <2>1, <3>2, <3>3
    <2>4. CASE app # "window"
        BY <2>1, <2>4 DEF IInv, TypeOK, OffIsEmpty, DialogWaits
    <2> QED
        BY <2>2, <2>3, <2>4
<1> QED
    BY <1>1, InvCorrect, PTL

\* The client kills itself only after TooMany - 1 heartbeat periods without a
\* session (slotLogin, slotKillMe), for the same operator.
THEOREM KilledLate == Spec => [](clicks = 0 => KillIsLate)
<1>1. IInv => (clicks = 0 => KillIsLate)
    BY DEF IInv
<1> QED
    BY <1>1, InvCorrect, PTL

\* A client that has failed too often does end: signalLoginFailedTooMany is
\* queued for a window that is there, whatever the operator has clicked.
THEOREM KilledAtLast == Spec => []TooManyIsFinal
<1>1. IInv => TooManyIsFinal
    BY DEF IInv
<1> QED
    BY <1>1, InvCorrect, PTL

\* The loader never takes a window down (VHFMonitorThread::run against
\* WatchDogThread::run), whatever its period.
THEOREM WindowSurvives == Spec => WindowIsLeftAlone
<1>1. IInv /\ [Next]_vars => [app = "window" => app' # "login"]_vars
    <2> SUFFICES ASSUME IInv, Next, app = "window", app' = "login" PROVE FALSE
        OBVIOUS
    <2>1. ~LoaderKills
        BY Numbers DEF LoaderKills, IsOld, IInv, FileIsYoung, TypeOK
    <2>2. ~(OkClicked \/ LoaderStarts)
        BY DEF OkClicked, LoaderStarts
    <2> QED
        BY <2>1, <2>2 DEF Next, WorkerStep, WaitEnds, ClientStep, LoaderStep, WorldStep,
           HeartBeat, QueryExtension, Answer, Refuse, Timeout, AnswerError, AsyncFinished, Return,
           Accept, Retry, Reject, LateResult, KillMe, Quit, Gone, WriteFile, LoaderWaits,
           AsyncRequest, NetDown, NetUp, PbxForgets, TimePasses, link
<1> QED
    BY <1>1, InvCorrect, PTL DEF Spec, WindowIsLeftAlone

=============================================================================
