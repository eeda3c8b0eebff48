------------------------------ MODULE Session ------------------------------
(***************************************************************************)
(* The session of the VHF client with the PBX, and who keeps the client    *)
(* alive: NetWorker (its own thread: login, heartbeat, synchronous         *)
(* requests that wait in a nested event loop), LoginDialog and             *)
(* ControlWindow (the GUI thread), WatchDogThread, and the separate        *)
(* program VHF_LOADER that starts the client and kills it when the         *)
(* watchdog file is old.                                                   *)
(*                                                                         *)
(* A nested loop goes on delivering signals, so a login or a heartbeat     *)
(* can run inside the wait of another: "calls" is the stack of the waits.  *)
(*                                                                         *)
(* Time is counted in ticks of 10 s: the timeout of a synchronous request  *)
(* and the pause of the watchdog are one tick, the heartbeat is six, the   *)
(* scan of the loader three, and a file of two ticks is old.               *)
(***************************************************************************)
EXTENDS Integers, Sequences

CONSTANTS
    Beat,        \* HEARTBEAT_TIMER, in ticks
    Scan,        \* sleep of VHFMonitorThread::run, in ticks
    Old,         \* age at which the watchdog file means a dead client, in ticks
    TooMany,     \* failed silent logins after which the client kills itself
    AutoLogin,   \* the values Login/AutoLogin may have in config.ini
    MaxAsync,    \* bound: asynchronous requests without a reply
    MaxFaults,   \* bound: faults of one behaviour, with AutoLogin
    FewerFaults, \* bound: faults of one behaviour, without
    MaxQuits,    \* bound: times the operator ends the client
    MaxClicks,   \* bound: clicks on OK while a login is under way
    Cap          \* bound: value at which the history clocks stop

ASSUME BoundAssumption ==
    /\ Beat \in Nat /\ Scan \in Nat \ {0} /\ Old \in Nat /\ TooMany \in Nat \ {0}
    /\ Beat > 2     \* two synchronous requests time out between two heartbeats
    /\ Old > 1      \* the watchdog writes its file in between
    /\ AutoLogin \subseteq BOOLEAN
    /\ {MaxAsync, MaxFaults, FewerFaults, MaxQuits, MaxClicks, Cap} \subseteq Nat
    /\ Cap > Beat + 2 /\ Cap > (TooMany - 1) * Beat   \* it hides no violation

VARIABLES
    auto,        \* Login/AutoLogin: the dialog presses its own button, which is disabled
    net,         \* the PBX can be reached
    app,         \* the client: off, its login dialog, its window
    calls,       \* the synchronous requests NetWorker waits for, the innermost last
    ok,          \* mIsOK
    token,       \* d->m_ApiToken: none, valid, or no longer known to the PBX
    fails,       \* mLoginFailedCnt
    asyncs,      \* asynchronous requests without a reply
    queries,     \* signalQueryExtension is queued
    results,     \* the signalSendLoginResult queued for the dialog
    killing,     \* signalLoginFailedTooMany queued for the window
    beatAge,     \* ticks since the heartbeat timer fired
    fileAge,     \* age of watchdog.txt, in ticks up to Old
    scanAge,     \* ticks since the loader looked
    faults, quits, clicks,
    noSession,   \* history: ticks since mIsOK was last true, up to Cap
    fooled       \* history: ticks for which mIsOK has been true in vain, up to Cap

link    == <<net, faults>>
worker  == <<ok, token, fails, queries, killing>>
session == <<calls, worker, results>>
clocks  == <<beatAge, fileAge, scanAge, noSession, fooled>>
bounds  == <<auto, quits, clicks>>
vars    == <<link, app, session, asyncs, clocks, bounds>>

Init ==
    /\ auto \in AutoLogin
    /\ net = TRUE /\ faults = 0 /\ app = "off" /\ quits = 0 /\ clicks = 0
    /\ calls = <<>>
    /\ ok = FALSE /\ token = "none" /\ fails = 0 /\ asyncs = 0
    /\ queries = FALSE /\ results = <<>> /\ killing = FALSE
    /\ beatAge = 0 /\ fileAge = Old /\ scanAge = Scan /\ noSession = 0 /\ fooled = 0

-----------------------------------------------------------------------------
(* NetWorker *)

\* The bound on the faults of this behaviour.
Faults == IF auto THEN MaxFaults ELSE FewerFaults

\* A request and the nested loop that waits for its reply.
Call(request, s, t) ==
    [at |-> request, send |-> s,   \* slotLogin's argument: the dialog wants the result
     with |-> t,                   \* the token it carries
     waited |-> 0,                 \* ticks since it was sent
     lost |-> ~net,                \* the PBX was not reachable all the time since
     reply |-> "none", quit |-> FALSE]

Top   == calls[Len(calls)]
Below == SubSeq(calls, 1, Len(calls) - 1)

\* A loop that has been told to quit returns before NetWorker runs its next slot.
Listens == calls # <<>> => ~Top.quit

\* slotLogin up to its wait.
SlotLogin(s) ==
    /\ Listens
    /\ calls' = Append(calls, Call("login", s, "none"))
    /\ token' = "none"

\* Mutant of HeartBeat: without a session nothing is done.
HeartBeatIfOk ==
    /\ app = "window" /\ beatAge = Beat /\ Listens
    /\ beatAge' = 0
    /\ calls' = IF ok THEN Append(calls, Call("beat", FALSE, token)) ELSE calls
    /\ UNCHANGED <<link, app, worker, results, asyncs, fileAge, scanAge, noSession, fooled, bounds>>

\* Mutant of HeartBeat: the login is always repeated.
HeartBeatLogin ==
    /\ app = "window" /\ beatAge = Beat /\ Listens
    /\ beatAge' = 0
    /\ SlotLogin(FALSE)
    /\ UNCHANGED <<link, app, ok, fails, queries, killing, results, asyncs, fileAge, scanAge,
                   noSession, fooled, bounds>>

\* slotHeartBeat up to its first wait.  Its timer belongs to the thread of the
\* window, so it also fires during a wait.
HeartBeat ==
    /\ app = "window" /\ beatAge = Beat /\ Listens
    /\ beatAge' = 0
    /\ IF ok THEN calls' = Append(calls, Call("beat", FALSE, token)) /\ UNCHANGED token
             ELSE SlotLogin(FALSE)
    /\ UNCHANGED <<link, app, ok, fails, queries, killing, results, asyncs, fileAge, scanAge,
                   noSession, fooled, bounds>>

\* Mutant of AfterLogin: a login does not forget the failures before it.
AfterLoginCounting(reply) ==
    /\ Top.at = "login" /\ calls' = Below
    /\ ok' = (reply = "success")
    /\ token' = IF ok' THEN "valid" ELSE token
    /\ fails' = IF Top.send \/ ok' THEN fails ELSE fails + 1
    /\ results' = IF Top.send THEN Append(results, reply) ELSE results
    /\ queries' = (queries \/ (ok' /\ ~Top.send))
    /\ killing' = (killing \/ fails' >= TooMany)

\* Mutant of AfterLogin: the tries left are counted, from the wrong end.
AfterLoginDown(reply) ==
    /\ Top.at = "login" /\ calls' = Below
    /\ ok' = (reply = "success")
    /\ token' = IF ok' THEN "valid" ELSE token
    /\ fails' = IF ok' THEN 0 ELSE IF Top.send THEN fails ELSE fails - 1
    /\ results' = IF Top.send THEN Append(results, reply) ELSE results
    /\ queries' = (queries \/ (ok' /\ ~Top.send))
    /\ killing' = (killing \/ fails' >= TooMany)

\* Mutant of AfterLogin: one failure more.
AfterLoginOneMore(reply) ==
    /\ Top.at = "login" /\ calls' = Below
    /\ ok' = (reply = "success")
    /\ token' = IF ok' THEN "valid" ELSE token
    /\ fails' = IF ok' THEN 0 ELSE IF Top.send THEN fails ELSE fails + 1
    /\ results' = IF Top.send THEN Append(results, reply) ELSE results
    /\ queries' = (queries \/ (ok' /\ ~Top.send))
    /\ killing' = (killing \/ fails' > TooMany)

\* The rest of slotLogin, after its wait.
AfterLogin(reply) ==
    /\ Top.at = "login" /\ calls' = Below
    /\ ok' = (reply = "success")
    /\ token' = IF ok' THEN "valid" ELSE token
    /\ fails' = IF ok' THEN 0 ELSE IF Top.send THEN fails ELSE fails + 1
    /\ results' = IF Top.send THEN Append(results, reply) ELSE results
    /\ queries' = (queries \/ (ok' /\ ~Top.send))
    /\ killing' = (killing \/ fails' >= TooMany)

\* The rest of slotHeartBeat after its first wait: a failure is tried again.  A
\* wait that ends without its reply has cleared mIsOK already.
AfterBeat(reply) ==
    /\ Top.at = "beat"
    /\ calls' = IF reply = "success" THEN Below ELSE Append(Below, Call("again", FALSE, token))
    /\ ok' = (ok /\ reply # "unfinished")
    /\ UNCHANGED <<token, fails, queries, results, killing>>

\* Mutant of AfterAgain: a PBX that answers keeps the session.
AfterAgainAnswered(reply) ==
    /\ Top.at = "again" /\ calls' = Below
    /\ ok' = (reply \in {"success", "failed"})
    /\ UNCHANGED <<token, fails, queries, results, killing>>

AfterAgain(reply) ==
    /\ Top.at = "again" /\ calls' = Below
    /\ ok' = (reply = "success")
    /\ UNCHANGED <<token, fails, queries, results, killing>>

\* The innermost loop has been told to quit: sendSyncRequest returns, with the
\* reply if that is what has come.
Return ==
    /\ calls # <<>> /\ Top.quit
    /\ LET reply == IF Top.reply = "none" THEN "unfinished" ELSE Top.reply
       IN  AfterLogin(reply) \/ AfterBeat(reply) \/ AfterAgain(reply)
    /\ UNCHANGED <<link, app, asyncs, clocks, bounds>>

\* A reply is finished.  The signal "finished" of the manager quits every nested
\* loop, whichever request it belongs to.
AllQuit == [i \in DOMAIN calls |-> [calls[i] EXCEPT !.quit = TRUE]]

Finished(i, reply) ==
    /\ calls[i].reply = "none"
    /\ calls' = [AllQuit EXCEPT ![i].reply = reply]

\* What the PBX answers: a heartbeat needs a token it knows.
Reply(call) == IF call.at = "login" \/ call.with = "valid" THEN "success" ELSE "failed"

\* The PBX answers a request that NetWorker waits for,
Answer ==
    /\ net
    /\ \E i \in DOMAIN calls: Finished(i, Reply(calls[i]))
    /\ UNCHANGED <<link, app, worker, results, asyncs, clocks, bounds>>

\* answers a login with an error,
AnswerError ==
    /\ net /\ faults < Faults /\ faults' = faults + 1
    /\ \E i \in DOMAIN calls: calls[i].at = "login" /\ Finished(i, "failed")
    /\ UNCHANGED <<net, app, worker, results, asyncs, clocks, bounds>>

\* or the connection is refused: the reply is finished and empty.
Refuse ==
    /\ ~net
    /\ \E i \in DOMAIN calls: Finished(i, "empty")
    /\ UNCHANGED <<link, app, worker, results, asyncs, clocks, bounds>>

\* The single-shot timer of sendSyncRequest quits its own loop.
Timeout ==
    /\ \E i \in DOMAIN calls:
         /\ calls[i].waited = 1 /\ ~calls[i].quit
         /\ calls' = [calls EXCEPT ![i].quit = TRUE]
    /\ UNCHANGED <<link, app, worker, results, asyncs, clocks, bounds>>

\* The window or a silent login sends an asynchronous request, if mIsOK.  Its
\* slot also runs inside the nested loop.
AsyncRequest ==
    /\ app = "window" /\ ok /\ asyncs < MaxAsync /\ Listens
    /\ asyncs' = asyncs + 1
    /\ UNCHANGED <<link, app, session, clocks, bounds>>

\* slotQueryExtensionList for signalQueryExtension.
QueryExtension ==
    /\ queries /\ Listens
    /\ queries' = FALSE
    /\ asyncs' = IF ok /\ asyncs < MaxAsync THEN asyncs + 1 ELSE asyncs
    /\ UNCHANGED <<link, app, calls, ok, token, fails, results, killing, clocks, bounds>>

\* An asynchronous request is finished: the replies that are waited for are not there.
AsyncFinished ==
    /\ asyncs > 0 /\ asyncs' = asyncs - 1
    /\ calls' = AllQuit
    /\ UNCHANGED <<link, app, worker, results, clocks, bounds>>

-----------------------------------------------------------------------------
(* The login dialog, the window, and the process *)

\* onOkButtonClicked, by the operator or, with AutoLogin, once by the dialog
\* itself.  Nothing keeps the operator from clicking again.
OkClicked ==
    /\ app = "login"
    /\ \/ calls = <<>> /\ results = <<>> /\ UNCHANGED clicks
       \/ ~auto /\ clicks < MaxClicks /\ clicks' = clicks + 1
    /\ SlotLogin(TRUE)
    /\ UNCHANGED <<link, app, ok, fails, queries, killing, results, asyncs, clocks, auto, quits>>

\* Everything the process held is gone.
Reset ==
    /\ calls' = <<>>
    /\ ok' = FALSE /\ token' = "none" /\ fails' = 0 /\ asyncs' = 0
    /\ queries' = FALSE /\ results' = <<>> /\ killing' = FALSE
    /\ beatAge' = 0 /\ noSession' = 0 /\ fooled' = 0

Gone == app' = "off" /\ Reset

\* slotRecvLoginResult: accept, and main opens the window: the heartbeat timer
\* is started and the watchdog thread writes its file,
Accept ==
    /\ app = "login" /\ results # <<>> /\ Head(results) = "success"
    /\ results' = Tail(results)
    /\ app' = "window" /\ beatAge' = 0 /\ fileAge' = 0
    /\ UNCHANGED <<link, calls, worker, asyncs, scanAge, noSession, fooled, bounds>>

\* try again when there was no reply (errorNo 1), even when the dialog is
\* closed: main keeps it as long as the window,
Retry ==
    /\ results # <<>> /\ Head(results) \in {"empty", "unfinished"}
    /\ results' = Tail(results)
    /\ SlotLogin(TRUE)
    /\ UNCHANGED <<link, app, ok, fails, queries, killing, asyncs, clocks, bounds>>

\* or give up: main returns.
Reject ==
    /\ app = "login" /\ results # <<>> /\ Head(results) = "failed"
    /\ Gone
    /\ UNCHANGED <<link, fileAge, scanAge, bounds>>

\* Accepting or rejecting a dialog that is closed does nothing.
LateResult ==
    /\ app = "window" /\ results # <<>> /\ Head(results) \in {"success", "failed"}
    /\ results' = Tail(results)
    /\ UNCHANGED <<link, app, calls, worker, asyncs, clocks, bounds>>

\* slotKillMe: taskkill.
KillMe ==
    /\ app = "window" /\ killing
    /\ Gone
    /\ UNCHANGED <<link, fileAge, scanAge, bounds>>

\* The operator cancels the login, or closes the window.
Quit ==
    /\ app # "off" /\ quits < MaxQuits
    /\ quits' = quits + 1
    /\ Gone
    /\ UNCHANGED <<link, fileAge, scanAge, auto, clicks>>

\* WatchDogThread::run, started by the window.
WriteFile ==
    /\ app = "window" /\ fileAge > 0
    /\ fileAge' = 0
    /\ UNCHANGED <<link, app, session, asyncs, beatAge, scanAge, noSession, fooled, bounds>>

-----------------------------------------------------------------------------
(* VHF_LOADER *)

\* Mutant of IsOld: one tick earlier.
IsOldEarly(age) == age >= Old - 1

IsOld(age) == age >= Old

\* runApp
Run == app' = "login"

\* VHFMonitorThread::run: start a client that is not there,
LoaderStarts ==
    /\ scanAge = Scan /\ app = "off"
    /\ scanAge' = 0
    /\ Run
    /\ UNCHANGED <<link, session, asyncs, beatAge, fileAge, noSession, fooled, bounds>>

\* leave one alone whose file is young,
LoaderWaits ==
    /\ scanAge = Scan /\ app # "off" /\ ~IsOld(fileAge)
    /\ scanAge' = 0
    /\ UNCHANGED <<link, app, session, asyncs, beatAge, fileAge, noSession, fooled, bounds>>

\* kill and start again one whose file is old.
LoaderKills ==
    /\ scanAge = Scan /\ app # "off" /\ IsOld(fileAge)
    /\ scanAge' = 0
    /\ Reset /\ Run
    /\ UNCHANGED <<link, fileAge, bounds>>

-----------------------------------------------------------------------------
(* The surroundings *)

NetDown ==
    /\ net /\ faults < Faults /\ faults' = faults + 1
    /\ net' = FALSE
    /\ calls' = [i \in DOMAIN calls |-> [calls[i] EXCEPT !.lost = TRUE]]
    /\ UNCHANGED <<app, worker, results, asyncs, clocks, bounds>>

NetUp ==
    /\ ~net
    /\ net' = TRUE
    /\ fooled' = IF token = "valid" THEN 0 ELSE fooled
    /\ UNCHANGED <<faults, app, session, asyncs, beatAge, fileAge, scanAge, noSession, bounds>>

\* The PBX restarts, or ends the sessions it has not heard of.
PbxForgets ==
    /\ token = "valid" /\ faults < Faults /\ faults' = faults + 1
    /\ token' = "stale"
    /\ calls' = [i \in DOMAIN calls |->
                   [calls[i] EXCEPT !.with = IF @ = "valid" THEN "stale" ELSE @]]
    /\ UNCHANGED <<net, app, ok, fails, queries, killing, results, asyncs, clocks, bounds>>

UpTo(bound, age) == IF age < bound THEN age + 1 ELSE age

\* A PBX that can be reached answers within a tick, the GUI thread handles its
\* signals within a tick, and the periodic steps come no later than they should.
TimePasses ==
    /\ \A i \in DOMAIN calls: ~calls[i].quit => calls[i].waited = 0 /\ (net => calls[i].lost)
    /\ Listens
    /\ net => asyncs = 0
    /\ app = "window" => beatAge < Beat /\ fileAge = 0
    /\ app = "login" /\ auto => calls # <<>>
    /\ scanAge < Scan /\ results = <<>> /\ ~killing /\ ~queries
    /\ calls' = [i \in DOMAIN calls |-> [calls[i] EXCEPT !.waited = 1]]
    /\ beatAge' = IF app = "window" THEN beatAge + 1 ELSE 0
    /\ fileAge' = UpTo(Old, fileAge) /\ scanAge' = scanAge + 1
    /\ noSession' = IF app = "window" /\ ~ok THEN UpTo(Cap, noSession) ELSE 0
    /\ fooled' = IF app = "window" /\ ok /\ (~net \/ token # "valid")
                 THEN UpTo(Cap, fooled) ELSE 0
    /\ UNCHANGED <<link, app, worker, results, asyncs, bounds>>

-----------------------------------------------------------------------------
WaitEnds   == Answer \/ Refuse \/ Timeout
WorkerStep == HeartBeat \/ QueryExtension \/ WaitEnds \/ AnswerError \/ AsyncFinished \/ Return
ClientStep == Accept \/ Retry \/ Reject \/ LateResult \/ KillMe \/ Quit \/ WriteFile
LoaderStep == LoaderStarts \/ LoaderWaits \/ LoaderKills
WorldStep  == OkClicked \/ AsyncRequest \/ NetDown \/ NetUp \/ PbxForgets \/ TimePasses

Next == WorkerStep \/ ClientStep \/ LoaderStep \/ WorldStep

Spec == Init /\ [][Next]_vars

\* The threads run, a lost connection comes back, time goes on; with AutoLogin
\* the dialog presses its own button.
Fairness ==
    /\ WF_vars(auto /\ OkClicked) /\ WF_vars(LoaderStep)
    /\ WF_vars(HeartBeat) /\ WF_vars(QueryExtension) /\ WF_vars(WaitEnds)
    /\ WF_vars(AsyncFinished) /\ WF_vars(Return)
    /\ WF_vars(Accept) /\ WF_vars(Retry) /\ WF_vars(Reject)
    /\ WF_vars(LateResult) /\ WF_vars(KillMe)
    /\ WF_vars(WriteFile) /\ WF_vars(NetUp) /\ SF_vars(TimePasses)

FairSpec == Spec /\ Fairness

-----------------------------------------------------------------------------
(* Properties *)

\* What a call and the reply of its caller may be.
WaitingCall == [at: {"login", "beat", "again"}, send: BOOLEAN,
                with: {"none", "valid", "stale"}, waited: 0..1, lost: BOOLEAN,
                reply: {"none", "success", "failed", "empty"}, quit: BOOLEAN]
Result      == {"success", "failed", "empty", "unfinished"}

\* Every variable holds a value of its type.
TypeOK ==
    /\ auto \in AutoLogin /\ net \in BOOLEAN
    /\ faults \in 0..Faults /\ quits \in 0..MaxQuits /\ clicks \in 0..MaxClicks
    /\ app \in {"off", "login", "window"}
    /\ calls \in Seq(WaitingCall)
    /\ ok \in BOOLEAN /\ token \in {"none", "valid", "stale"}
    /\ fails \in Nat /\ asyncs \in 0..MaxAsync
    /\ queries \in BOOLEAN /\ killing \in BOOLEAN
    /\ results \in Seq(Result)
    /\ beatAge \in 0..Beat /\ fileAge \in 0..Old /\ scanAge \in 0..Scan
    /\ noSession \in 0..Cap /\ fooled \in 0..Cap

\* While mIsOK lets requests through there is a token to send with them, and no
\* login is under way that has cleared it (slotLogin, slotHeartBeat), unless the
\* operator has clicked OK twice.
OkHasToken ==
    ok /\ clicks = 0 => token # "none" /\ \A i \in DOMAIN calls: calls[i].at # "login"

\* A session that is lost, because the PBX cannot be reached or has forgotten
\* the token, is noticed by the next heartbeat and its second try, whatever
\* other requests interfere: mIsOK is not true in vain for longer.
LossIsNoticed == fooled <= Beat + 2

\* The client kills itself only when it has had no session for TooMany silent
\* logins in a row, so for TooMany - 1 heartbeat periods at least.
KillIsLate == killing => noSession >= (TooMany - 1) * Beat

\* A client that has failed TooMany times will end, whichever of the logins that
\* run inside each other has failed last: the signal for the window is queued,
\* and the window is there to receive it.
TooManyIsFinal == fails >= TooMany => killing /\ app = "window"

\* The loader never takes down a client whose window is up: the watchdog file is
\* young at every scan, however the two periods fall.
WindowIsLeftAlone == [][app = "window" => app' # "login"]_vars

\* However often the connection or the session is lost and the client ends, and
\* however many logins run inside each other, a window has a session again; with
\* AutoLogin the client also comes back to its window without the operator.
ComesBack == []<>(IF app = "window" THEN ok /\ token = "valid" ELSE ~auto)

\* vhfmonitorthread.cpp:103: the client the loader kills is dead.  No client of
\* this model ever hangs, so none may be killed.
OnlyTheDeadAreKilled == [][~LoaderKills]_vars
=============================================================================
