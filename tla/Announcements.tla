--------------------------- MODULE Announcements ---------------------------
(***************************************************************************)
(* The way of an announcement from its text to a task of the task manager: *)
(* zchxVhfConvertThread (its own thread) starts one ComTextAudioThread per *)
(* text to make the audio file, hands the file to QUploadFileThread, which *)
(* sends it to the PBX, and turns what comes back into a task.             *)
(***************************************************************************)
EXTENDS Integers, FiniteSets, Sequences, SequencesExt

CONSTANTS
    Keep,        \* slotRecvUploadFileSuccess removes files while there are so many
    MaxTexts,    \* bound: texts submitted
    MaxSec,      \* bound: last second of the clock
    MaxFaults,   \* bound: failures of one behaviour
    Fault        \* the failures considered

FaultKind == {"voice", "server", "refused", "late", "name"}

ASSUME BoundAssumption ==
    /\ Keep \in Nat \ {0} /\ MaxTexts \in Nat /\ MaxSec \in Nat \ {0} /\ MaxFaults \in Nat
    /\ Fault \subseteq FaultKind

VARIABLES
    sec,         \* the clock, in seconds: it names the audio files
    texts,       \* texts submitted; the n-th text is the number n
    inbox,       \* signalRecvBroadSetting queued for the convert thread
    voices,      \* the ComTextAudioThreads that run
    done,        \* their finished signals, queued for the convert thread
    disk,        \* the .wav files, oldest first
    audio,       \* the text each of these files speaks
    list,        \* QUploadFileThread::m_listFile
    pc,          \* where that thread is: top, upload, relogin, reupload
    job,         \* its local "task"
    isLogin,     \* YeastarNetWork::mIsLogin
    server,      \* the web server of the PBX can be reached
    prompts,     \* the text each prompt file on the PBX speaks
    uploaded,    \* sigSendFileSuccess queued for the convert thread
    tasks,       \* signalAppendTask: what the task manager was given
    named,       \* history: the second of the last file name
    shared,      \* history: the seconds in which two texts got their names
    failed,      \* history: tries that failed since the job was taken
    faults

convert == <<inbox, voices, done>>
names   == <<named, shared>>
store   == <<disk, audio>>
upload  == <<list, pc, job, isLogin, failed>>
world   == <<sec, texts, server, prompts>>
vars    == <<convert, names, store, upload, world, uploaded, tasks, faults>>

\* A setting in the pipeline: the number of its text, whether it is only
\* listened to (mIsTry), and its mLocalAudioName (0 for none).
Setting == [text : 1..MaxTexts, try : BOOLEAN, name : 0..MaxSec]
NoJob   == [text |-> 0, try |-> FALSE, name |-> 0]

Fails(kind) == kind \in Fault /\ faults < MaxFaults /\ faults' = faults + 1

Init ==
    /\ sec = 1 /\ texts = 0 /\ server = TRUE /\ prompts = <<>> /\ faults = 0
    /\ inbox = <<>> /\ voices = {} /\ done = <<>> /\ disk = <<>> /\ audio = <<>>
    /\ list = <<>> /\ pc = "top" /\ job = NoJob /\ isLogin = FALSE /\ failed = 0
    /\ named = 0 /\ shared = {}
    /\ uploaded = <<>> /\ tasks = <<>>

-----------------------------------------------------------------------------
(* Who asks for an announcement *)

\* signalRecvBroadSetting; slotPlayTextAudio and slotRecvJavaInfo send a text to be
\* broadcast as well, and ask no question.
Submit(try) ==
    /\ texts < MaxTexts
    /\ texts' = texts + 1
    /\ inbox' = Append(inbox, [text |-> texts', try |-> try, name |-> 0])
    /\ UNCHANGED <<names, sec, server, prompts, voices, done, store, upload, uploaded,
                   tasks, faults>>

\* on_play_clicked: a text to be listened to.
PlayClicked == Submit(TRUE)

\* on_SendBtn_clicked: a text that was checked and confirmed, to be broadcast.
SendClicked == Submit(FALSE)

-----------------------------------------------------------------------------
(* zchxVhfConvertThread and its ComTextAudioThreads *)

\* Mutant of FileName: the seconds are left out of the name.
FileNameNoSeconds(s) == IF s.try THEN 0 ELSE 1

\* The file is named after the second; there is none for a try.
FileName(s) == IF s.try THEN 0 ELSE sec

\* slotRecvBroadSetting: the file gets its name, the thread is started.
RecvBroadSetting ==
    /\ inbox # <<>>
    /\ inbox' = Tail(inbox)
    /\ LET s == Head(inbox) IN
       /\ voices' = voices \cup {[s EXCEPT !.name = FileName(s)]}
       /\ named' = IF s.try THEN named ELSE sec
       /\ shared' = IF ~s.try /\ named = sec THEN shared \cup {sec} ELSE shared
    /\ UNCHANGED <<done, store, upload, world, uploaded, tasks, faults>>

\* Mutant of Written: a file that is there is taken for another one.
WrittenTwice(n, t) ==
    /\ disk' = Append(disk, n)
    /\ audio' = [m \in DOMAIN audio \cup {n} |-> IF m = n THEN t ELSE audio[m]]

\* The file n is created, or written again, by the text t.
Written(n, t) ==
    /\ disk' = Append(RemoveFirst(disk, n), n)
    /\ audio' = [m \in DOMAIN audio \cup {n} |-> IF m = n THEN t ELSE audio[m]]

\* ComTextAudioThread::run: playTask speaks, saveTask writes the file; without
\* COM or an audio device nothing is written, and the thread finishes as well.
VoiceEnds ==
    /\ \E v \in voices :
          /\ voices' = voices \ {v}
          /\ done' = Append(done, v)
          /\ \/ v.try /\ UNCHANGED <<store, faults>>
             \/ ~v.try /\ Written(v.name, v.text) /\ UNCHANGED faults
             \/ ~v.try /\ Fails("voice") /\ UNCHANGED store
    /\ UNCHANGED <<names, inbox, upload, world, uploaded, tasks>>

\* Mutant of Uploads: everything is uploaded.
UploadsAnything(v) == TRUE

\* What is only listened to ends here, and so does what has no file.
Uploads(v) == ~v.try /\ v.name \in Range(disk)

\* slotAudioTaskfinished, with addFile under m_lock.
AudioTaskFinished ==
    /\ done # <<>>
    /\ done' = Tail(done)
    /\ list' = IF Uploads(Head(done)) THEN Append(list, Head(done)) ELSE list
    /\ UNCHANGED <<names, inbox, voices, store, pc, job, isLogin, failed, world, uploaded, tasks,
                   faults>>

\* Mutant of Kept: the newest files go first.
KeptOldest(files) == IF Len(files) < Keep THEN files ELSE SubSeq(files, 1, Keep - 1)

\* The loop that removes the oldest file while there are Keep of them.
Kept(files) == IF Len(files) < Keep THEN files
               ELSE SubSeq(files, Len(files) - Keep + 2, Len(files))

\* slotRecvUploadFileSuccess: a name without a dot ends the task, with a message
\* to the operator; otherwise old files are removed and the task is appended.
RecvUploadFileSuccess ==
    /\ uploaded # <<>>
    /\ uploaded' = Tail(uploaded)
    /\ \/ /\ disk' = Kept(disk)
          /\ audio' = [m \in Range(disk') |-> audio[m]]
          /\ tasks' = Append(tasks, Head(uploaded))
          /\ UNCHANGED faults
       \/ Fails("name") /\ UNCHANGED <<store, tasks>>
    /\ UNCHANGED <<names, convert, upload, world>>

-----------------------------------------------------------------------------
(* QUploadFileThread *)

\* YeastarNetWork::post: the PBX answers, or does not do what it is asked ("none":
\* there is no connection, or it refuses), or does it and the answer is not there
\* after ten seconds ("late").  The caller sees an answer or nothing.
Post(outcome) ==
    \/ outcome = "answer" /\ server /\ UNCHANGED faults
    \/ outcome = "none" /\ ~server /\ UNCHANGED faults
    \/ outcome = "none" /\ server /\ Fails("refused")
    \/ outcome = "late" /\ server /\ Fails("late")

\* YeastarNetWork::login: mIsLogin tells whether the answer was a result of 1.
LoggedIn(sts) == Post(IF sts THEN "answer" ELSE "none") \/ (~sts /\ Post("late"))

\* Mutant of Login: the thread ends when it cannot log in.
LoginOnce ==
    /\ pc = "top" /\ ~isLogin
    /\ \/ LoggedIn(TRUE) /\ isLogin' = TRUE /\ UNCHANGED pc
       \/ LoggedIn(FALSE) /\ pc' = "ended" /\ UNCHANGED isLogin
    /\ UNCHANGED <<names, convert, store, list, job, failed, world, uploaded, tasks>>

\* The top of the loop: without a session the thread logs in, again and again.
Login ==
    /\ pc = "top" /\ ~isLogin
    /\ isLogin' \in BOOLEAN /\ LoggedIn(isLogin')
    /\ UNCHANGED <<names, convert, store, list, pc, job, failed, world, uploaded, tasks>>

\* Mutant of Take: the file stays in the list.
TakeAndLeave ==
    /\ pc = "top" /\ isLogin /\ list # <<>>
    /\ job' = Head(list) /\ pc' = "upload" /\ failed' = 0
    /\ UNCHANGED <<names, convert, store, list, isLogin, world, uploaded, tasks, faults>>

\* With a session it takes the first file off the list, under m_lock.
Take ==
    /\ pc = "top" /\ isLogin /\ list # <<>>
    /\ job' = Head(list) /\ list' = Tail(list)
    /\ pc' = "upload" /\ failed' = 0
    /\ UNCHANGED <<names, convert, store, isLogin, world, uploaded, tasks, faults>>

\* The PBX keeps the file of the job as a prompt of its name.
Prompted ==
    prompts' = [m \in DOMAIN prompts \cup {job.name} |->
                   IF m = job.name THEN audio[m] ELSE prompts[m]]

\* uploadFile returns the name of the prompt.
FileUploaded ==
    /\ job.name \in Range(disk) /\ Post("answer") /\ Prompted
    /\ uploaded' = Append(uploaded, job)
    /\ job' = NoJob
    /\ UNCHANGED failed

\* uploadFile returns nothing: there is no file, or no answer, though the PBX may
\* have the file.
FileFailed ==
    /\ \/ job.name \notin Range(disk) /\ UNCHANGED <<prompts, faults>>
       \/ job.name \in Range(disk) /\ Post("none") /\ UNCHANGED prompts
       \/ job.name \in Range(disk) /\ Post("late") /\ Prompted
    /\ failed' = failed + 1
    /\ UNCHANGED uploaded

Upload ==
    /\ pc = "upload"
    /\ \/ FileUploaded /\ pc' = "top" /\ UNCHANGED isLogin
       \/ FileFailed /\ pc' = "relogin" /\ isLogin' = FALSE /\ UNCHANGED job
    /\ UNCHANGED <<names, convert, store, list, sec, texts, server, tasks>>

\* Mutant of Relogin: after the login the next file is taken.
ReloginOnly ==
    /\ pc = "relogin" /\ LoggedIn(TRUE)
    /\ pc' = "top" /\ isLogin' = TRUE /\ job' = NoJob
    /\ UNCHANGED <<names, convert, store, list, failed, world, uploaded, tasks>>

\* The session is renewed; when that fails the file is forgotten ("continue").
Relogin ==
    /\ pc = "relogin"
    /\ isLogin' \in BOOLEAN /\ LoggedIn(isLogin')
    /\ IF isLogin' THEN pc' = "reupload" /\ UNCHANGED <<job, failed>>
                   ELSE pc' = "top" /\ job' = NoJob /\ failed' = failed + 1
    /\ UNCHANGED <<names, convert, store, list, world, uploaded, tasks>>

\* The second and last try: nothing is connected to sigSendFileFaild.
Reupload ==
    /\ pc = "reupload" /\ pc' = "top"
    /\ FileUploaded \/ (FileFailed /\ job' = NoJob)
    /\ UNCHANGED <<names, convert, store, list, isLogin, sec, texts, server, tasks>>

-----------------------------------------------------------------------------
(* The surroundings *)

Tick ==
    /\ sec < MaxSec /\ sec' = sec + 1
    /\ UNCHANGED <<names, texts, server, prompts, convert, store, upload, uploaded, tasks, faults>>

ServerDown ==
    /\ server /\ Fails("server")
    /\ server' = FALSE
    /\ UNCHANGED <<names, sec, texts, prompts, convert, store, upload, uploaded, tasks>>

ServerUp ==
    /\ ~server
    /\ server' = TRUE
    /\ UNCHANGED <<names, sec, texts, prompts, convert, store, upload, uploaded, tasks, faults>>

-----------------------------------------------------------------------------
ConvertStep == RecvBroadSetting \/ AudioTaskFinished \/ RecvUploadFileSuccess
UploadStep  == Login \/ Take \/ Upload \/ Relogin \/ Reupload

Next == \/ PlayClicked \/ SendClicked \/ ConvertStep \/ VoiceEnds \/ UploadStep
        \/ Tick \/ ServerDown \/ ServerUp

Spec == Init /\ [][Next]_vars

\* The threads run, every voice ends, and a lost server comes back.
FairSpec ==
    /\ Spec
    /\ WF_vars(RecvBroadSetting) /\ WF_vars(AudioTaskFinished)
    /\ WF_vars(RecvUploadFileSuccess) /\ WF_vars(VoiceEnds)
    /\ WF_vars(UploadStep) /\ WF_vars(ServerUp)

-----------------------------------------------------------------------------
(* Properties *)

\* Every variable holds a value of its type.
TypeOK ==
    /\ sec \in 1..MaxSec /\ texts \in 0..MaxTexts /\ faults \in 0..MaxFaults
    /\ server \in BOOLEAN /\ isLogin \in BOOLEAN /\ failed \in 0..2
    /\ voices \subseteq Setting
    /\ named \in 0..MaxSec /\ shared \subseteq 1..MaxSec
    /\ {inbox, done, list, uploaded, tasks} \subseteq Seq(Setting)
    /\ disk \in Seq(1..MaxSec) /\ IsInjective(disk) /\ audio \in [Range(disk) -> 1..MaxTexts]
    /\ prompts \in [DOMAIN prompts -> 1..MaxTexts] /\ DOMAIN prompts \subseteq 1..MaxSec
    /\ pc \in {"top", "upload", "relogin", "reupload"}
    /\ job \in Setting \cup {NoJob}

\* The settings that were handed to the uploading thread.
Handed == Range(list) \cup Range(uploaded) \cup Range(tasks) \cup {job}

\* A text the operator only listens to never gets on its way to the stations.
TriesStayLocal == \A s \in Handed : ~s.try

\* However often an upload is repeated, a text is one task at most.
OneTaskPerText ==
    \A i, j \in DOMAIN tasks : tasks[i].text = tasks[j].text => i = j

\* The uploading thread gives an announcement up only after two tries: an upload
\* that failed, and the new login or the second upload that failed too.
GivenUpAfterTwoFailures ==
    [][(job # NoJob /\ job' = NoJob /\ uploaded' = uploaded) => failed' = 2]_vars

Waiting == {s.name : s \in Range(list)}

\* Cleaning up takes the file of a waiting announcement only when so many younger
\* files are there that the directory is full of them.
WaitingFilesStay ==
    [][\A i \in DOMAIN disk :
          disk[i] \in Waiting \ Range(disk') => Len(disk) - i >= Keep - 1]_vars

\* vhfdatadefines.h:35: what a task plays is what it was made for.  The file on the
\* PBX speaks the text of the task, whatever was spoken, removed or uploaded in
\* between, unless another text got its name in the same second.
TaskPlaysItsText ==
    \A i \in DOMAIN tasks :
        prompts[tasks[i].name] = tasks[i].text \/ tasks[i].name \in shared

InThePipeline(t) ==
    \E s \in Handed \cup Range(inbox) \cup voices \cup Range(done) : s.text = t /\ s \notin Range(tasks)

\* Every text that is submitted leaves the pipeline, as a task or given up.
EveryTextIsDecided == \A t \in 1..MaxTexts : InThePipeline(t) ~> ~InThePipeline(t)
=============================================================================
