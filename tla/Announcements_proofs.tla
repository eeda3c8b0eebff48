------------------------ MODULE Announcements_proofs ------------------------
(***************************************************************************)
(* Proofs about Announcements: what is only listened to stays local, a     *)
(* text becomes one task at most, the prompt of a task speaks its text, an *)
(* announcement is given up after two failures, and cleaning up spares the *)
(* files that wait, for any number of texts, files, seconds and faults.    *)
(***************************************************************************)
EXTENDS Announcements, QueueLemmas, TLAPS

\* The place in the loop tells whether there is a job, and how often it failed.
JobAtWork ==
    /\ pc = "top" <=> job = NoJob
    /\ pc = "upload" => failed = 0
    /\ pc \in {"relogin", "reupload"} => failed = 1

Texts(S) == {s.text : s \in S}

\* Where a text can be, in the order of its way.
Stage == <<Texts(Range(inbox)), Texts(voices), Texts(Range(done)), Texts(Range(list)),
           Texts({job} \ {NoJob}), Texts(Range(uploaded)), Texts(Range(tasks))>>

PairwiseDisjoint(A) == \A i, j \in 1..7 : i # j => A[i] \cap A[j] = {}
OncePerText(q) == \A i, j \in DOMAIN q : q[i].text = q[j].text => i = j

\* A text is in one place only, and once.
OnePlaceEach ==
    /\ PairwiseDisjoint(Stage) /\ \A i \in 1..7 : Stage[i] \subseteq 1..texts
    /\ OncePerText(inbox) /\ OncePerText(done) /\ OncePerText(list) /\ OncePerText(uploaded)
    /\ OncePerText(tasks)
    /\ \A v, w \in voices : v.text = w.text => v = w

\* The settings to be broadcast that have a name.
Named == {s \in voices \cup Range(done) \cup Range(list) \cup ({job} \ {NoJob})
                       \cup Range(uploaded) \cup Range(tasks) : ~s.try}

\* A name is used by one text, unless it is shared.
NamesDiffer ==
    /\ named <= sec /\ shared \subseteq 1..named
    /\ DOMAIN audio \subseteq 1..named /\ DOMAIN prompts \subseteq 1..named
    /\ \A s \in Named : s.name \in 1..named
    /\ \A s, u \in Named : s.name = u.name => s.text = u.text \/ s.name \in shared

\* The file and the prompt of a name speak its text, unless the name is shared.
FilesSpeak ==
    /\ \A s \in Named :
          /\ s.name \in DOMAIN audio => audio[s.name] = s.text \/ s.name \in shared
          /\ s.name \in DOMAIN prompts => prompts[s.name] = s.text \/ s.name \in shared
    /\ \A s \in Range(uploaded) \cup Range(tasks) : s.name \in DOMAIN prompts

IInv == /\ TypeOK /\ JobAtWork /\ TriesStayLocal /\ OnePlaceEach /\ NamesDiffer /\ FilesSpeak

-----------------------------------------------------------------------------
(* Types, one part of the state at a time *)

WayOK   == /\ {inbox, done, list, uploaded, tasks} \subseteq Seq(Setting) /\ voices \subseteq Setting
           /\ job \in Setting \cup {NoJob} /\ texts \in 0..MaxTexts
FilesOK == /\ disk \in Seq(1..MaxSec) /\ IsInjective(disk) /\ audio \in [Range(disk) -> 1..MaxTexts]
           /\ prompts \in [DOMAIN prompts -> 1..MaxTexts] /\ DOMAIN prompts \subseteq 1..MaxSec
RestOK  == /\ sec \in 1..MaxSec /\ faults \in 0..MaxFaults
           /\ server \in BOOLEAN /\ isLogin \in BOOLEAN /\ failed \in 0..2
           /\ named \in 0..MaxSec /\ shared \subseteq 1..MaxSec
           /\ pc \in {"top", "upload", "relogin", "reupload"}

LEMMA Parts == TypeOK <=> WayOK /\ FilesOK /\ RestOK
    BY DEF TypeOK, WayOK, FilesOK, RestOK

\* The next state relation, action by action.
LEMMA Steps ==
    ASSUME Next
    PROVE  \/ \E try \in BOOLEAN : Submit(try)
           \/ RecvBroadSetting \/ AudioTaskFinished \/ RecvUploadFileSuccess \/ VoiceEnds
           \/ Login \/ Take \/ Upload \/ Relogin \/ Reupload \/ Tick \/ ServerDown \/ ServerUp
    BY DEF Next, PlayClicked, SendClicked, ConvertStep, UploadStep

\* The fields of a setting.
LEMMA SettingFields ==
    ASSUME NEW s \in Setting
    PROVE  s.text \in 1..MaxTexts /\ s.try \in BOOLEAN /\ s.name \in 0..MaxSec /\ s # NoJob
    BY DEF Setting, NoJob

\* The setting that waits first gets its name.
LEMMA NameGiven ==
    ASSUME NEW s \in Setting, sec \in 1..MaxSec
    PROVE  /\ [s EXCEPT !.name = FileName(s)] \in Setting
           /\ [s EXCEPT !.name = FileName(s)].text = s.text
           /\ [s EXCEPT !.name = FileName(s)].try = s.try
           /\ ~s.try => [s EXCEPT !.name = FileName(s)].name = sec
<1>1. FileName(s) \in 0..MaxSec /\ (~s.try => FileName(s) = sec)
    BY BoundAssumption DEF FileName
<1> QED
    BY <1>1 DEF Setting

\* A failure is counted, up to the bound.
LEMMA FaultsType ==
    ASSUME faults \in 0..MaxFaults, NEW kind
    PROVE  Fails(kind) => faults' \in 0..MaxFaults
    BY BoundAssumption DEF Fails

LEMMA PostFaults ==
    ASSUME faults \in 0..MaxFaults, NEW outcome
    PROVE  Post(outcome) => faults' \in 0..MaxFaults
    BY FaultsType DEF Post

\* A file that was uploaded, or not.
LEMMA UploadedFacts ==
    ASSUME WayOK, job # NoJob, FileUploaded
    PROVE  /\ uploaded' = Append(uploaded, job) /\ uploaded' \in Seq(Setting) /\ uploaded' # uploaded
           /\ Range(uploaded') = Range(uploaded) \cup {job} /\ job' = NoJob
           /\ job.name \in Range(disk) /\ Prompted /\ failed' = failed
<1>1. uploaded \in Seq(Setting) /\ job \in Setting
    BY DEF WayOK
<1>2. uploaded' = Append(uploaded, job)
    BY DEF FileUploaded
<1> QED
    BY <1>1, <1>2, QueueAppend, RangeAppend DEF FileUploaded

LEMMA WayStep == WayOK /\ JobAtWork /\ sec \in 1..MaxSec /\ [Next]_vars => WayOK'
<1> SUFFICES ASSUME WayOK, JobAtWork, sec \in 1..MaxSec, [Next]_vars PROVE WayOK'
    OBVIOUS
<1> USE DEF convert, names, store, upload, world
<1>0. /\ inbox \in Seq(Setting) /\ done \in Seq(Setting) /\ list \in Seq(Setting)
      /\ uploaded \in Seq(Setting) /\ tasks \in Seq(Setting) /\ voices \subseteq Setting
      /\ job \in Setting \cup {NoJob} /\ texts \in 0..MaxTexts
    BY DEF WayOK
<1>1. ASSUME NEW try \in BOOLEAN, Submit(try) PROVE WayOK'
    <2>1. texts' = texts + 1 /\ texts' \in 1..MaxTexts
        BY <1>0, <1>1, BoundAssumption DEF Submit
    <2>2. [text |-> texts', try |-> try, name |-> 0] \in Setting
        BY <2>1, BoundAssumption DEF Setting
    <2>3. inbox' \in Seq(Setting)
        BY <1>0, <1>1, <2>2, QueueAppend DEF Submit
    <2>4. texts' \in 0..MaxTexts
        BY <2>1
    <2> QED
        BY <1>0, <1>1, <2>3, <2>4 DEF Submit, WayOK
<1>2. CASE RecvBroadSetting
    <2>1. inbox # <<>>
        BY <1>2 DEF RecvBroadSetting
    <2>2. Head(inbox) \in Setting /\ Tail(inbox) \in Seq(Setting)
        BY <1>0, <2>1, QueueTail
    <2>3. voices' \subseteq Setting
        BY <1>0, <1>2, <2>2, NameGiven DEF RecvBroadSetting
    <2> QED
        BY <1>0, <1>2, <2>2, <2>3 DEF RecvBroadSetting, WayOK
<1>3. CASE VoiceEnds
    <2>1. voices' \subseteq Setting /\ done' \in Seq(Setting)
        BY <1>0, <1>3, QueueAppend DEF VoiceEnds
    <2> QED
        BY <1>0, <1>3, <2>1 DEF VoiceEnds, WayOK
<1>4. CASE AudioTaskFinished
    <2>1. done # <<>>
        BY <1>4 DEF AudioTaskFinished
    <2>2. Head(done) \in Setting /\ Tail(done) \in Seq(Setting)
        BY <1>0, <2>1, QueueTail
    <2>3. list' \in Seq(Setting)
        BY <1>0, <1>4, <2>2, QueueAppend DEF AudioTaskFinished
    <2> QED
        BY <1>0, <1>4, <2>2, <2>3 DEF AudioTaskFinished, WayOK
<1>5. CASE RecvUploadFileSuccess
    <2>1. uploaded # <<>>
        BY <1>5 DEF RecvUploadFileSuccess
    <2>2. Head(uploaded) \in Setting /\ Tail(uploaded) \in Seq(Setting)
        BY <1>0, <2>1, QueueTail
    <2>3. tasks' = tasks \/ tasks' = Append(tasks, Head(uploaded))
        BY <1>5 DEF RecvUploadFileSuccess
    <2>4. tasks' \in Seq(Setting)
        <3>1. Append(tasks, Head(uploaded)) \in Seq(Setting)
            BY <1>0, <2>2, QueueAppend
        <3> QED
            BY <1>0, <2>3, <3>1
    <2> QED
        BY <1>0, <1>5, <2>2, <2>4 DEF RecvUploadFileSuccess, WayOK
<1>6. CASE Take
    <2>1. list # <<>>
        BY <1>6 DEF Take
    <2>2. Head(list) \in Setting /\ Tail(list) \in Seq(Setting)
        BY <1>0, <2>1, QueueTail
    <2> QED
        BY <1>0, <1>6, <2>2 DEF Take, WayOK
<1>7. CASE Upload \/ Reupload
    <2>1. job # NoJob
        BY <1>7 DEF Upload, Reupload, JobAtWork
    <2>2. uploaded' \in Seq(Setting) /\ job' \in {job, NoJob}
        <3>1. CASE FileUploaded
            BY <2>1, <3>1, UploadedFacts
        <3>2. CASE FileFailed /\ job' \in {job, NoJob}
            BY <1>0, <3>2 DEF FileFailed
        <3> QED
            BY <1>7, <3>1, <3>2 DEF Upload, Reupload
    <2> QED
        BY <1>0, <1>7, <2>2 DEF Upload, Reupload, WayOK
<1>8. CASE Relogin
    <2>1. job' \in {job, NoJob}
        BY <1>8 DEF Relogin
    <2> QED
        BY <1>0, <1>8, <2>1 DEF Relogin, WayOK
<1>9. CASE Login \/ Tick \/ ServerDown \/ ServerUp \/ UNCHANGED vars
    BY <1>0, <1>9 DEF Login, Tick, ServerDown, ServerUp, vars, WayOK
<1> QED
    BY <1>1, <1>2, <1>3, <1>4, <1>5, <1>6, <1>7, <1>8, <1>9, Steps

\* What writing a file does to the directory.
LEMMA WrittenFacts ==
    ASSUME FilesOK, NEW n \in 1..MaxSec, NEW t \in 1..MaxTexts, Written(n, t)
    PROVE  /\ disk' \in Seq(1..MaxSec) /\ IsInjective(disk') /\ Range(disk') = Range(disk) \cup {n}
           /\ audio' \in [Range(disk') -> 1..MaxTexts] /\ DOMAIN audio' = DOMAIN audio \cup {n}
           /\ audio'[n] = t /\ \A m \in DOMAIN audio \ {n} : audio'[m] = audio[m]
<1> DEFINE r == RemoveFirst(disk, n)
<1>1. disk \in Seq(1..MaxSec) /\ IsInjective(disk) /\ DOMAIN audio = Range(disk)
      /\ \A m \in DOMAIN audio : audio[m] \in 1..MaxTexts
    BY DEF FilesOK
<1>2. r \in Seq(1..MaxSec) /\ IsInjective(r) /\ Range(r) = Range(disk) \ {n}
    BY <1>1, FirstRemoved
<1>3. disk' = Append(r, n)
      /\ audio' = [m \in DOMAIN audio \cup {n} |-> IF m = n THEN t ELSE audio[m]]
    BY DEF Written
<1> HIDE DEF r
<1>4. disk' \in Seq(1..MaxSec) /\ IsInjective(disk') /\ Range(disk') = Range(disk) \cup {n}
    <2>1. Append(r, n) \in Seq(1..MaxSec)
        BY <1>2
    <2>2. IsInjective(Append(r, n))
        BY <1>2, AppendNew
    <2>3. Range(Append(r, n)) = Range(r) \cup {n}
        <3> DEFINE Second == 1..MaxSec
        <3>1. r \in Seq(Second) /\ n \in Second
            BY <1>2
        <3> HIDE DEF Second
        <3> QED
            BY <3>1, RangeAppend
    <2> QED
        BY <1>2, <1>3, <2>1, <2>2, <2>3
<1>5. /\ DOMAIN audio' = DOMAIN audio \cup {n} /\ audio'[n] = t
      /\ \A m \in DOMAIN audio \ {n} : audio'[m] = audio[m]
    BY <1>3
<1>6. audio' \in [Range(disk') -> 1..MaxTexts]
    BY <1>1, <1>3, <1>4
<1> QED
    BY <1>4, <1>5, <1>6

\* What is kept are the youngest files, and nearly Keep of them.
LEMMA KeptFacts ==
    ASSUME NEW S, NEW q \in Seq(S), IsInjective(q)
    PROVE  /\ Kept(q) \in Seq(S) /\ IsInjective(Kept(q)) /\ Range(Kept(q)) \subseteq Range(q)
           /\ \A i \in DOMAIN q : q[i] \notin Range(Kept(q)) => Len(q) - i >= Keep - 1
<1>1. DOMAIN q = 1..Len(q) /\ Len(q) \in Nat /\ Keep \in Nat \ {0}
    BY BoundAssumption
<1>2. CASE Len(q) < Keep
    BY <1>1, <1>2 DEF Kept, Range
<1>3. CASE ~(Len(q) < Keep)
    <2> DEFINE k == Len(q) - Keep + 2
               r == SubSeq(q, k, Len(q))
    <2>1. k \in 1..(Len(q) + 1) /\ Kept(q) = r
        BY <1>1, <1>3 DEF Kept
    <2>2. /\ r \in Seq(S) /\ DOMAIN r = 1..(Len(q) - k + 1)
          /\ \A j \in 1..(Len(q) - k + 1) : r[j] = q[j + k - 1] /\ j + k - 1 \in 1..Len(q)
        BY <1>1, <2>1
    <2>3. ASSUME NEW i \in DOMAIN q, i >= k PROVE q[i] \in Range(r)
        <3>1. i - k + 1 \in 1..(Len(q) - k + 1) /\ (i - k + 1) + k - 1 = i
            BY <1>1, <2>1, <2>3
        <3> QED
            BY <2>2, <3>1 DEF Range
    <2>4. \A i \in DOMAIN q : q[i] \notin Range(r) => Len(q) - i >= Keep - 1
        BY <1>1, <2>1, <2>3
    <2> HIDE DEF r
    <2>5. Range(r) \subseteq Range(q)
        BY <1>1, <2>2 DEF Range
    <2>6. IsInjective(r)
        <3>1. ASSUME NEW i \in DOMAIN r, NEW j \in DOMAIN r, r[i] = r[j] PROVE i = j
            <4>1. i + k - 1 = j + k - 1
                BY <1>1, <2>2, <3>1 DEF IsInjective
            <4> QED
                BY <1>1, <2>1, <2>2, <4>1
        <3> QED
            BY <3>1 DEF IsInjective
    <2> QED
        BY <2>1, <2>2, <2>4, <2>5, <2>6
<1> QED
    BY <1>2, <1>3

\* What the PBX does with the file of the job.
LEMMA PromptedFacts ==
    ASSUME FilesOK, WayOK, job.name \in Range(disk), Prompted
    PROVE  /\ prompts' \in [DOMAIN prompts' -> 1..MaxTexts] /\ DOMAIN prompts' \subseteq 1..MaxSec
           /\ DOMAIN prompts' = DOMAIN prompts \cup {job.name}
           /\ prompts'[job.name] = audio[job.name]
           /\ \A m \in DOMAIN prompts \ {job.name} : prompts'[m] = prompts[m]
<1>1. /\ Range(disk) \subseteq 1..MaxSec /\ audio[job.name] \in 1..MaxTexts
      /\ \A m \in DOMAIN prompts : prompts[m] \in 1..MaxTexts
      /\ DOMAIN prompts \subseteq 1..MaxSec
    BY RangeOf DEF FilesOK
<1>2. prompts' = [m \in DOMAIN prompts \cup {job.name} |->
                     IF m = job.name THEN audio[m] ELSE prompts[m]]
    BY DEF Prompted
<1> QED
    BY <1>1, <1>2

LEMMA FilesStep ==
    ASSUME WayOK, FilesOK, NamesDiffer, sec \in 1..MaxSec, [Next]_vars
    PROVE  FilesOK'
<1> USE DEF store, world
<1>1. CASE VoiceEnds
    <2>1. UNCHANGED prompts
        BY <1>1 DEF VoiceEnds
    <2>2. CASE UNCHANGED store
        BY <2>1, <2>2 DEF FilesOK
    <2>3. CASE \E v \in voices : ~v.try /\ Written(v.name, v.text)
        <3>1. PICK v \in voices : ~v.try /\ Written(v.name, v.text)
            BY <2>3
        <3>2. v.name \in 1..named /\ v \in Setting /\ named <= sec
            BY <3>1 DEF NamesDiffer, Named, WayOK
        <3>3. v.name \in 1..MaxSec /\ v.text \in 1..MaxTexts
            BY <3>2, SettingFields
        <3> QED
            BY <2>1, <3>1, <3>3, WrittenFacts DEF FilesOK
    <2> QED
        BY <1>1, <2>2, <2>3 DEF VoiceEnds
<1>2. CASE RecvUploadFileSuccess
    <2>1. UNCHANGED prompts
        BY <1>2 DEF RecvUploadFileSuccess
    <2>2. CASE UNCHANGED store
        BY <2>1, <2>2 DEF FilesOK
    <2>3. CASE disk' = Kept(disk) /\ audio' = [m \in Range(disk') |-> audio[m]]
        <3>1. /\ disk' \in Seq(1..MaxSec) /\ IsInjective(disk') /\ Range(disk') \subseteq Range(disk)
            BY <2>3, KeptFacts DEF FilesOK
        <3>2. audio' \in [Range(disk') -> 1..MaxTexts]
            BY <2>3, <3>1 DEF FilesOK
        <3> QED
            BY <2>1, <3>1, <3>2 DEF FilesOK
    <2> QED
        BY <1>2, <2>2, <2>3 DEF RecvUploadFileSuccess
<1>3. CASE Upload \/ Reupload
    <2>1. UNCHANGED store
        BY <1>3 DEF Upload, Reupload
    <2>2. UNCHANGED prompts \/ (job.name \in Range(disk) /\ Prompted)
        BY <1>3 DEF Upload, Reupload, FileUploaded, FileFailed
    <2> QED
        BY <2>1, <2>2, PromptedFacts DEF FilesOK
<1>4. CASE UNCHANGED <<store, prompts>>
    BY <1>4 DEF FilesOK
<1>5. (\E try \in BOOLEAN : Submit(try)) \/ RecvBroadSetting \/ AudioTaskFinished \/ Login \/ Take
      \/ Relogin \/ Tick \/ ServerDown \/ ServerUp \/ UNCHANGED vars => UNCHANGED <<store, prompts>>
    BY DEF Submit, RecvBroadSetting, AudioTaskFinished, Login, Take, Relogin, Tick, ServerDown,
           ServerUp, vars
<1> QED
    BY <1>1, <1>2, <1>3, <1>4, <1>5, Steps

LEMMA RestStep ==
    ASSUME RestOK, JobAtWork, WayOK, [Next]_vars
    PROVE  RestOK' /\ JobAtWork'
<1> USE DEF names, upload, world
<1>0. /\ sec \in 1..MaxSec /\ faults \in 0..MaxFaults /\ failed \in 0..2
      /\ named \in 0..MaxSec /\ shared \subseteq 1..MaxSec /\ MaxSec \in Nat /\ isLogin \in BOOLEAN
      /\ server \in BOOLEAN
    BY BoundAssumption DEF RestOK
<1>1. faults' \in 0..MaxFaults
    <2>1. \A kind : Fails(kind) => faults' \in 0..MaxFaults
        BY <1>0, FaultsType
    <2>2. \A outcome : Post(outcome) => faults' \in 0..MaxFaults
        BY <1>0, PostFaults
    <2>3. CASE Login \/ Upload \/ Relogin \/ Reupload
        BY <1>0, <2>2, <2>3 DEF Login, Upload, Relogin, Reupload, LoggedIn, FileUploaded, FileFailed
    <2>4. CASE VoiceEnds \/ RecvUploadFileSuccess \/ ServerDown
        BY <1>0, <2>1, <2>4 DEF VoiceEnds, RecvUploadFileSuccess, ServerDown
    <2>5. (\E try \in BOOLEAN : Submit(try)) \/ RecvBroadSetting \/ AudioTaskFinished \/ Take \/ Tick
          \/ ServerUp \/ UNCHANGED vars => UNCHANGED faults
        BY DEF Submit, RecvBroadSetting, AudioTaskFinished, Take, Tick, ServerUp, vars
    <2> QED
        BY <1>0, <2>3, <2>4, <2>5, Steps
<1>2. sec' \in 1..MaxSec /\ server' \in BOOLEAN
    <2>1. CASE Tick
        BY <1>0, <2>1 DEF Tick
    <2>2. CASE ServerDown \/ ServerUp
        BY <1>0, <2>2 DEF ServerDown, ServerUp
    <2>3. (\E try \in BOOLEAN : Submit(try)) \/ RecvBroadSetting \/ AudioTaskFinished \/ Take
          \/ RecvUploadFileSuccess \/ VoiceEnds \/ Login \/ Upload \/ Relogin \/ Reupload
          \/ UNCHANGED vars => UNCHANGED <<sec, server>>
        BY DEF Submit, RecvBroadSetting, AudioTaskFinished, Take, RecvUploadFileSuccess, VoiceEnds,
               Login, Upload, Relogin, Reupload, vars
    <2> QED
        BY <1>0, <2>1, <2>2, <2>3, Steps
<1>3. named' \in 0..MaxSec /\ shared' \subseteq 1..MaxSec
    <2>1. CASE RecvBroadSetting
        <3>1. named' \in {named, sec} /\ shared' \in {shared, shared \cup {sec}}
            BY <2>1 DEF RecvBroadSetting
        <3> QED
            BY <1>0, <3>1
    <2>2. (\E try \in BOOLEAN : Submit(try)) \/ AudioTaskFinished \/ RecvUploadFileSuccess
          \/ VoiceEnds \/ Login \/ Take \/ Upload \/ Relogin \/ Reupload \/ Tick \/ ServerDown
          \/ ServerUp \/ UNCHANGED vars => UNCHANGED names
        BY DEF Submit, AudioTaskFinished, RecvUploadFileSuccess, VoiceEnds, Login, Take, Upload,
               Relogin, Reupload, Tick, ServerDown, ServerUp, vars
    <2> QED
        BY <1>0, <2>1, <2>2, Steps
<1>4. /\ pc' \in {"top", "upload", "relogin", "reupload"} /\ isLogin' \in BOOLEAN /\ failed' \in 0..2
      /\ JobAtWork'
    <2>1. CASE Login
        BY <1>0, <2>1 DEF Login, JobAtWork
    <2>2. CASE Take
        <3>1. list # <<>> /\ list \in Seq(Setting)
            BY <2>2 DEF Take, WayOK
        <3>2. job' # NoJob
            BY <2>2, <3>1, QueueTail, SettingFields DEF Take
        <3> QED
            BY <1>0, <2>2, <3>2 DEF Take, JobAtWork
    <2>3. CASE Upload
        <3>1. job # NoJob /\ failed = 0
            BY <2>3 DEF Upload, JobAtWork
        <3>2. CASE FileFailed /\ pc' = "relogin" /\ isLogin' = FALSE /\ UNCHANGED job
            <4>1. failed' = 1 /\ failed' \in 0..2
                BY <3>1, <3>2 DEF FileFailed
            <4>2. job' # NoJob /\ pc' = "relogin"
                BY <3>1, <3>2
            <4>3. JobAtWork'
                BY <4>1, <4>2 DEF JobAtWork
            <4> QED
                BY <3>2, <4>1, <4>3
        <3>3. CASE FileUploaded /\ pc' = "top" /\ UNCHANGED isLogin
            BY <1>0, <3>1, <3>3 DEF FileUploaded, JobAtWork
        <3> QED
            BY <2>3, <3>2, <3>3 DEF Upload
    <2>4. CASE Relogin
        BY <1>0, <2>4 DEF Relogin, JobAtWork
    <2>5. CASE Reupload
        <3>1. failed = 1 /\ pc' = "top" /\ UNCHANGED isLogin
            BY <2>5 DEF Reupload, JobAtWork
        <3>2. job' = NoJob /\ failed' \in {failed, failed + 1}
            BY <2>5 DEF Reupload, FileUploaded, FileFailed
        <3> QED
            BY <1>0, <3>1, <3>2 DEF JobAtWork
    <2>6. (\E try \in BOOLEAN : Submit(try)) \/ RecvBroadSetting \/ AudioTaskFinished
          \/ RecvUploadFileSuccess \/ VoiceEnds \/ Tick \/ ServerDown
          \/ ServerUp \/ UNCHANGED vars => UNCHANGED <<pc, job, isLogin, failed>>
        BY DEF Submit, RecvBroadSetting, AudioTaskFinished, RecvUploadFileSuccess, VoiceEnds,
               Tick, ServerDown, ServerUp, vars
    <2> QED
        BY <1>0, <2>1, <2>2, <2>3, <2>4, <2>5, <2>6, Steps DEF RestOK, JobAtWork
<1> QED
    BY <1>1, <1>2, <1>3, <1>4 DEF RestOK

-----------------------------------------------------------------------------
(* One text, one task *)

\* A text moves from one place to the next, or gets lost.
LEMMA MoveOn ==
    ASSUME NEW A, NEW B, NEW k \in 1..6, NEW t \in A[k], PairwiseDisjoint(A),
           B[k] \subseteq A[k] \ {t}, B[k + 1] \subseteq A[k + 1] \cup {t},
           \A i \in 1..7 : i # k /\ i # k + 1 => B[i] \subseteq A[i]
    PROVE  PairwiseDisjoint(B) /\ \A S : (\A i \in 1..7 : A[i] \subseteq S) => \A i \in 1..7 : B[i] \subseteq S
<1>0. k + 1 \in 1..7 /\ k \in 1..7 /\ k # k + 1
    OBVIOUS
<1>1. \A i \in 1..7 : \A x \in B[i] : x \in A[i] \/ (x = t /\ i = k + 1)
    BY <1>0
<1>2. t \notin B[k]
    OBVIOUS
<1>3. \A i \in 1..7 : i # k => t \notin A[i]
    BY <1>0 DEF PairwiseDisjoint
<1>4. ASSUME NEW i \in 1..7, NEW j \in 1..7, i # j, NEW x \in B[i], x \in B[j] PROVE FALSE
    <2>1. x \in A[i] \/ (x = t /\ i = k + 1)
        BY <1>1, <1>4
    <2>2. x \in A[j] \/ (x = t /\ j = k + 1)
        BY <1>1, <1>4
    <2>3. x \in A[i] => x \notin A[j]
        BY <1>4 DEF PairwiseDisjoint
    <2>4. x # t
        <3> SUFFICES ASSUME x = t PROVE FALSE
            OBVIOUS
        <3>1. i # k /\ j # k
            BY <1>2, <1>4
        <3>2. t \notin A[i] /\ t \notin A[j]
            BY <1>3, <3>1
        <3> QED
            BY <1>4, <2>1, <2>2, <3>2
    <2> QED
        BY <2>1, <2>2, <2>3, <2>4
<1>5. PairwiseDisjoint(B)
    BY <1>4 DEF PairwiseDisjoint
<1>6. ASSUME NEW S, \A i \in 1..7 : A[i] \subseteq S PROVE \A i \in 1..7 : B[i] \subseteq S
    BY <1>0, <1>1, <1>6
<1> QED
    BY <1>5, <1>6

LEMMA TextsOf ==
    ASSUME NEW S, NEW e
    PROVE  /\ Texts(S \cup {e}) = Texts(S) \cup {e.text}
           /\ \A s \in S : s.text \in Texts(S)
           /\ \A T : T \subseteq S => Texts(T) \subseteq Texts(S)
    BY DEF Texts

\* The head of a queue is taken.
LEMMA TextTail ==
    ASSUME NEW q \in Seq(Setting), q # <<>>, OncePerText(q)
    PROVE  /\ OncePerText(Tail(q))
           /\ Head(q) \in Setting /\ Head(q).text \in Texts(Range(q))
           /\ Texts(Range(Tail(q))) \subseteq Texts(Range(q)) \ {Head(q).text}
<1>1. /\ Len(q) \in Nat \ {0} /\ DOMAIN q = 1..Len(q) /\ DOMAIN Tail(q) = 1..(Len(q) - 1)
      /\ Head(q) \in Setting /\ Head(q) = q[1]
      /\ \A i \in 1..(Len(q) - 1) : Tail(q)[i] = q[i + 1]
    BY QueueTail
<1>2. OncePerText(Tail(q))
    <2>1. ASSUME NEW i \in DOMAIN Tail(q), NEW j \in DOMAIN Tail(q), Tail(q)[i].text = Tail(q)[j].text
          PROVE  i = j
        <3>1. i + 1 \in DOMAIN q /\ j + 1 \in DOMAIN q /\ q[i + 1].text = q[j + 1].text
            BY <1>1, <2>1
        <3>2. i + 1 = j + 1
            BY <3>1 DEF OncePerText
        <3> QED
            BY <1>1, <3>2
    <2> QED
        BY <2>1 DEF OncePerText
<1>3. Range(q) = Range(Tail(q)) \cup {Head(q)}
    BY RangeTail
<1>4. ASSUME NEW s \in Range(Tail(q)) PROVE s.text # Head(q).text
    <2>1. PICK i \in 1..(Len(q) - 1) : s = q[i + 1]
        BY <1>1, <1>4 DEF Range
    <2>2. i + 1 \in DOMAIN q /\ 1 \in DOMAIN q /\ i + 1 # 1
        BY <1>1
    <2> QED
        BY <1>1, <2>1, <2>2 DEF OncePerText
<1> QED
    BY <1>1, <1>2, <1>3, <1>4 DEF Texts

\* A setting joins a queue.
LEMMA TextAppend ==
    ASSUME NEW q \in Seq(Setting), NEW e \in Setting, OncePerText(q), e.text \notin Texts(Range(q))
    PROVE  /\ OncePerText(Append(q, e))
           /\ Texts(Range(Append(q, e))) = Texts(Range(q)) \cup {e.text}
<1>1. /\ DOMAIN q = 1..Len(q) /\ Len(q) \in Nat /\ DOMAIN Append(q, e) = 1..(Len(q) + 1)
      /\ Append(q, e)[Len(q) + 1] = e
      /\ \A i \in 1..Len(q) : Append(q, e)[i] = q[i]
    BY QueueAppend
<1>2. \A i \in 1..Len(q) : q[i].text # e.text
    BY <1>1 DEF Texts, Range
<1>3. ASSUME NEW i \in 1..(Len(q) + 1), NEW j \in 1..(Len(q) + 1),
             Append(q, e)[i].text = Append(q, e)[j].text
      PROVE  i = j
    <2>1. (i = Len(q) + 1 \/ i \in 1..Len(q)) /\ (j = Len(q) + 1 \/ j \in 1..Len(q))
        BY <1>1
    <2> QED
        BY <1>1, <1>2, <1>3, <2>1 DEF OncePerText
<1>4. Range(Append(q, e)) = Range(q) \cup {e}
    BY RangeAppend
<1> QED
    BY <1>1, <1>3, <1>4 DEF OncePerText, Texts

\* The places, one by one.
LEMMA Places ==
    /\ Stage[1] = Texts(Range(inbox)) /\ Stage[2] = Texts(voices) /\ Stage[3] = Texts(Range(done))
    /\ Stage[4] = Texts(Range(list)) /\ Stage[5] = Texts({job} \ {NoJob})
    /\ Stage[6] = Texts(Range(uploaded)) /\ Stage[7] = Texts(Range(tasks))
    BY DEF Stage

LEMMA PlacesNext ==
    /\ Stage'[1] = Texts(Range(inbox')) /\ Stage'[2] = Texts(voices')
    /\ Stage'[3] = Texts(Range(done')) /\ Stage'[4] = Texts(Range(list'))
    /\ Stage'[5] = Texts({job'} \ {NoJob}) /\ Stage'[6] = Texts(Range(uploaded'))
    /\ Stage'[7] = Texts(Range(tasks'))
    BY DEF Stage

LEMMA SevenPlaces == \A i \in 1..7 : i \in {1, 2, 3, 4, 5, 6, 7}
    OBVIOUS

LEMMA MoveStep ==
    ASSUME OnePlaceEach, NEW k \in 1..6, NEW t \in Stage[k],
           Stage'[k] \subseteq Stage[k] \ {t}, Stage'[k + 1] \subseteq Stage[k + 1] \cup {t},
           \A i \in 1..7 : i # k /\ i # k + 1 => Stage'[i] \subseteq Stage[i],
           texts' = texts
    PROVE  PairwiseDisjoint(Stage') /\ \A i \in 1..7 : Stage'[i] \subseteq 1..texts'
<1>1. PairwiseDisjoint(Stage) /\ \A i \in 1..7 : Stage[i] \subseteq 1..texts
    BY DEF OnePlaceEach
<1>2. PICK B : B = Stage'
    OBVIOUS
<1>3. /\ B[k] \subseteq Stage[k] \ {t} /\ B[k + 1] \subseteq Stage[k + 1] \cup {t}
      /\ \A i \in 1..7 : i # k /\ i # k + 1 => B[i] \subseteq Stage[i]
    BY <1>2
<1>4. PairwiseDisjoint(B) /\ \A S : (\A i \in 1..7 : Stage[i] \subseteq S) => \A i \in 1..7 : B[i] \subseteq S
    BY <1>1, <1>3, MoveOn
<1> QED
    BY <1>1, <1>2, <1>4

LEMMA PlaceStep ==
    ASSUME WayOK, JobAtWork, OnePlaceEach, [Next]_vars
    PROVE  OnePlaceEach'
<1> USE DEF convert, names, store, upload, world
<1>0. /\ inbox \in Seq(Setting) /\ done \in Seq(Setting) /\ list \in Seq(Setting)
      /\ uploaded \in Seq(Setting) /\ tasks \in Seq(Setting) /\ voices \subseteq Setting
      /\ job \in Setting \cup {NoJob} /\ texts \in Nat
    BY DEF WayOK
<1>1. /\ OncePerText(inbox) /\ OncePerText(done) /\ OncePerText(list) /\ OncePerText(uploaded)
      /\ OncePerText(tasks)
      /\ PairwiseDisjoint(Stage) /\ \A i \in 1..7 : Stage[i] \subseteq 1..texts
      /\ \A v, w \in voices : v.text = w.text => v = w
    BY DEF OnePlaceEach
<1>2. \A i, j \in 1..7 : i # j => \A t \in Stage[i] : t \notin Stage[j]
    BY <1>1 DEF PairwiseDisjoint
<1>3. Texts({NoJob} \ {NoJob}) = {}
    BY DEF Texts
<1>4. ASSUME NEW try \in BOOLEAN, Submit(try) PROVE OnePlaceEach'
    <2> DEFINE e == [text |-> texts + 1, try |-> try, name |-> 0]
    <2>1. /\ texts' = texts + 1 /\ inbox' = Append(inbox, e)
          /\ UNCHANGED <<voices, done, list, job, uploaded, tasks>> /\ texts < MaxTexts
        BY <1>4 DEF Submit
    <2>2. e \in Setting /\ e.text = texts + 1
        BY <1>0, <2>1, BoundAssumption DEF Setting
    <2> HIDE DEF e
    <2>3. \A i \in 1..7 : texts + 1 \notin Stage[i]
        BY <1>0, <1>1
    <2>4. OncePerText(inbox') /\ Stage'[1] = Stage[1] \cup {texts + 1}
        BY <1>0, <1>1, <2>1, <2>2, <2>3, TextAppend, Places, PlacesNext
    <2>5. \A i \in 1..7 : i # 1 => Stage'[i] = Stage[i]
        BY <2>1, Places, PlacesNext, SevenPlaces
    <2>6. \A i \in 1..7 : Stage'[i] \subseteq 1..texts'
        <3>1. 1..texts \subseteq 1..texts' /\ texts + 1 \in 1..texts'
            BY <1>0, <2>1
        <3> QED
            BY <1>1, <2>4, <2>5, <3>1
    <2>7. PICK B : B = Stage'
        OBVIOUS
    <2>8. PairwiseDisjoint(B)
        BY <1>1, <2>3, <2>4, <2>5, <2>7 DEF PairwiseDisjoint
    <2> QED
        BY <1>1, <2>1, <2>4, <2>6, <2>7, <2>8 DEF OnePlaceEach
<1>5. CASE RecvBroadSetting
    <2>1. inbox # <<>> /\ UNCHANGED <<done, list, job, uploaded, tasks, texts>> /\ inbox' = Tail(inbox)
        BY <1>5 DEF RecvBroadSetting
    <2> DEFINE t == Head(inbox).text
               v == [Head(inbox) EXCEPT !.name = FileName(Head(inbox))]
    <2>2. /\ OncePerText(inbox') /\ Head(inbox) \in Setting /\ t \in Stage[1]
          /\ Stage'[1] \subseteq Stage[1] \ {t}
        BY <1>0, <1>1, <2>1, TextTail, Places, PlacesNext
    <2>3. voices' = voices \cup {v} /\ v.text = t
        BY <1>5, <2>2 DEF RecvBroadSetting, Setting
    <2> HIDE DEF t, v
    <2>4. t \notin Stage[2] /\ Stage'[2] \subseteq Stage[2] \cup {t}
        BY <1>2, <2>2, <2>3, Places, PlacesNext, TextsOf
    <2>5. \A i \in 1..7 : i # 1 /\ i # 1 + 1 => Stage'[i] \subseteq Stage[i]
        BY <2>1, Places, PlacesNext, SevenPlaces
    <2>6. \A w, x \in voices' : w.text = x.text => w = x
        BY <1>1, <2>3, <2>4, Places, PlacesNext, TextsOf
    <2>7. PairwiseDisjoint(Stage') /\ \A i \in 1..7 : Stage'[i] \subseteq 1..texts'
        BY <2>1, <2>2, <2>4, <2>5, MoveStep
    <2> QED
        BY <1>1, <2>1, <2>2, <2>6, <2>7 DEF OnePlaceEach
<1>6. CASE VoiceEnds
    <2>1. UNCHANGED <<inbox, list, job, uploaded, tasks, texts>>
        BY <1>6 DEF VoiceEnds
    <2>2. PICK v \in voices : voices' = voices \ {v} /\ done' = Append(done, v)
        BY <1>6 DEF VoiceEnds
    <2>3. v \in Setting /\ v.text \in Stage[2] /\ v.text \notin Stage[3]
        <3>1. v.text \in Texts(voices)
            BY <2>2 DEF Texts
        <3> QED
            BY <1>0, <1>2, <2>2, <3>1, Places
    <2>4. OncePerText(done') /\ Stage'[3] \subseteq Stage[3] \cup {v.text}
        BY <1>0, <1>1, <2>2, <2>3, TextAppend, Places, PlacesNext
    <2>5. Stage'[2] \subseteq Stage[2] \ {v.text}
        BY <1>1, <2>2, Places, PlacesNext DEF Texts
    <2>6. \A i \in 1..7 : i # 2 /\ i # 2 + 1 => Stage'[i] \subseteq Stage[i]
        BY <2>1, Places, PlacesNext, SevenPlaces
    <2>7. PairwiseDisjoint(Stage') /\ \A i \in 1..7 : Stage'[i] \subseteq 1..texts'
        BY <2>1, <2>3, <2>4, <2>5, <2>6, MoveStep
    <2> QED
        BY <1>1, <2>1, <2>2, <2>4, <2>7 DEF OnePlaceEach
<1>7. CASE AudioTaskFinished
    <2>1. /\ done # <<>> /\ UNCHANGED <<inbox, voices, job, uploaded, tasks, texts>> /\ done' = Tail(done)
          /\ list' = list \/ list' = Append(list, Head(done))
        BY <1>7 DEF AudioTaskFinished
    <2> DEFINE t == Head(done).text
    <2>2. /\ OncePerText(done') /\ Head(done) \in Setting /\ t \in Stage[3]
          /\ Stage'[3] \subseteq Stage[3] \ {t}
        BY <1>0, <1>1, <2>1, TextTail, Places, PlacesNext
    <2>3. t \notin Stage[4]
        BY <1>2, <2>2
    <2>4. /\ OncePerText(Append(list, Head(done)))
          /\ Texts(Range(Append(list, Head(done)))) = Stage[4] \cup {t}
        BY <1>0, <1>1, <2>2, <2>3, TextAppend, Places, PlacesNext
    <2> HIDE DEF t
    <2>5. OncePerText(list') /\ Stage'[4] \subseteq Stage[4] \cup {t}
        BY <1>1, <2>1, <2>4, Places, PlacesNext
    <2>6. \A i \in 1..7 : i # 3 /\ i # 3 + 1 => Stage'[i] \subseteq Stage[i]
        BY <2>1, Places, PlacesNext, SevenPlaces
    <2>7. PairwiseDisjoint(Stage') /\ \A i \in 1..7 : Stage'[i] \subseteq 1..texts'
        BY <2>1, <2>2, <2>5, <2>6, MoveStep
    <2> QED
        BY <1>1, <2>1, <2>2, <2>5, <2>7 DEF OnePlaceEach
<1>8. CASE Take
    <2>1. /\ list # <<>> /\ UNCHANGED <<inbox, voices, done, uploaded, tasks, texts>> /\ list' = Tail(list)
          /\ job' = Head(list)
        BY <1>8 DEF Take
    <2> DEFINE t == Head(list).text
    <2>2. /\ OncePerText(list') /\ t \in Stage[4] /\ Stage'[4] \subseteq Stage[4] \ {t}
        BY <1>0, <1>1, <2>1, TextTail, Places, PlacesNext
    <2>3. Stage'[5] \subseteq Stage[5] \cup {t}
        BY <2>1, Places, PlacesNext DEF Texts
    <2> HIDE DEF t
    <2>4. \A i \in 1..7 : i # 4 /\ i # 4 + 1 => Stage'[i] \subseteq Stage[i]
        BY <2>1, Places, PlacesNext, SevenPlaces
    <2>5. PairwiseDisjoint(Stage') /\ \A i \in 1..7 : Stage'[i] \subseteq 1..texts'
        BY <2>1, <2>2, <2>3, <2>4, MoveStep
    <2> QED
        BY <1>1, <2>1, <2>2, <2>5 DEF OnePlaceEach
<1>9. ASSUME UNCHANGED <<inbox, voices, done, list, uploaded, tasks, texts>>, job' \in {job, NoJob}
      PROVE  OnePlaceEach'
    <2>1. \A i \in 1..7 : i # 5 => Stage'[i] = Stage[i]
        BY <1>9, Places, PlacesNext, SevenPlaces
    <2>2. Stage'[5] \subseteq Stage[5]
        BY <1>9, <1>3, Places, PlacesNext
    <2>3. \A i \in 1..7 : Stage'[i] \subseteq Stage[i]
        BY <2>1, <2>2
    <2>4. PICK B : B = Stage'
        OBVIOUS
    <2>5. \A i \in 1..7 : B[i] \subseteq Stage[i]
        BY <2>3, <2>4
    <2>6. PairwiseDisjoint(B) /\ \A i \in 1..7 : B[i] \subseteq 1..texts'
        BY <1>1, <1>9, <2>5 DEF PairwiseDisjoint
    <2> QED
        BY <1>1, <1>9, <2>4, <2>6 DEF OnePlaceEach
<1>10. CASE Upload \/ Reupload
    <2>1. UNCHANGED <<inbox, voices, done, list, tasks, texts>>
        BY <1>10 DEF Upload, Reupload
    <2>2. job # NoJob
        BY <1>10 DEF Upload, Reupload, JobAtWork
    <2>3. CASE FileUploaded
        <3>1. uploaded' = Append(uploaded, job) /\ job' = NoJob
            BY <2>3 DEF FileUploaded
        <3>2. job \in Setting /\ job.text \in Stage[5] /\ Stage[5] = {job.text}
            BY <1>0, <2>2, Places, PlacesNext DEF Texts
        <3>3. job.text \notin Stage[6]
            BY <1>2, <3>2
        <3>4. OncePerText(uploaded') /\ Stage'[6] \subseteq Stage[6] \cup {job.text}
            BY <1>0, <1>1, <3>1, <3>2, <3>3, TextAppend, Places, PlacesNext
        <3>5. Stage'[5] \subseteq Stage[5] \ {job.text}
            BY <1>3, <3>1, Places, PlacesNext
        <3>6. \A i \in 1..7 : i # 5 /\ i # 5 + 1 => Stage'[i] \subseteq Stage[i]
            BY <2>1, Places, PlacesNext, SevenPlaces
        <3>7. PairwiseDisjoint(Stage') /\ \A i \in 1..7 : Stage'[i] \subseteq 1..texts'
            BY <2>1, <3>2, <3>4, <3>5, <3>6, MoveStep
        <3> QED
            BY <1>1, <2>1, <3>4, <3>7 DEF OnePlaceEach
    <2>4. CASE FileFailed /\ job' \in {job, NoJob}
        BY <1>9, <2>1, <2>4 DEF FileFailed
    <2> QED
        BY <1>10, <2>3, <2>4 DEF Upload, Reupload
<1>11. CASE Relogin
    BY <1>9, <1>11 DEF Relogin
<1>12. CASE RecvUploadFileSuccess
    <2>1. /\ uploaded # <<>> /\ UNCHANGED <<inbox, voices, done, list, job, texts>>
          /\ uploaded' = Tail(uploaded)
          /\ tasks' = tasks \/ tasks' = Append(tasks, Head(uploaded))
        BY <1>12 DEF RecvUploadFileSuccess
    <2> DEFINE t == Head(uploaded).text
    <2>2. /\ OncePerText(uploaded') /\ Head(uploaded) \in Setting /\ t \in Stage[6]
          /\ Stage'[6] \subseteq Stage[6] \ {t}
        BY <1>0, <1>1, <2>1, TextTail, Places, PlacesNext
    <2>3. t \notin Stage[7]
        BY <1>2, <2>2
    <2>4. /\ OncePerText(Append(tasks, Head(uploaded)))
          /\ Texts(Range(Append(tasks, Head(uploaded)))) = Stage[7] \cup {t}
        BY <1>0, <1>1, <2>2, <2>3, TextAppend, Places, PlacesNext
    <2> HIDE DEF t
    <2>5. OncePerText(tasks') /\ Stage'[7] \subseteq Stage[7] \cup {t}
        BY <1>1, <2>1, <2>4, Places, PlacesNext
    <2>6. \A i \in 1..7 : i # 6 /\ i # 6 + 1 => Stage'[i] \subseteq Stage[i]
        BY <2>1, Places, PlacesNext, SevenPlaces
    <2>7. PairwiseDisjoint(Stage') /\ \A i \in 1..7 : Stage'[i] \subseteq 1..texts'
        BY <2>1, <2>2, <2>5, <2>6, MoveStep
    <2> QED
        BY <1>1, <2>1, <2>2, <2>5, <2>7 DEF OnePlaceEach
<1>13. CASE Login \/ Tick \/ ServerDown \/ ServerUp \/ UNCHANGED vars
    BY <1>9, <1>13 DEF Login, Tick, ServerDown, ServerUp, vars
<1> QED
    BY <1>4, <1>5, <1>6, <1>7, <1>8, <1>10, <1>11, <1>12, <1>13, Steps

-----------------------------------------------------------------------------
(* Names, files and prompts *)

\* The settings of a queue, when its head moves on.
LEMMA HeadOf ==
    ASSUME NEW q \in Seq(Setting), q # <<>>
    PROVE  /\ Head(q) \in Range(q) /\ Head(q) \in Setting /\ Range(Tail(q)) \subseteq Range(q)
           /\ Tail(q) \in Seq(Setting)
<1>1. Range(q) = Range(Tail(q)) \cup {Head(q)}
    BY RangeTail
<1> QED
    BY <1>1, QueueTail

\* Apart from the one that gets its name, no setting is new, and nothing that was
\* only listened to is handed to the uploading thread.
LEMMA OnTheWay ==
    ASSUME WayOK, JobAtWork, TriesStayLocal, [Next]_vars
    PROVE  /\ TriesStayLocal'
           /\ ~RecvBroadSetting => Named' \subseteq Named
<1> USE DEF convert, names, store, upload, world
<1>0. /\ inbox \in Seq(Setting) /\ done \in Seq(Setting) /\ list \in Seq(Setting)
      /\ uploaded \in Seq(Setting) /\ tasks \in Seq(Setting) /\ voices \subseteq Setting
      /\ job \in Setting \cup {NoJob} /\ ~NoJob.try
    BY DEF WayOK, NoJob
<1>1. ASSUME UNCHANGED <<voices, done, list, uploaded, tasks>>, job' \in {job, NoJob}
      PROVE  TriesStayLocal' /\ Named' \subseteq Named
    BY <1>0, <1>1 DEF TriesStayLocal, Handed, Named
<1>2. CASE (\E try \in BOOLEAN : Submit(try)) \/ Login \/ Relogin \/ Tick \/ ServerDown \/ ServerUp
           \/ UNCHANGED vars
    BY <1>1, <1>2 DEF Submit, Login, Relogin, Tick, ServerDown, ServerUp, vars
<1>3. CASE RecvBroadSetting
    BY <1>3 DEF RecvBroadSetting, TriesStayLocal, Handed
<1>4. CASE VoiceEnds
    <2>1. UNCHANGED <<list, uploaded, tasks, job>>
        BY <1>4 DEF VoiceEnds
    <2>2. PICK v \in voices : voices' = voices \ {v} /\ done' = Append(done, v)
        BY <1>4 DEF VoiceEnds
    <2>3. Range(done') = Range(done) \cup {v}
        BY <1>0, <2>2, RangeAppend
    <2> QED
        BY <2>1, <2>2, <2>3 DEF TriesStayLocal, Handed, Named
<1>5. CASE AudioTaskFinished
    <2>1. /\ done # <<>> /\ UNCHANGED <<voices, job, uploaded, tasks>> /\ done' = Tail(done)
          /\ list' = list \/ (list' = Append(list, Head(done)) /\ ~Head(done).try)
        BY <1>5 DEF AudioTaskFinished, Uploads
    <2>2. Head(done) \in Range(done) /\ Head(done) \in Setting /\ Range(done') \subseteq Range(done)
        BY <1>0, <2>1, HeadOf
    <2>3. Range(Append(list, Head(done))) = Range(list) \cup {Head(done)}
        BY <1>0, <2>2, RangeAppend
    <2> QED
        BY <2>1, <2>2, <2>3 DEF TriesStayLocal, Handed, Named
<1>6. CASE Take
    <2>1. /\ list # <<>> /\ UNCHANGED <<voices, done, uploaded, tasks>> /\ list' = Tail(list)
          /\ job' = Head(list)
        BY <1>6 DEF Take
    <2>2. Head(list) \in Range(list) /\ Range(list') \subseteq Range(list)
        BY <1>0, <2>1, HeadOf
    <2> QED
        BY <2>1, <2>2 DEF TriesStayLocal, Handed, Named
<1>7. CASE Upload \/ Reupload
    <2>1. UNCHANGED <<voices, done, list, tasks>> /\ job # NoJob
        BY <1>7 DEF Upload, Reupload, JobAtWork
    <2>2. CASE FileUploaded
        <3>1. Range(uploaded') = Range(uploaded) \cup {job} /\ job' = NoJob
            BY <2>1, <2>2, UploadedFacts
        <3> QED
            BY <1>0, <2>1, <3>1 DEF TriesStayLocal, Handed, Named
    <2>3. CASE FileFailed /\ job' \in {job, NoJob}
        BY <1>1, <2>1, <2>3 DEF FileFailed
    <2> QED
        BY <1>7, <2>2, <2>3 DEF Upload, Reupload
<1>8. CASE RecvUploadFileSuccess
    <2>1. /\ uploaded # <<>> /\ UNCHANGED <<voices, done, list, job>> /\ uploaded' = Tail(uploaded)
          /\ tasks' = tasks \/ tasks' = Append(tasks, Head(uploaded))
        BY <1>8 DEF RecvUploadFileSuccess
    <2>2. /\ Head(uploaded) \in Range(uploaded) /\ Head(uploaded) \in Setting
          /\ Range(uploaded') \subseteq Range(uploaded)
        BY <1>0, <2>1, HeadOf
    <2>3. Range(Append(tasks, Head(uploaded))) = Range(tasks) \cup {Head(uploaded)}
        BY <1>0, <2>2, RangeAppend
    <2>4. Range(uploaded') \cup Range(tasks') \subseteq Range(uploaded) \cup Range(tasks)
        BY <2>1, <2>2, <2>3
    <2> QED
        BY <2>1, <2>4 DEF TriesStayLocal, Handed, Named
<1> QED
    BY <1>2, <1>3, <1>4, <1>5, <1>6, <1>7, <1>8, Steps

\* The setting that gets its name.
LEMMA NewName ==
    ASSUME WayOK, sec \in 1..MaxSec, RecvBroadSetting
    PROVE  \E s \in Setting :
              /\ Named' \subseteq Named \cup {s}
              /\ s \in Named' => /\ s.name = sec /\ named' = sec
                                 /\ named = sec => shared' = shared \cup {sec}
              /\ shared' \in {shared, shared \cup {sec}} /\ named' \in {named, sec}
              /\ shared' # shared => named = sec
<1> USE DEF convert, upload
<1>1. inbox # <<>> /\ inbox \in Seq(Setting)
    BY DEF RecvBroadSetting, WayOK
<1>2. Head(inbox) \in Setting
    BY <1>1, HeadOf
<1> DEFINE h == Head(inbox)
           s == [h EXCEPT !.name = FileName(h)]
<1>3. s \in Setting /\ s.try = h.try /\ (~h.try => s.name = sec)
    BY <1>2, NameGiven
<1>4. /\ voices' = voices \cup {s} /\ UNCHANGED <<done, list, job, uploaded, tasks>>
      /\ named' = (IF h.try THEN named ELSE sec)
      /\ shared' = (IF ~h.try /\ named = sec THEN shared \cup {sec} ELSE shared)
    BY DEF RecvBroadSetting
<1> HIDE DEF h, s
<1>5. Named' \subseteq Named \cup {s} /\ (s \in Named' => ~s.try)
    BY <1>4 DEF Named
<1> QED
    BY <1>3, <1>4, <1>5

LEMMA NamesStep ==
    ASSUME WayOK, FilesOK, RestOK, JobAtWork, TriesStayLocal, NamesDiffer, [Next]_vars
    PROVE  NamesDiffer'
<1> USE DEF names, store, world
<1>0. sec \in Nat /\ named \in Nat /\ sec \in 1..MaxSec
    BY BoundAssumption DEF RestOK
<1>1. CASE RecvBroadSetting
    <2>1. PICK s \in Setting :
              /\ Named' \subseteq Named \cup {s}
              /\ s \in Named' => /\ s.name = sec /\ named' = sec
                                 /\ named = sec => shared' = shared \cup {sec}
              /\ shared' \in {shared, shared \cup {sec}} /\ named' \in {named, sec}
              /\ shared' # shared => named = sec
        BY <1>0, <1>1, NewName
    <2>2. UNCHANGED <<sec, audio, prompts>>
        BY <1>1 DEF RecvBroadSetting
    <2>3. named <= named' /\ named' <= sec /\ named' \in Nat /\ 1..named \subseteq 1..named'
        BY <1>0, <2>1 DEF NamesDiffer
    <2>4. shared \subseteq shared' /\ shared' \subseteq 1..named'
        BY <1>0, <2>1, <2>3 DEF NamesDiffer
    <2>5. \A u \in Named' : u.name \in 1..named'
        <3>1. s \in Named' => s.name \in 1..named'
            BY <1>0, <2>1
        <3> QED
            BY <2>1, <2>3, <3>1 DEF NamesDiffer
    <2>6. ASSUME NEW u \in Named, s \in Named', s.name = u.name PROVE s.name \in shared'
        <3>1. u.name \in 1..named /\ named <= sec
            BY DEF NamesDiffer
        <3>2. named = sec
            BY <1>0, <2>1, <2>6, <3>1
        <3> QED
            BY <2>1, <2>6, <3>2
    <2>7. ASSUME NEW u \in Named', NEW w \in Named', u.name = w.name
          PROVE  u.text = w.text \/ u.name \in shared'
        <3>1. CASE u \in Named /\ w \in Named
            BY <2>4, <2>7, <3>1 DEF NamesDiffer
        <3>2. CASE u = s \/ w = s
            BY <2>1, <2>6, <2>7, <3>2
        <3> QED
            BY <2>1, <2>7, <3>1, <3>2
    <2>8. DOMAIN audio' \subseteq 1..named' /\ DOMAIN prompts' \subseteq 1..named'
        BY <2>2, <2>3 DEF NamesDiffer
    <2> QED
        BY <2>2, <2>3, <2>4, <2>5, <2>7, <2>8 DEF NamesDiffer
<1>2. CASE ~RecvBroadSetting
    <2>1. Named' \subseteq Named
        BY <1>2, OnTheWay
    <2>2. UNCHANGED names
        BY <1>2, Steps DEF Submit, AudioTaskFinished, RecvUploadFileSuccess, VoiceEnds, Login, Take, Upload,
               Relogin, Reupload, Tick, ServerDown, ServerUp, vars
    <2>3. sec' \in {sec, sec + 1}
        <3>1. CASE Tick
            BY <3>1 DEF Tick
        <3>2. CASE ~Tick
            BY <1>2, <3>2, Steps DEF Submit, AudioTaskFinished, RecvUploadFileSuccess, VoiceEnds, Login, Take,
               Upload, Relogin, Reupload, ServerDown, ServerUp, vars
        <3> QED
            BY <3>1, <3>2
    <2>4. DOMAIN audio' \subseteq 1..named
        <3>1. CASE VoiceEnds
            <4>1. CASE \E v \in voices : ~v.try /\ Written(v.name, v.text)
                <5>1. PICK v \in voices : ~v.try /\ Written(v.name, v.text)
                    BY <4>1
                <5>2. v.name \in 1..named
                    BY <5>1 DEF NamesDiffer, Named
                <5>3. DOMAIN audio' = DOMAIN audio \cup {v.name}
                    BY <5>1 DEF Written
                <5> QED
                    BY <5>2, <5>3 DEF NamesDiffer
            <4>2. CASE UNCHANGED store
                BY <4>2 DEF NamesDiffer
            <4> QED
                BY <3>1, <4>1, <4>2 DEF VoiceEnds
        <3>2. CASE RecvUploadFileSuccess
            <4>1. CASE disk' = Kept(disk) /\ audio' = [m \in Range(disk') |-> audio[m]]
                <5>1. Range(disk') \subseteq Range(disk) /\ Range(disk) = DOMAIN audio
                    BY <4>1, KeptFacts DEF FilesOK
                <5> QED
                    BY <4>1, <5>1 DEF NamesDiffer
            <4>2. CASE UNCHANGED store
                BY <4>2 DEF NamesDiffer
            <4> QED
                BY <3>2, <4>1, <4>2 DEF RecvUploadFileSuccess
        <3>3. CASE ~VoiceEnds /\ ~RecvUploadFileSuccess
            <4>1. UNCHANGED audio
                BY <1>2, <3>3, Steps DEF Submit, AudioTaskFinished, Login, Take, Upload, Relogin, Reupload,
                   Tick, ServerDown, ServerUp, vars
            <4> QED
                BY <4>1 DEF NamesDiffer
        <3> QED
            BY <3>1, <3>2, <3>3
    <2>5. DOMAIN prompts' \subseteq 1..named
        <3>1. CASE Upload \/ Reupload
            <4>1. UNCHANGED prompts \/ (job.name \in Range(disk) /\ Prompted)
                BY <3>1 DEF Upload, Reupload, FileUploaded, FileFailed
            <4>2. Prompted => DOMAIN prompts' = DOMAIN prompts \cup {job.name}
                BY DEF Prompted
            <4>3. Range(disk) \subseteq 1..named
                BY DEF FilesOK, NamesDiffer
            <4> QED
                BY <4>1, <4>2, <4>3 DEF NamesDiffer
        <3>2. CASE ~Upload /\ ~Reupload
            <4>1. UNCHANGED prompts
                BY <1>2, <3>2, Steps DEF Submit, AudioTaskFinished, RecvUploadFileSuccess, VoiceEnds, Login,
                   Take, Relogin, Tick, ServerDown, ServerUp, vars
            <4> QED
                BY <4>1 DEF NamesDiffer
        <3> QED
            BY <3>1, <3>2
    <2>6. named' <= sec'
        BY <1>0, <2>2, <2>3 DEF NamesDiffer
    <2> QED
        BY <2>1, <2>2, <2>4, <2>5, <2>6 DEF NamesDiffer
<1> QED
    BY <1>1, <1>2

\* What is uploaded or a task, and the prompts there are.
LEMMA PromptsStay ==
    ASSUME WayOK, FilesOK, JobAtWork, FilesSpeak, [Next]_vars
    PROVE  \A s \in (Range(uploaded) \cup Range(tasks))' : s.name \in DOMAIN prompts'
<1> USE DEF world, upload
<1>0. uploaded \in Seq(Setting) /\ tasks \in Seq(Setting)
    BY DEF WayOK
<1>1. CASE Upload \/ Reupload
    <2>1. UNCHANGED tasks /\ job # NoJob
        BY <1>1 DEF Upload, Reupload, JobAtWork
    <2>2. CASE FileUploaded
        <3>1. Range(uploaded') = Range(uploaded) \cup {job} /\ job.name \in Range(disk) /\ Prompted
            BY <2>1, <2>2, UploadedFacts
        <3>2. DOMAIN prompts' = DOMAIN prompts \cup {job.name}
            BY <3>1, PromptedFacts
        <3> QED
            BY <2>1, <3>1, <3>2 DEF FilesSpeak
    <2>3. CASE FileFailed
        <3>1. UNCHANGED uploaded /\ (UNCHANGED prompts \/ (job.name \in Range(disk) /\ Prompted))
            BY <2>3 DEF FileFailed
        <3>2. DOMAIN prompts \subseteq DOMAIN prompts'
            BY <3>1, PromptedFacts
        <3> QED
            BY <2>1, <3>1, <3>2 DEF FilesSpeak
    <2> QED
        BY <1>1, <2>2, <2>3 DEF Upload, Reupload
<1>2. CASE RecvUploadFileSuccess
    <2>1. /\ uploaded # <<>> /\ UNCHANGED prompts /\ uploaded' = Tail(uploaded)
          /\ tasks' = tasks \/ tasks' = Append(tasks, Head(uploaded))
        BY <1>2 DEF RecvUploadFileSuccess
    <2>2. /\ Head(uploaded) \in Range(uploaded) /\ Head(uploaded) \in Setting
          /\ Range(uploaded') \subseteq Range(uploaded)
        BY <1>0, <2>1, HeadOf
    <2>3. Range(Append(tasks, Head(uploaded))) = Range(tasks) \cup {Head(uploaded)}
        BY <1>0, <2>2, RangeAppend
    <2>4. Range(uploaded') \cup Range(tasks') \subseteq Range(uploaded) \cup Range(tasks)
        BY <2>1, <2>2, <2>3
    <2> QED
        BY <2>1, <2>4 DEF FilesSpeak
<1>3. CASE UNCHANGED <<uploaded, tasks, prompts>>
    BY <1>3 DEF FilesSpeak
<1>4. (\E try \in BOOLEAN : Submit(try)) \/ RecvBroadSetting \/ AudioTaskFinished \/ VoiceEnds \/ Login
      \/ Take \/ Relogin \/ Tick \/ ServerDown \/ ServerUp \/ UNCHANGED vars
         => UNCHANGED <<uploaded, tasks, prompts>>
    BY DEF Submit, RecvBroadSetting, AudioTaskFinished, VoiceEnds, Login, Take, Relogin, Tick, ServerDown,
           ServerUp, vars
<1> QED
    BY <1>1, <1>2, <1>3, <1>4, Steps

\* A file is written, removed or left alone.
LEMMA AudioChanges ==
    ASSUME WayOK, FilesOK, NamesDiffer, [Next]_vars
    PROVE  \/ \E v \in Named : /\ audio'[v.name] = v.text
                               /\ \A m \in DOMAIN audio' \ {v.name} :
                                     m \in DOMAIN audio /\ audio'[m] = audio[m]
           \/ \A m \in DOMAIN audio' : m \in DOMAIN audio /\ audio'[m] = audio[m]
<1> USE DEF store
<1>1. CASE VoiceEnds
    <2>1. CASE \E v \in voices : ~v.try /\ Written(v.name, v.text)
        <3>1. PICK v \in voices : ~v.try /\ Written(v.name, v.text)
            BY <2>1
        <3>2. v \in Named
            BY <3>1 DEF Named
        <3>3. audio' = [m \in DOMAIN audio \cup {v.name} |-> IF m = v.name THEN v.text ELSE audio[m]]
            BY <3>1 DEF Written
        <3> QED
            BY <3>2, <3>3
    <2> QED
        BY <1>1, <2>1 DEF VoiceEnds
<1>2. CASE RecvUploadFileSuccess
    <2>1. CASE disk' = Kept(disk) /\ audio' = [m \in Range(disk') |-> audio[m]]
        <3>1. Range(disk') \subseteq Range(disk) /\ Range(disk) = DOMAIN audio
            BY <2>1, KeptFacts DEF FilesOK
        <3> QED
            BY <2>1, <3>1
    <2> QED
        BY <1>2, <2>1 DEF RecvUploadFileSuccess
<1>3. CASE ~VoiceEnds /\ ~RecvUploadFileSuccess
    <2>1. UNCHANGED audio
        BY <1>3, Steps DEF Submit, RecvBroadSetting, AudioTaskFinished, Login, Take, Upload, Relogin, Reupload,
           Tick, ServerDown, ServerUp, vars
    <2> QED
        BY <2>1
<1> QED
    BY <1>1, <1>2, <1>3

\* A prompt gets the file of the job, or is left alone.
LEMMA PromptChanges ==
    ASSUME WayOK, FilesOK, JobAtWork, TriesStayLocal, [Next]_vars
    PROVE  \/ /\ job \in Named /\ job.name \in DOMAIN audio /\ prompts'[job.name] = audio[job.name]
              /\ \A m \in DOMAIN prompts' \ {job.name} : m \in DOMAIN prompts /\ prompts'[m] = prompts[m]
           \/ UNCHANGED prompts
<1> USE DEF world
<1>1. CASE (Upload \/ Reupload) /\ job.name \in Range(disk) /\ Prompted
    <2>1. job \in Named
        BY <1>1 DEF Upload, Reupload, JobAtWork, TriesStayLocal, Handed, Named
    <2> QED
        BY <1>1, <2>1, PromptedFacts DEF FilesOK
<1>2. CASE Upload \/ Reupload
    BY <1>1, <1>2 DEF Upload, Reupload, FileUploaded, FileFailed
<1>3. CASE ~Upload /\ ~Reupload
    BY <1>3, Steps DEF Submit, RecvBroadSetting, AudioTaskFinished, RecvUploadFileSuccess, VoiceEnds, Login,
       Take, Relogin, Tick, ServerDown, ServerUp, vars
<1> QED
    BY <1>1, <1>2, <1>3

LEMMA SpeakStep ==
    ASSUME WayOK, FilesOK, RestOK, JobAtWork, TriesStayLocal, NamesDiffer, FilesSpeak, [Next]_vars
    PROVE  FilesSpeak'
<1> USE DEF names, store, world
<1>1. \A s \in Named' :
         /\ s.name \in DOMAIN audio' => audio'[s.name] = s.text \/ s.name \in shared'
         /\ s.name \in DOMAIN prompts' => prompts'[s.name] = s.text \/ s.name \in shared'
    <2>1. CASE RecvBroadSetting
        <3>1. sec \in 1..MaxSec /\ sec \in Nat /\ named \in Nat /\ named <= sec
            BY BoundAssumption DEF RestOK, NamesDiffer
        <3>2. PICK s \in Setting :
                  /\ Named' \subseteq Named \cup {s}
                  /\ s \in Named' => /\ s.name = sec /\ named' = sec
                                     /\ named = sec => shared' = shared \cup {sec}
                  /\ shared' \in {shared, shared \cup {sec}} /\ named' \in {named, sec}
                  /\ shared' # shared => named = sec
            BY <2>1, <3>1, NewName
        <3>3. UNCHANGED <<audio, prompts>> /\ shared \subseteq shared'
            BY <2>1, <3>2 DEF RecvBroadSetting
        <3>4. s \in Named' /\ (sec \in DOMAIN audio \/ sec \in DOMAIN prompts) => sec \in shared'
            <4>1. sec \in 1..named => named = sec
                BY <3>1
            <4> QED
                BY <3>2, <4>1 DEF NamesDiffer
        <3> QED
            BY <3>2, <3>3, <3>4 DEF FilesSpeak
    <2>2. CASE ~RecvBroadSetting
        <3>1. Named' \subseteq Named
            BY <2>2, OnTheWay
        <3>2. UNCHANGED shared
            BY <2>2, Steps DEF Submit, AudioTaskFinished, RecvUploadFileSuccess, VoiceEnds, Login, Take,
               Upload, Relogin, Reupload, Tick, ServerDown, ServerUp, vars
        <3>3. ASSUME NEW s \in Named, s.name \in DOMAIN audio'
              PROVE  audio'[s.name] = s.text \/ s.name \in shared
            <4>1. CASE \E v \in Named : /\ audio'[v.name] = v.text
                                        /\ \A m \in DOMAIN audio' \ {v.name} :
                                              m \in DOMAIN audio /\ audio'[m] = audio[m]
                <5>1. PICK v \in Named : /\ audio'[v.name] = v.text
                                         /\ \A m \in DOMAIN audio' \ {v.name} :
                                               m \in DOMAIN audio /\ audio'[m] = audio[m]
                    BY <4>1
                <5>2. CASE s.name = v.name
                    BY <3>3, <5>1, <5>2 DEF NamesDiffer
                <5>3. CASE s.name # v.name
                    BY <3>3, <5>1, <5>3 DEF FilesSpeak
                <5> QED
                    BY <5>2, <5>3
            <4>2. CASE \A m \in DOMAIN audio' : m \in DOMAIN audio /\ audio'[m] = audio[m]
                BY <3>3, <4>2 DEF FilesSpeak
            <4> QED
                BY <4>1, <4>2, AudioChanges
        <3>4. ASSUME NEW s \in Named, s.name \in DOMAIN prompts'
              PROVE  prompts'[s.name] = s.text \/ s.name \in shared
            <4>1. CASE UNCHANGED prompts
                BY <3>4, <4>1 DEF FilesSpeak
            <4>2. CASE /\ job \in Named /\ job.name \in DOMAIN audio
                       /\ prompts'[job.name] = audio[job.name]
                       /\ \A m \in DOMAIN prompts' \ {job.name} :
                             m \in DOMAIN prompts /\ prompts'[m] = prompts[m]
                <5>1. CASE s.name = job.name
                    <6>1. audio[job.name] = job.text \/ job.name \in shared
                        BY <4>2 DEF FilesSpeak
                    <6>2. s.text = job.text \/ s.name \in shared
                        BY <4>2, <5>1 DEF NamesDiffer
                    <6> QED
                        BY <4>2, <5>1, <6>1, <6>2
                <5>2. CASE s.name # job.name
                    BY <3>4, <4>2, <5>2 DEF FilesSpeak
                <5> QED
                    BY <5>1, <5>2
            <4> QED
                BY <4>1, <4>2, PromptChanges
        <3> QED
            BY <3>1, <3>2, <3>3, <3>4
    <2> QED
        BY <2>1, <2>2
<1>2. \A s \in (Range(uploaded) \cup Range(tasks))' : s.name \in DOMAIN prompts'
    BY PromptsStay
<1> QED
    BY <1>1, <1>2 DEF FilesSpeak

-----------------------------------------------------------------------------
(* The theorems *)

LEMMA InvInit == Init => IInv
<1> SUFFICES ASSUME Init PROVE IInv
    OBVIOUS
<1> USE BoundAssumption
<1>0. Range(<<>>) = {} /\ DOMAIN <<>> = {} /\ <<>> \in Seq(Setting) /\ <<>> \in Seq(1..MaxSec)
    BY DEF Range
<1>1. WayOK
    BY <1>0 DEF Init, WayOK
<1>2. FilesOK
    BY <1>0 DEF Init, FilesOK, IsInjective
<1>3. RestOK
    <2>1. 1 \in 1..MaxSec /\ 0 \in 0..MaxSec /\ 0 \in 0..MaxFaults /\ 0 \in 0..2
        BY DEF FaultKind
    <2> QED
        BY <2>1 DEF Init, RestOK
<1>4. JobAtWork /\ TriesStayLocal /\ Named = {}
    BY <1>0 DEF Init, JobAtWork, TriesStayLocal, Handed, NoJob, Named
<1>5. OnePlaceEach
    <2>1. Texts({}) = {} /\ Texts({NoJob} \ {NoJob}) = {}
        BY DEF Texts
    <2>2. \A i \in 1..7 : Stage[i] = {}
        BY <1>0, <2>1, Places, SevenPlaces DEF Init
    <2> QED
        BY <1>0, <2>2 DEF Init, OnePlaceEach, PairwiseDisjoint, OncePerText
<1>6. NamesDiffer /\ FilesSpeak
    BY <1>0, <1>4 DEF Init, NamesDiffer, FilesSpeak
<1> QED
    BY <1>1, <1>2, <1>3, <1>4, <1>5, <1>6, Parts DEF IInv

LEMMA InvStep == IInv /\ [Next]_vars => IInv'
<1> SUFFICES ASSUME IInv, [Next]_vars PROVE IInv'
    OBVIOUS
<1>1. /\ WayOK /\ FilesOK /\ RestOK /\ JobAtWork /\ TriesStayLocal /\ OnePlaceEach /\ NamesDiffer
      /\ FilesSpeak /\ sec \in 1..MaxSec
    BY Parts DEF IInv, RestOK
<1>2. WayOK' /\ FilesOK' /\ RestOK' /\ JobAtWork'
    BY <1>1, WayStep, FilesStep, RestStep
<1>3. TypeOK'
    BY <1>2 DEF TypeOK, WayOK, FilesOK, RestOK
<1>4. TriesStayLocal' /\ OnePlaceEach' /\ NamesDiffer' /\ FilesSpeak'
    BY <1>1, OnTheWay, PlaceStep, NamesStep, SpeakStep
<1> QED
    BY <1>2, <1>3, <1>4 DEF IInv

\* Every reachable state satisfies the inductive invariant.
THEOREM InvCorrect == Spec => []IInv
<1> QED
    BY InvInit, InvStep, PTL DEF Spec

\* Every variable keeps its type.
THEOREM TypeCorrect == Spec => []TypeOK
<1>1. IInv => TypeOK
    BY DEF IInv
<1> QED
    BY <1>1, InvCorrect, PTL

\* A text that is only listened to is never handed to the uploading thread
\* (zchxVhfConvertThread::slotAudioTaskfinished).
THEOREM TriesAreLocal == Spec => []TriesStayLocal
<1>1. IInv => TriesStayLocal
    BY DEF IInv
<1> QED
    BY <1>1, InvCorrect, PTL

\* A text is one task at most, however often its upload is repeated
\* (QUploadFileThread::run).
THEOREM TextsAreOneTask == Spec => []OneTaskPerText
<1>1. IInv => OneTaskPerText
    BY DEF IInv, OnePlaceEach, OncePerText, OneTaskPerText
<1> QED
    BY <1>1, InvCorrect, PTL

\* The prompt of a task speaks its text, unless another text got the same second
\* for a name (slotRecvBroadSetting, uploadFile).
THEOREM TasksPlayTheirTexts == Spec => []TaskPlaysItsText
<1>1. IInv => TaskPlaysItsText
    <2> SUFFICES ASSUME IInv, NEW i \in DOMAIN tasks
                 PROVE  prompts[tasks[i].name] = tasks[i].text \/ tasks[i].name \in shared
        BY DEF TaskPlaysItsText
    <2>1. tasks[i] \in Range(tasks)
        BY DEF Range
    <2>2. tasks[i] \in Named
        BY <2>1 DEF IInv, TriesStayLocal, Handed, Named
    <2> QED
        BY <2>1, <2>2 DEF IInv, FilesSpeak
<1> QED
    BY <1>1, InvCorrect, PTL

\* An announcement is given up only when its upload failed, and the new login or the
\* second upload failed too (QUploadFileThread::run).
THEOREM GivenUpLate == Spec => GivenUpAfterTwoFailures
<1>1. IInv /\ [Next]_vars => [(job # NoJob /\ job' = NoJob /\ uploaded' = uploaded) => failed' = 2]_vars
    <2> SUFFICES ASSUME IInv, Next, job # NoJob, job' = NoJob, uploaded' = uploaded
                 PROVE  failed' = 2
        BY DEF vars, upload
    <2> USE DEF upload, names
    <2>0. WayOK /\ JobAtWork
        BY Parts DEF IInv
    <2>1. ~FileUploaded
        BY <2>0, UploadedFacts
    <2>2. CASE Relogin
        BY <2>0, <2>2 DEF Relogin, JobAtWork
    <2>3. CASE Reupload
        BY <2>0, <2>1, <2>3 DEF Reupload, FileFailed, JobAtWork
    <2>4. CASE Upload
        BY <2>0, <2>1, <2>4 DEF Upload
    <2>5. ~Take
        BY <2>0 DEF Take, JobAtWork
    <2>6. ~(\/ \E try \in BOOLEAN : Submit(try)
            \/ RecvBroadSetting \/ AudioTaskFinished \/ RecvUploadFileSuccess \/ VoiceEnds \/ Login
            \/ Tick \/ ServerDown \/ ServerUp)
        BY DEF Submit, RecvBroadSetting, AudioTaskFinished, RecvUploadFileSuccess, VoiceEnds, Login,
               Tick, ServerDown, ServerUp
    <2> QED
        BY <2>2, <2>3, <2>4, <2>5, <2>6, Steps
<1> QED
    BY <1>1, InvCorrect, PTL DEF Spec, GivenUpAfterTwoFailures

\* Cleaning up takes a waiting file only when Keep - 1 younger ones are there
\* (zchxVhfConvertThread::slotRecvUploadFileSuccess).
THEOREM FilesStay == Spec => WaitingFilesStay
<1>1. IInv /\ [Next]_vars =>
         [\A i \in DOMAIN disk : disk[i] \in Waiting \ Range(disk') => Len(disk) - i >= Keep - 1]_vars
    <2> SUFFICES ASSUME IInv, Next, NEW i \in DOMAIN disk, disk[i] \notin Range(disk')
                 PROVE  Len(disk) - i >= Keep - 1
        BY DEF vars, store
    <2> USE DEF store
    <2>0. FilesOK /\ WayOK /\ NamesDiffer /\ RestOK
        BY Parts DEF IInv
    <2>1. disk' # disk
        BY DEF Range
    <2>2. CASE VoiceEnds
        <3>1. PICK v \in voices : Written(v.name, v.text) /\ ~v.try
            BY <2>1, <2>2 DEF VoiceEnds
        <3>2. v.name \in 1..named /\ v \in Setting /\ named <= sec
            BY <2>0, <3>1 DEF NamesDiffer, Named, WayOK
        <3>3. v.name \in 1..MaxSec /\ v.text \in 1..MaxTexts
            BY <3>2, SettingFields
        <3>4. Range(disk) \subseteq Range(disk')
            BY <2>0, <3>1, <3>3, WrittenFacts
        <3> QED
            BY <3>4 DEF Range
    <2>3. CASE RecvUploadFileSuccess
        <3>1. disk' = Kept(disk)
            BY <2>1, <2>3 DEF RecvUploadFileSuccess
        <3> QED
            BY <2>0, <3>1, KeptFacts DEF FilesOK
    <2>4. ~(\/ \E try \in BOOLEAN : Submit(try)
            \/ RecvBroadSetting \/ AudioTaskFinished \/ Login \/ Take \/ Upload \/ Relogin \/ Reupload
            \/ Tick \/ ServerDown \/ ServerUp)
        BY <2>1 DEF Submit, RecvBroadSetting, AudioTaskFinished, Login, Take, Upload, Relogin, Reupload,
                    Tick, ServerDown, ServerUp
    <2> QED
        BY <2>2, <2>3, <2>4, Steps
<1> QED
    BY <1>1, InvCorrect, PTL DEF Spec, WaitingFilesStay

=============================================================================
