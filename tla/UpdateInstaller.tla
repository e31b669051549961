--------------------------- MODULE UpdateInstaller ---------------------------
(***************************************************************************)
(* The client's updater: the release check (update_checker.cpp), the       *)
(* installer (update_installer.cpp) and the HTTP client below them         *)
(* (http_client.cpp), on three threads: the game's main thread, the HTTP   *)
(* worker and the async task that extracts, hashes and copies.  The disk   *)
(* outlives the game, whether it shuts down or crashes.                    *)
(***************************************************************************)
EXTENDS UpdateFiles, Sequences

CONSTANTS
  Library,      \* the file that holds APP_VERSION
  MaxLaunches,  \* bound: how often the game is started
  MaxUpdates,   \* bound: how often the user starts an update
  MaxEdits      \* bound: how often the user changes or deletes a file

ASSUME UpdaterAssumption ==
  /\ Library \in Plat /\ \A v \in 0 .. Releases : Hash(Library, v) = v
  /\ MaxLaunches \in Nat \ {0} /\ MaxUpdates \in Nat /\ MaxEdits \in Nat

VARIABLES
  main,      \* where the main thread is: in a frame, or in one of the loops that wait
  status, inProcess, abortRequested,  \* m_Status, m_bIsInProcess, m_bAbortRequested
  quitLocked,                         \* the quit command is the one that refuses
  checking, offer, dialog,   \* m_bInProgress, the release found, the dialog that offers it
  queue, current, responses, \* m_RequestQueue, the request at work, m_ResponseQueue
  zipOpen, zip,              \* m_ZipDownloadFile and what it holds
  task, stage, ok,           \* m_AsyncResult: the task, how far it is, its result
  target, known, hashed,     \* the release to install, the old metadata, realOldHash
  toCopy, toAsk, copying,    \* m_FilesToUpdate, m_FilesToAsk, the file half copied
  disk, meta,                \* on disk: the files and the release the metadata is of
  app, latest, launches, updates, edits,  \* APP_VERSION, the newest release, bounds
  \* history: an update was started while an earlier download was still with the HTTP
  \* client; an installation broke off; files the user agreed to have replaced
  mixed, brokenOff, agreed

mainVars  == <<main, status, inProcess, abortRequested, quitLocked>>
checkVars == <<checking, offer, dialog>>
httpVars  == <<queue, current, responses>>
zipVars   == <<zipOpen, zip>>
taskVars  == <<task, stage, ok>>
planVars  == <<target, known, hashed, toCopy, toAsk, agreed>>
diskVars  == <<disk, meta, copying>>
envVars   == <<app, latest, launches, updates, edits, mixed, brokenOff>>
vars == <<mainVars, checkVars, httpVars, zipVars, taskVars, planVars, diskVars, envVars>>

Requests == {"check", "download"}
Response == [of : Requests, success : BOOLEAN, release : 0 .. Releases]

InstallerTypes ==
  /\ main \in {"frame", "cancel", "shutdown", "finish", "quit", "off"}
  /\ status \in {"None", "Downloading", "Extracting", "Hashing", "Confirming", "Installing"}
  /\ inProcess \in BOOLEAN /\ abortRequested \in BOOLEAN /\ quitLocked \in BOOLEAN
  /\ zipOpen \in BOOLEAN /\ zip \in {"empty", "half", "whole", "mixture", "unpacked"}
  /\ task \in {"none", "extract", "hash", "install"}
  /\ stage \in {"meta", "run", "end", "ready"} /\ ok \in BOOLEAN

HttpTypes ==
  /\ checking \in BOOLEAN /\ dialog \in BOOLEAN /\ offer \in 0 .. Releases
  /\ queue \in Seq(Requests) /\ current \in Requests \cup {"none", "rest"}
  /\ responses \in Seq(Response)
  /\ latest \in 0 .. Releases

PlanTypes ==
  /\ target \in 0 .. Releases /\ known \in 0 .. Releases /\ hashed \in [Files -> Contents]
  /\ toCopy \subseteq Files /\ toAsk \subseteq Files /\ agreed \subseteq Files

DiskTypes ==
  /\ disk \in [Files -> Contents] /\ meta \in 0 .. Releases \cup {Torn}
  /\ copying \subseteq Files /\ (copying # {} => task = "install" /\ stage = "run")

BoundTypes ==
  /\ app \in 0 .. Releases /\ mixed \in BOOLEAN /\ brokenOff \in BOOLEAN
  /\ launches \in 0 .. MaxLaunches /\ updates \in 0 .. MaxUpdates /\ edits \in 0 .. MaxEdits

TypeOK == InstallerTypes /\ HttpTypes /\ PlanTypes /\ DiskTypes /\ BoundTypes

Running == stage # "ready"
NoTask  == task' = "none" /\ stage' = "ready"
InHttp(kind) ==
  \/ current = kind \/ (kind = "download" /\ current = "rest")
  \/ \E i \in 1 .. Len(queue) : queue[i] = kind
  \/ \E i \in 1 .. Len(responses) : responses[i].of = kind

NothingHashed == [f \in Files |-> NoHash]

Init ==
  /\ main = "frame" /\ status = "None" /\ inProcess = FALSE /\ abortRequested = FALSE
  /\ quitLocked = FALSE /\ checking = FALSE /\ dialog = FALSE /\ offer = 0
  /\ queue = <<>> /\ current = "none" /\ responses = <<>>
  /\ zipOpen = FALSE /\ zip = "empty" /\ task = "none" /\ stage = "ready" /\ ok = FALSE
  /\ target = 0 /\ known = 0 /\ hashed = NothingHashed
  /\ toCopy = {} /\ toAsk = {} /\ copying = {} /\ agreed = {}
  /\ disk = [f \in Files |-> Hash(f, 0)] /\ meta = 0 /\ app = 0
  /\ latest = 0 /\ launches = 1 /\ updates = 0 /\ edits = 0 /\ mixed = FALSE /\ brokenOff = FALSE

-----------------------------------------------------------------------------
(* The world around the game *)

Publish ==
  /\ latest < Releases /\ latest' = latest + 1
  /\ UNCHANGED <<mainVars, checkVars, httpVars, zipVars, taskVars, planVars, diskVars,
                 app, launches, updates, edits, mixed, brokenOff>>

\* The user changes or deletes a file; never the library the game runs from
EditFile(f) ==
  /\ edits < MaxEdits /\ f # Library /\ f \notin copying
  /\ \E c \in {Edited, NoHash} : disk[f] # c /\ disk' = [disk EXCEPT ![f] = c]
  /\ edits' = edits + 1
  /\ UNCHANGED <<mainVars, checkVars, httpVars, zipVars, taskVars, planVars, meta, copying,
                 app, latest, launches, updates, mixed, brokenOff>>

\* The game ends and with it everything that is not on disk
Gone ==
  /\ main' = "off" /\ status' = "None" /\ inProcess' = FALSE /\ abortRequested' = FALSE
  /\ quitLocked' = FALSE /\ checking' = FALSE /\ dialog' = FALSE /\ offer' = 0
  /\ queue' = <<>> /\ current' = "none" /\ responses' = <<>>
  /\ zipOpen' = FALSE /\ zip' = "empty" /\ NoTask /\ ok' = FALSE
  /\ target' = 0 /\ known' = 0 /\ hashed' = NothingHashed
  /\ toCopy' = {} /\ toAsk' = {} /\ copying' = {} /\ agreed' = {} /\ mixed' = FALSE
  /\ UNCHANGED <<disk, meta, app, latest, launches, updates, edits>>

Crash ==
  /\ main # "off" /\ Gone
  /\ brokenOff' = (brokenOff \/ (task = "install" /\ Running))

\* It is started again, if its library is whole
Launch ==
  /\ main = "off" /\ launches < MaxLaunches /\ disk[Library] \in 0 .. Releases
  /\ main' = "frame" /\ app' = disk[Library] /\ launches' = launches + 1
  /\ UNCHANGED <<status, inProcess, abortRequested, quitLocked, checkVars, httpVars, zipVars,
                 taskVars, planVars, diskVars, latest, updates, edits, mixed, brokenOff>>

-----------------------------------------------------------------------------
(* CUpdateChecker, and the HTTP worker.  A transfer may fail at any moment, for the
   network's sake or for m_bAbortCurrentDownload, which makes no difference otherwise. *)

CheckForUpdates ==
  /\ main = "frame" /\ ~checking
  /\ checking' = TRUE /\ queue' = Append(queue, "check")
  /\ UNCHANGED <<mainVars, offer, dialog, current, responses, zipVars, taskVars, planVars,
                 diskVars, envVars>>

TakeRequest ==
  /\ main # "off" /\ current = "none" /\ queue # <<>>
  /\ current' = Head(queue) /\ queue' = Tail(queue)
  /\ UNCHANGED <<mainVars, checkVars, responses, zipVars, taskVars, planVars, diskVars, envVars>>

Respond(success) ==
  /\ current' = "none"
  /\ responses' = Append(responses,
       [of |-> IF current = "check" THEN "check" ELSE "download",
        success |-> success, release |-> latest])

TransferFails ==
  /\ current # "none" /\ Respond(FALSE)
  /\ UNCHANGED <<mainVars, checkVars, queue, zipVars, taskVars, planVars, diskVars, envVars>>

ReleasesLoaded ==
  /\ current = "check" /\ Respond(TRUE)
  /\ UNCHANGED <<mainVars, checkVars, queue, zipVars, taskVars, planVars, diskVars, envVars>>

\* The write callback of DownloadZipFile refuses the data ...
WriteRefused ==
  /\ current \in {"download", "rest"} /\ (~inProcess \/ abortRequested \/ ~zipOpen)
  /\ Respond(FALSE)
  /\ abortRequested' = (abortRequested /\ ~inProcess)
  /\ UNCHANGED <<main, status, inProcess, quitLocked, checkVars, queue, zipVars, taskVars,
                 planVars, diskVars, envVars>>

\* ... or appends it to m_ZipDownloadFile, whoever's it is by now; a file comes in two parts
WriteData ==
  /\ current \in {"download", "rest"} /\ inProcess /\ ~abortRequested /\ zipOpen
  /\ \/ current = "download" /\ current' = "rest" /\ UNCHANGED responses
     \/ current = "rest" /\ Respond(TRUE)
  /\ zip' = CASE current = "download" /\ zip = "empty" -> "half"
              [] current = "rest" /\ zip = "half"      -> "whole"
              [] OTHER                                 -> "mixture"
  /\ UNCHANGED <<mainVars, checkVars, queue, zipOpen, taskVars, planVars, diskVars, envVars>>

\* CHttpClient::RunFrame hands OnDataLoaded its response
OnDataLoaded ==
  /\ main = "frame" /\ responses # <<>> /\ Head(responses).of = "check"
  /\ responses' = Tail(responses) /\ checking' = FALSE
  /\ LET r == Head(responses) IN
       /\ offer' = IF r.success THEN r.release ELSE offer
       /\ dialog' = (dialog \/ (r.success /\ r.release > app))
  /\ UNCHANGED <<mainVars, queue, current, zipVars, taskVars, planVars, diskVars, envVars>>

-----------------------------------------------------------------------------
(* CUpdateInstaller on the main thread *)

CleanUp ==
  /\ zipOpen' = FALSE /\ zip' = "empty"
  /\ target' = 0 /\ known' = 0 /\ hashed' = NothingHashed
  /\ toCopy' = {} /\ toAsk' = {} /\ agreed' = {}

ErrorOccured == status' = "None" /\ inProcess' = FALSE /\ CleanUp

RunTask(kind, at) == task' = kind /\ stage' = at /\ ok' = FALSE

\* "Update" in the dialog that offers a release.  With an update in process it only
\* closes the dialog; so it does, in the end, if the installer is disabled or the metadata,
\* the temporary directory or its file cannot be had.
StartUpdate ==
  /\ main = "frame" /\ dialog /\ updates < MaxUpdates
  /\ dialog' = FALSE /\ updates' = updates + 1
  /\ \/ /\ inProcess
        /\ UNCHANGED <<status, inProcess, queue, zipVars, taskVars, planVars, mixed>>
     \/ /\ ~inProcess /\ ~Running /\ NoTask /\ ok' = FALSE
        /\ UNCHANGED <<status, inProcess, queue, zipVars, planVars, mixed>>
     \/ /\ ~inProcess /\ ~Running /\ NoTask /\ ok' = FALSE /\ meta # Torn
        /\ inProcess' = TRUE /\ status' = "Downloading"
        /\ queue' = Append(queue, "download") /\ mixed' = (mixed \/ InHttp("download"))
        /\ zipOpen' = TRUE /\ zip' = "empty"
        /\ target' = offer /\ known' = meta
        /\ UNCHANGED <<hashed, toCopy, toAsk, agreed>>
  /\ UNCHANGED <<main, abortRequested, quitLocked, checking, offer, current, responses, diskVars,
                 app, latest, launches, edits, brokenOff>>

\* The response callback of DownloadZipFile; ExtractZipFile opens the archive.  If it was
\* extracted before, the task fails at the first file, which "already exists".
DownloadEnds ==
  /\ main = "frame" /\ responses # <<>> /\ Head(responses).of = "download"
  /\ responses' = Tail(responses)
  /\ \/ /\ ~inProcess /\ zipOpen' = FALSE
        /\ UNCHANGED <<status, inProcess, zip, taskVars, planVars>>
     \/ /\ inProcess /\ ErrorOccured /\ UNCHANGED taskVars
     \/ /\ inProcess /\ Head(responses).success /\ zip \in {"whole", "unpacked"} /\ ~Running
        /\ zipOpen' = FALSE /\ zip' = "unpacked" /\ status' = "Extracting"
        /\ RunTask("extract", IF zip = "whole" THEN "run" ELSE "end")
        /\ UNCHANGED <<inProcess, planVars>>
  /\ brokenOff' = (brokenOff \/ (task = "install" /\ Running /\ ~inProcess'))
  /\ UNCHANGED <<main, abortRequested, quitLocked, checkVars, queue, current, diskVars,
                 app, latest, launches, updates, edits, mixed>>

\* The metadata in the archive says which release it is: an earlier one, if an earlier
\* request wrote it.  PrepareFileList looks which files there are; then HashFiles.
UpdateExtractionStatus ==
  /\ main = "frame" /\ inProcess /\ status = "Extracting" /\ ~Running
  /\ \/ ErrorOccured /\ NoTask /\ UNCHANGED ok
     \/ /\ ok /\ status' = "Hashing" /\ RunTask("hash", "run")
        /\ hashed' = disk
        /\ \E r \in known .. target : (r = target \/ mixed) /\ target' = r
        /\ UNCHANGED <<inProcess, zipVars, known, toCopy, toAsk, agreed>>
  /\ UNCHANGED <<main, abortRequested, quitLocked, checkVars, httpVars, diskVars, envVars>>

\* Mutant: the quit command stays as it is
MutBeginFileUpdating ==
  /\ status' = "Installing" /\ UNCHANGED quitLocked /\ RunTask("install", "meta")

BeginFileUpdating ==
  /\ status' = "Installing" /\ quitLocked' = TRUE /\ RunTask("install", "meta")

\* ValidateUpdateFiles fails, or sorts the files
UpdateHashingStatus ==
  /\ main = "frame" /\ inProcess /\ status = "Hashing" /\ ~Running
  /\ \/ ErrorOccured /\ NoTask /\ UNCHANGED <<ok, quitLocked>>
     \/ /\ ok
        /\ LET replace == ToReplace(known, target, hashed)
               ask     == {f \in replace : NeedToAsk(f, known, hashed)} IN
             /\ toCopy' = replace \ ask /\ toAsk' = ask
             /\ IF ask = {} THEN BeginFileUpdating
                ELSE status' = "Confirming" /\ NoTask /\ UNCHANGED <<ok, quitLocked>>
        /\ UNCHANGED <<inProcess, zipVars, target, known, hashed, agreed>>
  /\ UNCHANGED <<main, abortRequested, checkVars, httpVars, diskVars, envVars>>

\* The dialog about a file, answered for it or for all that are left
ShowNextReplaceDialog(f, replace, forAll) ==
  /\ main = "frame" /\ inProcess /\ status = "Confirming" /\ f \in toAsk
  /\ LET answered == IF forAll THEN toAsk ELSE {f} IN
       /\ toAsk' = toAsk \ answered
       /\ toCopy' = IF replace THEN toCopy \cup answered ELSE toCopy
       /\ agreed' = IF replace THEN agreed \cup answered ELSE agreed
  /\ IF toAsk' = {} THEN BeginFileUpdating ELSE UNCHANGED <<status, quitLocked, taskVars>>
  /\ UNCHANGED <<main, inProcess, abortRequested, checkVars, httpVars, zipVars,
                 target, known, hashed, diskVars, envVars>>

\* Mutant: the result is not waited for
MutUpdateInstallStatus ==
  /\ main \in {"frame", "finish"} /\ inProcess /\ status = "Installing"
  /\ quitLocked' = FALSE /\ ErrorOccured /\ NoTask
  /\ main' = IF ok \/ main = "finish" THEN "quit" ELSE "frame"
  /\ UNCHANGED <<abortRequested, checkVars, httpVars, ok, diskVars, envVars>>

\* Mutant: only a success ends the installation
MutInstallSucceeds ==
  /\ main \in {"frame", "finish"} /\ inProcess /\ status = "Installing" /\ ~Running /\ ok
  /\ quitLocked' = FALSE /\ ErrorOccured /\ NoTask /\ main' = "quit"
  /\ UNCHANGED <<abortRequested, checkVars, httpVars, ok, diskVars, envVars>>

\* In a frame, or in the loop of Shutdown; after a success the game quits
UpdateInstallStatus ==
  /\ main \in {"frame", "finish"} /\ inProcess /\ status = "Installing" /\ ~Running
  /\ quitLocked' = FALSE /\ ErrorOccured /\ NoTask
  /\ main' = IF ok \/ main = "finish" THEN "quit" ELSE "frame"
  /\ UNCHANGED <<abortRequested, checkVars, httpVars, ok, diskVars, envVars>>

\* Mutant: the task is not waited for
MutCancelInstallation ==
  /\ main = "frame" /\ inProcess /\ status # "Installing" /\ ErrorOccured
  /\ abortRequested' = (status \in {"Extracting", "Hashing"})
  /\ UNCHANGED <<main, quitLocked, checkVars, httpVars, taskVars, diskVars, envVars>>

\* The cancel button, which the dialog of the installation does not have
CancelInstallation ==
  /\ main = "frame" /\ inProcess
  /\ \/ status \in {"Downloading", "Confirming"} /\ ErrorOccured
        /\ UNCHANGED <<main, abortRequested>>
     \/ /\ status \in {"Extracting", "Hashing"}
        /\ abortRequested' = TRUE /\ main' = "cancel"
        /\ UNCHANGED <<status, inProcess, zipVars, planVars>>
  /\ UNCHANGED <<quitLocked, checkVars, httpVars, taskVars, diskVars, envVars>>

\* while (m_bAbortRequested) yield;
CancelReturns ==
  /\ main = "cancel" /\ ~abortRequested
  /\ ErrorOccured /\ main' = "frame"
  /\ UNCHANGED <<abortRequested, quitLocked, checkVars, httpVars, taskVars, diskVars, envVars>>

\* CHud::Shutdown: an installation is brought to its end, anything else is called off
Shutdown ==
  /\ main = "frame"
  /\ \/ /\ ~inProcess /\ main' = "quit"
        /\ UNCHANGED <<status, inProcess, abortRequested, zipVars, planVars>>
     \/ /\ inProcess /\ status = "Installing" /\ main' = "finish"
        /\ UNCHANGED <<status, inProcess, abortRequested, zipVars, planVars>>
     \/ /\ inProcess /\ status \in {"Downloading", "Confirming"} /\ main' = "quit"
        /\ ErrorOccured /\ UNCHANGED abortRequested
     \/ /\ inProcess /\ status \in {"Extracting", "Hashing"} /\ main' = "shutdown"
        /\ abortRequested' = TRUE /\ UNCHANGED <<status, inProcess, zipVars, planVars>>
  /\ UNCHANGED <<quitLocked, checkVars, httpVars, taskVars, diskVars, envVars>>

ShutdownReturns ==
  /\ main = "shutdown" /\ ~abortRequested
  /\ ErrorOccured /\ main' = "quit"
  /\ UNCHANGED <<abortRequested, quitLocked, checkVars, httpVars, taskVars, diskVars, envVars>>

\* The destructor of m_AsyncResult waits for the task
Exit == main = "quit" /\ ~Running /\ Gone /\ UNCHANGED brokenOff

-----------------------------------------------------------------------------
(* The async task *)

\* Mutant: it answers at once, as the callbacks of the download do
MutTaskAborts ==
  /\ task \in {"extract", "hash"} /\ stage = "run" /\ abortRequested
  /\ stage' = "end" /\ ok' = FALSE /\ abortRequested' = FALSE
  /\ UNCHANGED <<main, status, inProcess, quitLocked, checkVars, httpVars, zipVars, task, planVars,
                 diskVars, envVars>>

TaskAborts ==
  /\ task \in {"extract", "hash"} /\ stage = "run" /\ abortRequested
  /\ stage' = "end" /\ ok' = FALSE
  /\ UNCHANGED <<mainVars, checkVars, httpVars, zipVars, task, planVars, diskVars, envVars>>

\* An exception; a file that was being copied stays as it is
TaskFails ==
  /\ stage \in {"meta", "run"}
  /\ stage' = "end" /\ ok' = FALSE /\ copying' = {}
  /\ brokenOff' = (brokenOff \/ task = "install")
  /\ UNCHANGED <<mainVars, checkVars, httpVars, zipVars, task, planVars, disk, meta,
                 app, latest, launches, updates, edits, mixed>>

Extracted ==
  /\ task = "extract" /\ stage = "run"
  /\ stage' = "end" /\ ok' = TRUE
  /\ UNCHANGED <<mainVars, checkVars, httpVars, zipVars, task, planVars, diskVars, envVars>>

\* Only files that PrepareFileList found are read; one that went away is an error
Hashed ==
  /\ task = "hash" /\ stage = "run"
  /\ \A f \in Files : hashed[f] # NoHash => disk[f] # NoHash
  /\ hashed' = [f \in Files |-> IF hashed[f] = NoHash THEN NoHash ELSE disk[f]]
  /\ stage' = "end" /\ ok' = TRUE
  /\ UNCHANGED <<mainVars, checkVars, httpVars, zipVars, task, target, known, toCopy, toAsk, agreed,
                 diskVars, envVars>>

\* Mutant: the metadata is copied last
MutCopyMetadata ==
  /\ task = "install" /\ stage = "meta" /\ inProcess
  /\ stage' = "run"
  /\ UNCHANGED <<mainVars, checkVars, httpVars, zipVars, task, ok, planVars, diskVars, envVars>>

\* "Copy metadata file (not included in the list)", in two steps
CopyMetadata ==
  /\ task = "install" /\ stage = "meta" /\ inProcess
  /\ \/ meta # Torn /\ meta' = Torn /\ UNCHANGED stage
     \/ meta = Torn /\ meta' = target /\ stage' = "run"
  /\ UNCHANGED <<mainVars, checkVars, httpVars, zipVars, task, ok, planVars, disk, copying,
                 envVars>>

\* A plain file is overwritten; a library is unlinked or renamed first (Plat_CopySpecialFile), and
\* is either still away or there in part when something happens to the task.
CopyBegins(f) ==
  /\ task = "install" /\ stage = "run" /\ inProcess /\ copying = {} /\ f \in toCopy
  /\ copying' = {f}
  /\ \E part \in {Torn, NoHash} :
       /\ part = NoHash => f \in Plat /\ hashed[f] # NoHash
       /\ disk' = [disk EXCEPT ![f] = part]
  /\ UNCHANGED <<mainVars, checkVars, httpVars, zipVars, taskVars, planVars, meta, envVars>>

CopyEnds(f) ==
  /\ task = "install" /\ stage = "run" /\ inProcess /\ f \in copying
  /\ copying' = {} /\ toCopy' = toCopy \ {f}
  /\ disk' = [disk EXCEPT ![f] = Hash(f, target)]
  /\ UNCHANGED <<mainVars, checkVars, httpVars, zipVars, taskVars, target, known, hashed, toAsk,
                 agreed, meta, envVars>>

Installed ==
  /\ task = "install" /\ stage = "run" /\ toCopy = {} /\ copying = {}
  /\ stage' = "end" /\ ok' = TRUE
  /\ UNCHANGED <<mainVars, checkVars, httpVars, zipVars, task, planVars, diskVars, envVars>>

\* Mutant: the status is reset, the flag is not
MutTaskEnds ==
  /\ stage = "end" /\ stage' = "ready"
  /\ status' = IF abortRequested THEN "None" ELSE status
  /\ UNCHANGED <<main, inProcess, abortRequested, quitLocked, checkVars, httpVars, zipVars, task,
                 ok, planVars, diskVars, envVars>>

\* "Abort handling": the last thing the task does, and the only answer to an abort
TaskEnds ==
  /\ stage = "end" /\ stage' = "ready"
  /\ status' = IF abortRequested THEN "None" ELSE status
  /\ abortRequested' = FALSE
  /\ UNCHANGED <<main, inProcess, quitLocked, checkVars, httpVars, zipVars, task, ok, planVars,
                 diskVars, envVars>>

-----------------------------------------------------------------------------
Responses == OnDataLoaded \/ DownloadEnds
Frame == UpdateExtractionStatus \/ UpdateHashingStatus \/ UpdateInstallStatus
           \/ CancelReturns \/ ShutdownReturns \/ Exit
Http  == TakeRequest \/ TransferFails \/ ReleasesLoaded \/ WriteRefused \/ WriteData
Task  == TaskAborts \/ TaskFails \/ Extracted \/ Hashed \/ CopyMetadata \/ Installed \/ TaskEnds
           \/ \E f \in Files : CopyBegins(f) \/ CopyEnds(f)
User  == CheckForUpdates \/ StartUpdate \/ CancelInstallation \/ Shutdown
           \/ \E f \in Files : EditFile(f) \/ \E replace, forAll \in BOOLEAN :
                                                ShowNextReplaceDialog(f, replace, forAll)

Next == Responses \/ Frame \/ Http \/ Task \/ User \/ Publish \/ Crash \/ Launch

\* Every frame of the game runs the frame of the HTTP client and that of the installer, and
\* the operating system runs both threads.  Nobody makes the network or the user move.
Spec == Init /\ [][Next]_vars /\ WF_vars(Responses) /\ WF_vars(Frame) /\ WF_vars(Task)

-----------------------------------------------------------------------------
(* Properties *)

\* The async task works for the update in process and for nothing else: nobody cleans up
\* under it (CleanUp empties the very list the task walks through), and no second task is
\* started.  An update that is started while the HTTP client is still busy with a
\* cancelled one breaks this: the old response ends the new update.
TaskHasItsUpdate ==
  ~mixed /\ Running =>
    \/ inProcess /\ status = CASE task = "extract" -> "Extracting"
                               [] task = "hash"    -> "Hashing"
                               [] task = "install" -> "Installing"

\* When the main thread stops waiting for the task to hear of a cancel or a shutdown, and
\* goes on to clean up, the task is over.  A cancelled download that is still with the HTTP
\* client breaks this: its write callback takes the request to abort for its own, and the
\* task, which never hears of it, works on under the cleaning.
TaskOverWhenAnswered ==
  ~mixed /\ main \in {"cancel", "shutdown"} /\ ~abortRequested => ~Running

\* The quit command is refused as long as files are being replaced, and no longer.
QuitLockedWhileInstalling == ~mixed => (quitLocked <=> status = "Installing")

\* A successful installation leaves no file behind: each that the release has is the
\* release's or what the user made of it.  After an installation that broke off this is
\* not so: the metadata, copied first, is already the new one, so the next attempt takes
\* the files that were not reached for unchanged.
NoStaleFile ==
  task = "install" /\ stage = "ready" /\ ok /\ inProcess /\ ~brokenOff =>
    \A f \in Files \ Modifiable :
      Hash(f, target) # NoHash =>
        \/ disk[f] \in {Hash(f, target), Edited}
        \/ disk[f] = NoHash /\ edits > 0

\* The metadata is never older than a file, so no release is installed over a newer one.
MetadataLeads == meta # Torn => \A f \in Files : disk[f] <= meta

\* What the user wrote before the files were hashed is only replaced with consent,
\* platform files excepted.
EditsNeedConsent ==
  [][\A f \in Files \ Plat :
       disk[f] = Edited /\ hashed[f] = Edited /\ f \in copying' \ copying => f \in agreed]_vars

\* A cancel comes to its end
CancelEnds == main = "cancel" ~> main # "cancel"

\* An installation comes to its end, with the quit command back
InstallationEnds == status = "Installing" /\ ~mixed ~> ~quitLocked \/ mixed

\* A cancel that the task can still hear, or a shutdown, comes to its end.
AbortAnswered ==
  main \in {"cancel", "shutdown"} /\ Running ~> main \notin {"cancel", "shutdown"}
=============================================================================
