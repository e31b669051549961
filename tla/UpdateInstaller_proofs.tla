----------------------- MODULE UpdateInstaller_proofs -----------------------
(***************************************************************************)
(* Theorems about UpdateInstaller, for any files, releases and bounds.     *)
(***************************************************************************)
EXTENDS UpdateInstaller, TLAPS

-----------------------------------------------------------------------------
(* Metadata and file lists *)

\* The hash that a release's metadata has for a file is a release up to it, or none.
LEMMA HashType ==
  ASSUME NEW f \in Files, NEW v \in 0 .. Releases
  PROVE  Hash(f, v) \in Hashes /\ Hash(f, v) <= v
  BY FilesAssumption DEF Hash

\* Taken from the front, a sequence keeps what follows.
LEMMA TailOfSeq ==
  ASSUME NEW S, NEW s \in Seq(S), s # <<>>
  PROVE  /\ Head(s) \in S /\ Head(s) = s[1]
         /\ Tail(s) \in Seq(S) /\ Len(s) \in Nat /\ Len(Tail(s)) = Len(s) - 1
         /\ \A i \in 1 .. Len(Tail(s)) : Tail(s)[i] = s[i + 1]
  OBVIOUS

\* CleanUp forgets the hashes.
LEMMA NothingHashedType == NothingHashed \in [Files -> Contents]
  BY FilesAssumption DEF NothingHashed, Contents, NoHash

\* A longer sequence is the old one and the new element.
LEMMA AppendToSeq ==
  ASSUME NEW S, NEW s \in Seq(S), NEW e \in S
  PROVE  /\ Append(s, e) \in Seq(S) /\ Len(s) \in Nat /\ Len(Append(s, e)) = Len(s) + 1
         /\ \A i \in 1 .. Len(s) : Append(s, e)[i] = s[i]
         /\ Append(s, e)[Len(s) + 1] = e
  OBVIOUS

-----------------------------------------------------------------------------
(* Types *)

\* What the status says about the task, the archive and the lists, cancelled or not
StatusInv ==
  /\ status \in {"Downloading", "Confirming"} => ~Running
  /\ ~inProcess => status = "None" /\ zip = "empty" /\ ~zipOpen /\ toCopy = {}
  /\ Running /\ status = "Installing" => task = "install"
  /\ inProcess /\ task = "install" => status = "Installing"
  /\ abortRequested => /\ main \in {"cancel", "shutdown"} /\ inProcess
                       /\ status \in {"Extracting", "Hashing"}
  /\ main \in {"cancel", "shutdown"} => inProcess /\ status \in {"Extracting", "Hashing", "None"}
  /\ zipOpen => status = "Downloading"
  /\ zip = "whole" => zipOpen
  /\ status = "Downloading" => toCopy = {}
  /\ toCopy # {} => \/ status \in {"Confirming", "Installing"}
                    \/ ~ok /\ task = "extract" /\ stage # "run"

\* The state of the installer and of its task keeps its types.
LEMMA InstallerTypesStep == InstallerTypes /\ [Next]_vars => InstallerTypes'
<1> SUFFICES ASSUME InstallerTypes, [Next]_vars PROVE InstallerTypes'
  OBVIOUS
<1> USE DEF InstallerTypes, vars, mainVars, checkVars, httpVars, zipVars, taskVars, planVars,
      diskVars, envVars, NoTask
<1>1. CASE OnDataLoaded
  BY <1>1 DEF OnDataLoaded
<1>2. CASE DownloadEnds
  BY <1>2 DEF DownloadEnds, ErrorOccured, CleanUp, RunTask
<1>3. CASE UpdateExtractionStatus
  BY <1>3 DEF UpdateExtractionStatus, ErrorOccured, CleanUp, RunTask
<1>4. CASE UpdateHashingStatus
  BY <1>4 DEF UpdateHashingStatus, ErrorOccured, CleanUp, RunTask, BeginFileUpdating
<1>5. CASE UpdateInstallStatus
  BY <1>5 DEF UpdateInstallStatus, ErrorOccured, CleanUp
<1>6. CASE CancelReturns
  BY <1>6 DEF CancelReturns, ErrorOccured, CleanUp
<1>7. CASE ShutdownReturns
  BY <1>7 DEF ShutdownReturns, ErrorOccured, CleanUp
<1>8. CASE Exit
  BY <1>8 DEF Exit, Gone
<1>9. CASE TakeRequest
  BY <1>9 DEF TakeRequest
<1>10. CASE TransferFails
  BY <1>10 DEF TransferFails, Respond
<1>11. CASE ReleasesLoaded
  BY <1>11 DEF ReleasesLoaded, Respond
<1>12. CASE WriteRefused
  BY <1>12 DEF WriteRefused, Respond
<1>13. CASE WriteData
  BY <1>13 DEF WriteData, Respond
<1>14. CASE TaskAborts
  <2>1. /\ stage' = "end" /\ ok' \in BOOLEAN /\ task' = task
        /\ main' = main /\ status' = status /\ inProcess' = inProcess
        /\ abortRequested' = abortRequested /\ quitLocked' = quitLocked
        /\ zipOpen' = zipOpen /\ zip' = zip
    BY <1>14 DEF TaskAborts
  <2> QED
    BY <2>1
<1>15. CASE TaskFails
  <2>1. /\ stage' = "end" /\ ok' \in BOOLEAN /\ task' = task
        /\ main' = main /\ status' = status /\ inProcess' = inProcess
        /\ abortRequested' = abortRequested /\ quitLocked' = quitLocked
        /\ zipOpen' = zipOpen /\ zip' = zip
    BY <1>15 DEF TaskFails
  <2> QED
    BY <2>1
<1>16. CASE Extracted
  <2>1. /\ stage' = "end" /\ ok' \in BOOLEAN /\ task' = task
        /\ main' = main /\ status' = status /\ inProcess' = inProcess
        /\ abortRequested' = abortRequested /\ quitLocked' = quitLocked
        /\ zipOpen' = zipOpen /\ zip' = zip
    BY <1>16 DEF Extracted
  <2> QED
    BY <2>1
<1>17. CASE Hashed
  <2>1. /\ stage' = "end" /\ ok' \in BOOLEAN /\ task' = task
        /\ main' = main /\ status' = status /\ inProcess' = inProcess
        /\ abortRequested' = abortRequested /\ quitLocked' = quitLocked
        /\ zipOpen' = zipOpen /\ zip' = zip
    BY <1>17 DEF Hashed
  <2> QED
    BY <2>1
<1>18. CASE CopyMetadata
  BY <1>18 DEF CopyMetadata
<1>19. CASE Installed
  <2>1. /\ stage' = "end" /\ ok' \in BOOLEAN /\ task' = task
        /\ main' = main /\ status' = status /\ inProcess' = inProcess
        /\ abortRequested' = abortRequested /\ quitLocked' = quitLocked
        /\ zipOpen' = zipOpen /\ zip' = zip
    BY <1>19 DEF Installed
  <2> QED
    BY <2>1
<1>20. CASE TaskEnds
  <2>1. /\ stage' = "ready" /\ status' \in {"None", status} /\ abortRequested' \in BOOLEAN
        /\ main' = main /\ inProcess' = inProcess /\ quitLocked' = quitLocked
        /\ zipOpen' = zipOpen /\ zip' = zip /\ task' = task /\ ok' = ok
    BY <1>20 DEF TaskEnds
  <2> QED
    BY <2>1
<1>21. ASSUME NEW f \in Files, CopyBegins(f) PROVE InstallerTypes'
  BY <1>21 DEF CopyBegins
<1>22. ASSUME NEW f \in Files, CopyEnds(f) PROVE InstallerTypes'
  BY <1>22 DEF CopyEnds
<1>23. CASE CheckForUpdates
  BY <1>23 DEF CheckForUpdates
<1>24. CASE StartUpdate
  BY <1>24 DEF StartUpdate
<1>25. CASE CancelInstallation
  BY <1>25 DEF CancelInstallation, ErrorOccured, CleanUp
<1>26. CASE Shutdown
  BY <1>26 DEF Shutdown, ErrorOccured, CleanUp
<1>27. ASSUME NEW f \in Files, EditFile(f) PROVE InstallerTypes'
  BY <1>27 DEF EditFile
<1>28. ASSUME NEW f \in Files, NEW replace \in BOOLEAN, NEW forAll \in BOOLEAN,
              ShowNextReplaceDialog(f, replace, forAll)
       PROVE  InstallerTypes'
  BY <1>28 DEF ShowNextReplaceDialog, BeginFileUpdating, RunTask
<1>29. CASE Publish
  BY <1>29 DEF Publish
<1>30. CASE Crash
  BY <1>30 DEF Crash, Gone
<1>31. CASE Launch
  BY <1>31 DEF Launch
<1>32. CASE UNCHANGED vars
  BY <1>32
<1> HIDE DEF InstallerTypes, vars, mainVars, checkVars, httpVars, zipVars, taskVars, planVars,
      diskVars, envVars, NoTask
<1>q. QED
  BY <1>1, <1>2, <1>3, <1>4, <1>5, <1>6, <1>7, <1>8, <1>9, <1>10, <1>11, <1>12, <1>13, <1>14, <1>15,
     <1>16, <1>17, <1>18, <1>19, <1>20, <1>21, <1>22, <1>23, <1>24, <1>25, <1>26, <1>27, <1>28,
     <1>29, <1>30, <1>31, <1>32
     DEF Next, Responses, Frame, Http, Task, User

\* The requests and the responses go with the game.
LEMMA HttpTypesGone == ASSUME HttpTypes, Gone PROVE HttpTypes'
<1>1. queue' \in Seq(Requests) /\ responses' \in Seq(Response)
  BY DEF Gone
<1>2. /\ checking' \in BOOLEAN /\ dialog' \in BOOLEAN /\ latest' \in 0 .. Releases
      /\ current' \in Requests \cup {"none", "rest"}
  BY DEF HttpTypes, Gone
<1>3. offer' \in 0 .. Releases
  BY FilesAssumption DEF Gone
<1> QED
  BY <1>1, <1>2, <1>3 DEF HttpTypes

\* So does what concerns releases and requests, ...
LEMMA HttpTypesStep == HttpTypes /\ [Next]_vars => HttpTypes'
<1> SUFFICES ASSUME HttpTypes, [Next]_vars PROVE HttpTypes'
  OBVIOUS
<1> USE DEF HttpTypes, Requests, vars, mainVars, checkVars, httpVars, zipVars, taskVars, planVars,
      diskVars, envVars, NoTask
<1>1. CASE OnDataLoaded
  <2> DEFINE r == Head(responses)
  <2>1. r.release \in 0 .. Releases /\ r.success \in BOOLEAN
    <3>1. r \in Response
      BY <1>1, TailOfSeq DEF OnDataLoaded
    <3> QED
      BY <3>1 DEF Response
  <2> HIDE DEF r
  <2>2. offer' = (IF r.success THEN r.release ELSE offer)
        /\ dialog' = (dialog \/ (r.success /\ r.release > app))
    BY <1>1 DEF OnDataLoaded, r
  <2>3. offer' \in 0 .. Releases
    BY <2>1, <2>2
  <2>4. dialog' \in BOOLEAN
    BY <2>2, Zenon
  <2> QED
    BY <1>1, <2>3, <2>4, TailOfSeq DEF OnDataLoaded
<1>2. CASE DownloadEnds
  BY <1>2, TailOfSeq DEF DownloadEnds, ErrorOccured, CleanUp, RunTask
<1>3. CASE UpdateExtractionStatus
  BY <1>3 DEF UpdateExtractionStatus, ErrorOccured, CleanUp, RunTask
<1>4. CASE UpdateHashingStatus
  BY <1>4 DEF UpdateHashingStatus, ErrorOccured, CleanUp, RunTask, BeginFileUpdating
<1>5. CASE UpdateInstallStatus
  BY <1>5 DEF UpdateInstallStatus, ErrorOccured, CleanUp
<1>6. CASE CancelReturns
  BY <1>6 DEF CancelReturns, ErrorOccured, CleanUp
<1>7. CASE ShutdownReturns
  BY <1>7 DEF ShutdownReturns, ErrorOccured, CleanUp
<1>8. CASE Exit
  BY <1>8, HttpTypesGone DEF Exit
<1>9. CASE TakeRequest
  BY <1>9 DEF TakeRequest
<1>10. CASE TransferFails
  BY <1>10 DEF TransferFails, Respond, Response
<1>11. CASE ReleasesLoaded
  BY <1>11 DEF ReleasesLoaded, Respond, Response
<1>12. CASE WriteRefused
  BY <1>12 DEF WriteRefused, Respond, Response
<1>13. CASE WriteData
  <2>1. CASE current' = "rest"
    BY <1>13, <2>1 DEF WriteData, Respond, Response
  <2>2. CASE current' # "rest"
    <3>1. Respond(TRUE)
      BY <1>13, <2>2 DEF WriteData
    <3>2. responses' \in Seq(Response)
          /\ current' = "none"
      BY <3>1 DEF Respond, Response
    <3> QED
      BY <1>13, <3>2 DEF WriteData
  <2> QED
    BY <2>1, <2>2
<1>14. CASE TaskAborts
  BY <1>14 DEF TaskAborts
<1>15. CASE TaskFails
  BY <1>15 DEF TaskFails
<1>16. CASE Extracted
  BY <1>16 DEF Extracted
<1>17. CASE Hashed
  BY <1>17 DEF Hashed
<1>18. CASE CopyMetadata
  BY <1>18 DEF CopyMetadata
<1>19. CASE Installed
  BY <1>19 DEF Installed
<1>20. CASE TaskEnds
  BY <1>20 DEF TaskEnds
<1>21. ASSUME NEW f \in Files, CopyBegins(f) PROVE HttpTypes'
  BY <1>21 DEF CopyBegins
<1>22. ASSUME NEW f \in Files, CopyEnds(f) PROVE HttpTypes'
  BY <1>22 DEF CopyEnds
<1>23. CASE CheckForUpdates
  BY <1>23 DEF CheckForUpdates
<1>24. CASE StartUpdate
  <2>1. queue' \in Seq(Requests)
    BY <1>24, AppendToSeq DEF StartUpdate
  <2> QED
    BY <1>24, <2>1 DEF StartUpdate
<1>25. CASE CancelInstallation
  BY <1>25 DEF CancelInstallation, ErrorOccured, CleanUp
<1>26. CASE Shutdown
  BY <1>26 DEF Shutdown, ErrorOccured, CleanUp
<1>27. ASSUME NEW f \in Files, EditFile(f) PROVE HttpTypes'
  BY <1>27 DEF EditFile
<1>28. ASSUME NEW f \in Files, NEW replace \in BOOLEAN, NEW forAll \in BOOLEAN,
              ShowNextReplaceDialog(f, replace, forAll)
       PROVE  HttpTypes'
  BY <1>28 DEF ShowNextReplaceDialog, BeginFileUpdating, RunTask
<1>29. CASE Publish
  BY <1>29, FilesAssumption DEF Publish
<1>30. CASE Crash
  BY <1>30, HttpTypesGone DEF Crash
<1>31. CASE Launch
  BY <1>31 DEF Launch
<1>32. CASE UNCHANGED vars
  BY <1>32
<1> HIDE DEF HttpTypes, Requests, vars, mainVars, checkVars, httpVars, zipVars, taskVars, planVars,
      diskVars, envVars, NoTask
<1>q. QED
  BY <1>1, <1>2, <1>3, <1>4, <1>5, <1>6, <1>7, <1>8, <1>9, <1>10, <1>11, <1>12, <1>13, <1>14, <1>15,
     <1>16, <1>17, <1>18, <1>19, <1>20, <1>21, <1>22, <1>23, <1>24, <1>25, <1>26, <1>27, <1>28,
     <1>29, <1>30, <1>31, <1>32
     DEF Next, Responses, Frame, Http, Task, User

\* ... the plan of the update, ...
LEMMA PlanTypesStep == PlanTypes /\ HttpTypes /\ DiskTypes /\ [Next]_vars => PlanTypes'
<1> SUFFICES ASSUME PlanTypes, HttpTypes, DiskTypes, [Next]_vars PROVE PlanTypes'
  OBVIOUS
<1> USE DEF PlanTypes, vars, mainVars, checkVars, httpVars, zipVars, taskVars, planVars, diskVars,
      envVars, NoTask
<1>1. CASE OnDataLoaded
  BY <1>1, FilesAssumption DEF OnDataLoaded
<1>2. CASE DownloadEnds
  BY <1>2, FilesAssumption
     DEF DownloadEnds, ErrorOccured, CleanUp, RunTask, NothingHashed, Contents, NoHash
<1>3. CASE UpdateExtractionStatus
  <2>1. CASE ErrorOccured
    BY <1>3, <2>1, NothingHashedType, FilesAssumption
       DEF UpdateExtractionStatus, ErrorOccured, CleanUp
  <2>2. CASE ~ErrorOccured
    <3>1. hashed' = disk /\ target' \in known .. target
      BY <1>3, <2>2 DEF UpdateExtractionStatus
    <3>2. target' \in 0 .. Releases
      BY <3>1, FilesAssumption
    <3>3. known' = known /\ toCopy' = toCopy /\ toAsk' = toAsk /\ agreed' = agreed
      BY <1>3, <2>2 DEF UpdateExtractionStatus
    <3> QED
      BY <3>1, <3>2, <3>3 DEF DiskTypes
  <2> QED
    BY <2>1, <2>2
<1>4. CASE UpdateHashingStatus
  <2>1. CASE ErrorOccured
    BY <1>4, <2>1, NothingHashedType, FilesAssumption DEF UpdateHashingStatus, ErrorOccured, CleanUp
  <2>2. CASE ~ErrorOccured
    <3>1. /\ toCopy' \subseteq ToReplace(known, target, hashed)
          /\ toAsk' \subseteq ToReplace(known, target, hashed)
      BY <1>4, <2>2 DEF UpdateHashingStatus
    <3>2. ToReplace(known, target, hashed) \subseteq Files
      BY DEF ToReplace
    <3> QED
      BY <1>4, <2>2, <3>1, <3>2 DEF UpdateHashingStatus
  <2> QED
    BY <2>1, <2>2
<1>5. CASE UpdateInstallStatus
  BY <1>5, FilesAssumption
     DEF UpdateInstallStatus, ErrorOccured, CleanUp, NothingHashed, Contents, NoHash
<1>6. CASE CancelReturns
  BY <1>6, FilesAssumption DEF CancelReturns, ErrorOccured, CleanUp, NothingHashed, Contents, NoHash
<1>7. CASE ShutdownReturns
  BY <1>7, FilesAssumption
     DEF ShutdownReturns, ErrorOccured, CleanUp, NothingHashed, Contents, NoHash
<1>8. CASE Exit
  BY <1>8, FilesAssumption DEF Exit, Gone, NothingHashed, Contents, NoHash
<1>9. CASE TakeRequest
  BY <1>9, FilesAssumption DEF TakeRequest
<1>10. CASE TransferFails
  BY <1>10, FilesAssumption DEF TransferFails, Respond
<1>11. CASE ReleasesLoaded
  BY <1>11, FilesAssumption DEF ReleasesLoaded, Respond
<1>12. CASE WriteRefused
  BY <1>12, FilesAssumption DEF WriteRefused, Respond
<1>13. CASE WriteData
  BY <1>13, FilesAssumption DEF WriteData, Respond
<1>14. CASE TaskAborts
  BY <1>14, FilesAssumption DEF TaskAborts
<1>15. CASE TaskFails
  BY <1>15, FilesAssumption DEF TaskFails
<1>16. CASE Extracted
  BY <1>16, FilesAssumption DEF Extracted
<1>17. CASE Hashed
  BY <1>17, FilesAssumption DEF Hashed, DiskTypes, Contents, NoHash
<1>18. CASE CopyMetadata
  BY <1>18, FilesAssumption DEF CopyMetadata
<1>19. CASE Installed
  BY <1>19, FilesAssumption DEF Installed
<1>20. CASE TaskEnds
  BY <1>20, FilesAssumption DEF TaskEnds
<1>21. ASSUME NEW f \in Files, CopyBegins(f) PROVE PlanTypes'
  BY <1>21, FilesAssumption DEF CopyBegins
<1>22. ASSUME NEW f \in Files, CopyEnds(f) PROVE PlanTypes'
  BY <1>22, FilesAssumption DEF CopyEnds
<1>23. CASE CheckForUpdates
  BY <1>23, FilesAssumption DEF CheckForUpdates
<1>24. CASE StartUpdate
  BY <1>24, FilesAssumption DEF StartUpdate, HttpTypes, DiskTypes
<1>25. CASE CancelInstallation
  <2>1. CASE ErrorOccured
    BY <1>25, <2>1, NothingHashedType, FilesAssumption DEF CancelInstallation, ErrorOccured, CleanUp
  <2>2. CASE ~ErrorOccured
    BY <1>25, <2>2 DEF CancelInstallation
  <2> QED
    BY <2>1, <2>2
<1>26. CASE Shutdown
  BY <1>26, FilesAssumption DEF Shutdown, ErrorOccured, CleanUp, NothingHashed, Contents, NoHash
<1>27. ASSUME NEW f \in Files, EditFile(f) PROVE PlanTypes'
  BY <1>27, FilesAssumption DEF EditFile
<1>28. ASSUME NEW f \in Files, NEW replace \in BOOLEAN, NEW forAll \in BOOLEAN,
              ShowNextReplaceDialog(f, replace, forAll)
       PROVE  PlanTypes'
  BY <1>28, FilesAssumption DEF ShowNextReplaceDialog, BeginFileUpdating, RunTask
<1>29. CASE Publish
  BY <1>29, FilesAssumption DEF Publish
<1>30. CASE Crash
  BY <1>30, FilesAssumption DEF Crash, Gone, NothingHashed, Contents, NoHash
<1>31. CASE Launch
  BY <1>31, FilesAssumption DEF Launch
<1>32. CASE UNCHANGED vars
  BY <1>32
<1> HIDE DEF PlanTypes, vars, mainVars, checkVars, httpVars, zipVars, taskVars, planVars, diskVars,
      envVars, NoTask
<1>q. QED
  BY <1>1, <1>2, <1>3, <1>4, <1>5, <1>6, <1>7, <1>8, <1>9, <1>10, <1>11, <1>12, <1>13, <1>14, <1>15,
     <1>16, <1>17, <1>18, <1>19, <1>20, <1>21, <1>22, <1>23, <1>24, <1>25, <1>26, <1>27, <1>28,
     <1>29, <1>30, <1>31, <1>32
     DEF Next, Responses, Frame, Http, Task, User

\* ... the disk, on which files are only open for writing while the task installs, ...
LEMMA DiskTypesStep ==
  DiskTypes /\ PlanTypes /\ InstallerTypes /\ StatusInv /\ [Next]_vars
    => DiskTypes'
<1> SUFFICES ASSUME DiskTypes, PlanTypes, InstallerTypes, StatusInv, [Next]_vars PROVE DiskTypes'
  OBVIOUS
<1> USE DEF DiskTypes, Running, vars, mainVars, checkVars, httpVars, zipVars, taskVars, planVars,
      diskVars, envVars, NoTask
<1>1. CASE OnDataLoaded
  BY <1>1 DEF OnDataLoaded
<1>2. CASE DownloadEnds
  BY <1>2 DEF DownloadEnds, ErrorOccured, CleanUp, RunTask, StatusInv
<1>3. CASE UpdateExtractionStatus
  BY <1>3 DEF UpdateExtractionStatus, ErrorOccured, CleanUp, RunTask
<1>4. CASE UpdateHashingStatus
  BY <1>4 DEF UpdateHashingStatus, ErrorOccured, CleanUp, RunTask, BeginFileUpdating
<1>5. CASE UpdateInstallStatus
  BY <1>5 DEF UpdateInstallStatus, ErrorOccured, CleanUp
<1>6. CASE CancelReturns
  BY <1>6 DEF CancelReturns, ErrorOccured, CleanUp
<1>7. CASE ShutdownReturns
  BY <1>7 DEF ShutdownReturns, ErrorOccured, CleanUp
<1>8. CASE Exit
  BY <1>8 DEF Exit, Gone
<1>9. CASE TakeRequest
  BY <1>9 DEF TakeRequest
<1>10. CASE TransferFails
  BY <1>10 DEF TransferFails, Respond
<1>11. CASE ReleasesLoaded
  BY <1>11 DEF ReleasesLoaded, Respond
<1>12. CASE WriteRefused
  BY <1>12 DEF WriteRefused, Respond
<1>13. CASE WriteData
  BY <1>13 DEF WriteData, Respond
<1>14. CASE TaskAborts
  BY <1>14 DEF TaskAborts
<1>15. CASE TaskFails
  BY <1>15 DEF TaskFails
<1>16. CASE Extracted
  BY <1>16 DEF Extracted
<1>17. CASE Hashed
  BY <1>17 DEF Hashed
<1>18. CASE CopyMetadata
  BY <1>18 DEF CopyMetadata, PlanTypes
<1>19. CASE Installed
  BY <1>19 DEF Installed
<1>20. CASE TaskEnds
  BY <1>20 DEF TaskEnds
<1>21. ASSUME NEW f \in Files, CopyBegins(f) PROVE DiskTypes'
  BY <1>21, FilesAssumption DEF CopyBegins, Contents, NoHash, Torn
<1>22. ASSUME NEW f \in Files, CopyEnds(f) PROVE DiskTypes'
  BY <1>22, FilesAssumption, HashType DEF CopyEnds, PlanTypes, Contents, Hashes
<1>23. CASE CheckForUpdates
  BY <1>23 DEF CheckForUpdates
<1>24. CASE StartUpdate
  BY <1>24 DEF StartUpdate
<1>25. CASE CancelInstallation
  BY <1>25 DEF CancelInstallation, ErrorOccured, CleanUp
<1>26. CASE Shutdown
  BY <1>26 DEF Shutdown, ErrorOccured, CleanUp
<1>27. ASSUME NEW f \in Files, EditFile(f) PROVE DiskTypes'
  BY <1>27, FilesAssumption DEF EditFile, Contents, NoHash, Edited
<1>28. ASSUME NEW f \in Files, NEW replace \in BOOLEAN, NEW forAll \in BOOLEAN,
              ShowNextReplaceDialog(f, replace, forAll)
       PROVE  DiskTypes'
  BY <1>28 DEF ShowNextReplaceDialog, BeginFileUpdating, RunTask, StatusInv
<1>29. CASE Publish
  BY <1>29 DEF Publish
<1>30. CASE Crash
  BY <1>30 DEF Crash, Gone
<1>31. CASE Launch
  BY <1>31 DEF Launch
<1>32. CASE UNCHANGED vars
  BY <1>32
<1> HIDE DEF DiskTypes, Running, vars, mainVars, checkVars, httpVars, zipVars, taskVars, planVars,
      diskVars, envVars, NoTask
<1>q. QED
  BY <1>1, <1>2, <1>3, <1>4, <1>5, <1>6, <1>7, <1>8, <1>9, <1>10, <1>11, <1>12, <1>13, <1>14, <1>15,
     <1>16, <1>17, <1>18, <1>19, <1>20, <1>21, <1>22, <1>23, <1>24, <1>25, <1>26, <1>27, <1>28,
     <1>29, <1>30, <1>31, <1>32
     DEF Next, Responses, Frame, Http, Task, User

\* ... and the counters.
LEMMA BoundTypesStep == BoundTypes /\ [Next]_vars => BoundTypes'
<1> SUFFICES ASSUME BoundTypes, [Next]_vars PROVE BoundTypes'
  OBVIOUS
<1> USE DEF BoundTypes, vars, mainVars, checkVars, httpVars, zipVars, taskVars, planVars, diskVars,
      envVars, NoTask
<1>1. CASE OnDataLoaded
  BY <1>1 DEF OnDataLoaded
<1>2. CASE DownloadEnds
  BY <1>2 DEF DownloadEnds, ErrorOccured, CleanUp, RunTask
<1>3. CASE UpdateExtractionStatus
  BY <1>3 DEF UpdateExtractionStatus, ErrorOccured, CleanUp, RunTask
<1>4. CASE UpdateHashingStatus
  BY <1>4 DEF UpdateHashingStatus, ErrorOccured, CleanUp, RunTask, BeginFileUpdating
<1>5. CASE UpdateInstallStatus
  BY <1>5 DEF UpdateInstallStatus, ErrorOccured, CleanUp
<1>6. CASE CancelReturns
  BY <1>6 DEF CancelReturns, ErrorOccured, CleanUp
<1>7. CASE ShutdownReturns
  BY <1>7 DEF ShutdownReturns, ErrorOccured, CleanUp
<1>8. CASE Exit
  BY <1>8 DEF Exit, Gone
<1>9. CASE TakeRequest
  BY <1>9 DEF TakeRequest
<1>10. CASE TransferFails
  BY <1>10 DEF TransferFails, Respond
<1>11. CASE ReleasesLoaded
  BY <1>11 DEF ReleasesLoaded, Respond
<1>12. CASE WriteRefused
  BY <1>12 DEF WriteRefused, Respond
<1>13. CASE WriteData
  BY <1>13 DEF WriteData, Respond
<1>14. CASE TaskAborts
  BY <1>14 DEF TaskAborts
<1>15. CASE TaskFails
  BY <1>15 DEF TaskFails
<1>16. CASE Extracted
  BY <1>16 DEF Extracted
<1>17. CASE Hashed
  BY <1>17 DEF Hashed
<1>18. CASE CopyMetadata
  BY <1>18 DEF CopyMetadata
<1>19. CASE Installed
  BY <1>19 DEF Installed
<1>20. CASE TaskEnds
  BY <1>20 DEF TaskEnds
<1>21. ASSUME NEW f \in Files, CopyBegins(f) PROVE BoundTypes'
  BY <1>21 DEF CopyBegins
<1>22. ASSUME NEW f \in Files, CopyEnds(f) PROVE BoundTypes'
  BY <1>22 DEF CopyEnds
<1>23. CASE CheckForUpdates
  BY <1>23 DEF CheckForUpdates
<1>24. CASE StartUpdate
  <2>1. mixed' = mixed \/ mixed' = (mixed \/ InHttp("download"))
    BY <1>24 DEF StartUpdate
  <2>2. mixed' \in BOOLEAN
    BY <2>1, Zenon
  <2> QED
    BY <1>24, <2>2, UpdaterAssumption DEF StartUpdate
<1>25. CASE CancelInstallation
  BY <1>25 DEF CancelInstallation, ErrorOccured, CleanUp
<1>26. CASE Shutdown
  BY <1>26 DEF Shutdown, ErrorOccured, CleanUp
<1>27. ASSUME NEW f \in Files, EditFile(f) PROVE BoundTypes'
  BY <1>27, UpdaterAssumption DEF EditFile
<1>28. ASSUME NEW f \in Files, NEW replace \in BOOLEAN, NEW forAll \in BOOLEAN,
              ShowNextReplaceDialog(f, replace, forAll)
       PROVE  BoundTypes'
  BY <1>28 DEF ShowNextReplaceDialog, BeginFileUpdating, RunTask
<1>29. CASE Publish
  BY <1>29 DEF Publish
<1>30. CASE Crash
  BY <1>30 DEF Crash, Gone
<1>31. CASE Launch
  BY <1>31, UpdaterAssumption DEF Launch
<1>32. CASE UNCHANGED vars
  BY <1>32
<1> HIDE DEF BoundTypes, vars, mainVars, checkVars, httpVars, zipVars, taskVars, planVars, diskVars,
      envVars, NoTask
<1>q. QED
  BY <1>1, <1>2, <1>3, <1>4, <1>5, <1>6, <1>7, <1>8, <1>9, <1>10, <1>11, <1>12, <1>13, <1>14, <1>15,
     <1>16, <1>17, <1>18, <1>19, <1>20, <1>21, <1>22, <1>23, <1>24, <1>25, <1>26, <1>27, <1>28,
     <1>29, <1>30, <1>31, <1>32
     DEF Next, Responses, Frame, Http, Task, User

\* Every step keeps the state of the installer in order, ...
LEMMA StatusStep == InstallerTypes /\ StatusInv /\ [Next]_vars => StatusInv'
<1> SUFFICES ASSUME InstallerTypes, StatusInv, [Next]_vars PROVE StatusInv'
  OBVIOUS
<1> USE DEF InstallerTypes, StatusInv, Running, vars, mainVars, checkVars, httpVars, zipVars,
      taskVars, planVars, diskVars, envVars, NoTask
<1>1. CASE OnDataLoaded
  BY <1>1 DEF OnDataLoaded
<1>2. CASE DownloadEnds
  BY <1>2 DEF DownloadEnds, ErrorOccured, CleanUp, RunTask
<1>3. CASE UpdateExtractionStatus
  <2>1. CASE ErrorOccured
    BY <1>3, <2>1 DEF UpdateExtractionStatus, ErrorOccured, CleanUp
  <2>2. CASE ~ErrorOccured
    <3>1. /\ main = "frame" /\ inProcess /\ status = "Extracting" /\ ~Running /\ ok
          /\ status' = "Hashing" /\ task' = "hash" /\ stage' = "run" /\ ok' = FALSE
          /\ main' = main /\ abortRequested' = abortRequested /\ inProcess' = inProcess
          /\ zipOpen' = zipOpen /\ zip' = zip /\ toCopy' = toCopy
      BY <1>3, <2>2 DEF UpdateExtractionStatus, RunTask
    <3>2. toCopy = {}
      BY <3>1
    <3> QED
      BY <3>1, <3>2
  <2> QED
    BY <2>1, <2>2
<1>4. CASE UpdateHashingStatus
  <2>1. CASE ErrorOccured
    BY <1>4, <2>1 DEF UpdateHashingStatus, ErrorOccured, CleanUp
  <2>2. CASE ~ErrorOccured
    <3>1. /\ main' = main /\ abortRequested' = abortRequested /\ inProcess' = inProcess
          /\ zipOpen' = zipOpen /\ zip' = zip /\ main = "frame" /\ inProcess /\ status = "Hashing"
          /\ ~Running
      BY <1>4, <2>2 DEF UpdateHashingStatus
    <3>2. \/ status' = "Installing" /\ task' = "install" /\ stage' = "meta"
          \/ status' = "Confirming" /\ task' = "none" /\ stage' = "ready"
      BY <1>4, <2>2 DEF UpdateHashingStatus, BeginFileUpdating, RunTask
    <3> QED
      BY <3>1, <3>2
  <2> QED
    BY <2>1, <2>2
<1>5. CASE UpdateInstallStatus
  BY <1>5 DEF UpdateInstallStatus, ErrorOccured, CleanUp
<1>6. CASE CancelReturns
  BY <1>6 DEF CancelReturns, ErrorOccured, CleanUp
<1>7. CASE ShutdownReturns
  BY <1>7 DEF ShutdownReturns, ErrorOccured, CleanUp
<1>8. CASE Exit
  BY <1>8 DEF Exit, Gone
<1>9. CASE TakeRequest
  BY <1>9 DEF TakeRequest
<1>10. CASE TransferFails
  BY <1>10 DEF TransferFails, Respond
<1>11. CASE ReleasesLoaded
  BY <1>11 DEF ReleasesLoaded, Respond
<1>12. CASE WriteRefused
  BY <1>12 DEF WriteRefused, Respond
<1>13. CASE WriteData
  BY <1>13 DEF WriteData, Respond
<1>14. CASE TaskAborts
  BY <1>14 DEF TaskAborts
<1>15. CASE TaskFails
  BY <1>15 DEF TaskFails
<1>16. CASE Extracted
  BY <1>16 DEF Extracted
<1>17. CASE Hashed
  BY <1>17 DEF Hashed
<1>18. CASE CopyMetadata
  BY <1>18 DEF CopyMetadata
<1>19. CASE Installed
  BY <1>19 DEF Installed
<1>20. CASE TaskEnds
  BY <1>20 DEF TaskEnds
<1>21. ASSUME NEW f \in Files, CopyBegins(f) PROVE StatusInv'
  BY <1>21 DEF CopyBegins
<1>22. ASSUME NEW f \in Files, CopyEnds(f) PROVE StatusInv'
  BY <1>22 DEF CopyEnds
<1>23. CASE CheckForUpdates
  BY <1>23 DEF CheckForUpdates
<1>24. CASE StartUpdate
  BY <1>24 DEF StartUpdate
<1>25. CASE CancelInstallation
  <2>1. CASE status \in {"Downloading", "Confirming"}
    <3>1. /\ status' = "None" /\ inProcess' = FALSE /\ toCopy' = {} /\ zip' = "empty"
          /\ zipOpen' = FALSE /\ main' = main /\ abortRequested' = abortRequested
          /\ task' = task /\ stage' = stage /\ ok' = ok /\ main = "frame"
      BY <1>25, <2>1 DEF CancelInstallation, ErrorOccured, CleanUp
    <3> QED
      BY <2>1, <3>1
  <2>2. CASE status \notin {"Downloading", "Confirming"}
    <3>1. /\ status \in {"Extracting", "Hashing"} /\ abortRequested' = TRUE /\ main' = "cancel"
          /\ status' = status /\ inProcess' = inProcess /\ toCopy' = toCopy /\ zip' = zip
          /\ zipOpen' = zipOpen /\ task' = task /\ stage' = stage /\ ok' = ok /\ inProcess
      BY <1>25, <2>2 DEF CancelInstallation
    <3> QED
      BY <2>2, <3>1
  <2> QED
    BY <2>1, <2>2
<1>26. CASE Shutdown
  BY <1>26 DEF Shutdown, ErrorOccured, CleanUp
<1>27. ASSUME NEW f \in Files, EditFile(f) PROVE StatusInv'
  BY <1>27 DEF EditFile
<1>28. ASSUME NEW f \in Files, NEW replace \in BOOLEAN, NEW forAll \in BOOLEAN,
              ShowNextReplaceDialog(f, replace, forAll)
       PROVE  StatusInv'
  BY <1>28 DEF ShowNextReplaceDialog, BeginFileUpdating, RunTask
<1>29. CASE Publish
  BY <1>29 DEF Publish
<1>30. CASE Crash
  BY <1>30 DEF Crash, Gone
<1>31. CASE Launch
  BY <1>31 DEF Launch
<1>32. CASE UNCHANGED vars
  BY <1>32
<1> HIDE DEF InstallerTypes, StatusInv, Running, vars, mainVars, checkVars, httpVars, zipVars,
      taskVars, planVars, diskVars, envVars, NoTask
<1>q. QED
  BY <1>1, <1>2, <1>3, <1>4, <1>5, <1>6, <1>7, <1>8, <1>9, <1>10, <1>11, <1>12, <1>13, <1>14, <1>15,
     <1>16, <1>17, <1>18, <1>19, <1>20, <1>21, <1>22, <1>23, <1>24, <1>25, <1>26, <1>27, <1>28,
     <1>29, <1>30, <1>31, <1>32
     DEF Next, Responses, Frame, Http, Task, User

\* The first state is in order, and well typed.
LEMMA InOrderInit == Init => TypeOK /\ StatusInv
<1> SUFFICES ASSUME Init PROVE TypeOK /\ StatusInv
  OBVIOUS
<1>1. InstallerTypes /\ StatusInv
  BY DEF Init, InstallerTypes, StatusInv, Running
<1>2. HttpTypes
  <2>1. queue \in Seq(Requests) /\ responses \in Seq(Response)
    BY DEF Init
  <2> QED
    BY <2>1, FilesAssumption DEF Init, HttpTypes
<1>3. PlanTypes /\ DiskTypes
  <2>1. disk \in [Files -> Contents]
    BY FilesAssumption, HashType DEF Init, Contents, Hashes
  <2> QED
    BY <2>1, NothingHashedType, FilesAssumption DEF Init, PlanTypes, DiskTypes
<1>4. BoundTypes
  BY FilesAssumption, UpdaterAssumption DEF Init, BoundTypes
<1> QED
  BY <1>1, <1>2, <1>3, <1>4 DEF TypeOK

\* ... and well typed.
LEMMA InOrderStep == TypeOK /\ StatusInv /\ [Next]_vars => TypeOK' /\ StatusInv'
  BY InstallerTypesStep, HttpTypesStep, PlanTypesStep, DiskTypesStep, BoundTypesStep, StatusStep
     DEF TypeOK

\* All variables keep their types, and a file is only open for writing while the task that
\* installs is at it: whatever the user, the network and the other thread do.
THEOREM TypeCorrect == Spec => [](TypeOK /\ StatusInv)
<1>1. Init => TypeOK /\ StatusInv
  BY InOrderInit
<1>2. (TypeOK /\ StatusInv) /\ [Next]_vars => (TypeOK /\ StatusInv)'
  BY InOrderStep
<1> QED
  BY <1>1, <1>2, PTL DEF Spec

-----------------------------------------------------------------------------
(* One download at a time, as long as none is left over from an update before *)

InQueue == \E i \in 1 .. Len(queue) : queue[i] = "download"
InTransfer == current \in {"download", "rest"}
InResponses == \E i \in 1 .. Len(responses) : responses[i].of = "download"

OneDownload ==
  /\ \A i, j \in 1 .. Len(queue) : queue[i] = "download" /\ queue[j] = "download" => i = j
  /\ \A i, j \in 1 .. Len(responses) :
       responses[i].of = "download" /\ responses[j].of = "download" => i = j
  /\ ~(InQueue /\ InTransfer) /\ ~(InQueue /\ InResponses) /\ ~(InTransfer /\ InResponses)

InAny == InQueue \/ InTransfer \/ InResponses

OwnDownload ==
  ~mixed => /\ OneDownload
            /\ inProcess /\ InAny => status = "Downloading"

\* The request at work was one in the queue.
LEMMA TakeKeepsOne ==
  ASSUME HttpTypes, OneDownload, TakeRequest
  PROVE  OneDownload' /\ (InAny' => InAny)
<1>1. /\ current = "none" /\ queue # <<>> /\ current' = Head(queue) /\ queue' = Tail(queue)
      /\ responses' = responses
  BY DEF TakeRequest
<1>2. /\ Head(queue) = queue[1] /\ Len(queue) \in Nat /\ Len(queue) >= 1
      /\ Len(queue') = Len(queue) - 1
      /\ \A i \in 1 .. Len(queue') : queue'[i] = queue[i + 1]
  BY <1>1, TailOfSeq DEF HttpTypes
<1>3. InTransfer' => queue[1] = "download" /\ InQueue
  BY <1>1, <1>2 DEF InTransfer, InQueue, HttpTypes, Requests
<1>4. InQueue' => \E i \in 2 .. Len(queue) : queue[i] = "download"
  BY <1>2 DEF InQueue
<1>5. InResponses' <=> InResponses
  BY <1>1 DEF InResponses
<1>6. InAny' => InAny
  BY <1>3, <1>4, <1>5 DEF InAny, InQueue
<1>7. ~(InQueue' /\ InTransfer')
  BY <1>2, <1>3, <1>4 DEF OneDownload
<1>8. ~(InQueue' /\ InResponses') /\ ~(InTransfer' /\ InResponses')
  BY <1>3, <1>4, <1>5 DEF OneDownload, InQueue
<1>9. \A i, j \in 1 .. Len(queue') : queue'[i] = "download" /\ queue'[j] = "download" => i = j
  <2> SUFFICES ASSUME NEW i \in 1 .. Len(queue'), NEW j \in 1 .. Len(queue'),
                      queue'[i] = "download", queue'[j] = "download"
               PROVE  i = j
    OBVIOUS
  <2>1. queue[i + 1] = "download" /\ queue[j + 1] = "download"
    BY <1>2
  <2>2. i + 1 \in 1 .. Len(queue) /\ j + 1 \in 1 .. Len(queue)
    BY <1>2
  <2> QED
    BY <2>1, <2>2 DEF OneDownload
<1> QED
  BY <1>1, <1>6, <1>7, <1>8, <1>9 DEF OneDownload

\* The response is to the request that was at work.
LEMMA RespondKeepsOne ==
  ASSUME HttpTypes, OneDownload, current # "none", NEW b \in BOOLEAN, Respond(b), queue' = queue
  PROVE  OneDownload' /\ (InAny' => InAny)
<1> DEFINE e == [of |-> IF current = "check" THEN "check" ELSE "download",
                 success |-> b, release |-> latest]
<1>1. current' = "none" /\ responses' = Append(responses, e)
  BY DEF Respond
<1>2. e \in Response /\ (e.of = "download" => InTransfer)
  BY DEF HttpTypes, Response, Requests, InTransfer
<1> HIDE DEF e
<1>3. /\ Len(responses) \in Nat /\ Len(responses') = Len(responses) + 1
      /\ \A i \in 1 .. Len(responses) : responses'[i] = responses[i]
      /\ responses'[Len(responses) + 1] = e
  BY <1>1, <1>2, AppendToSeq DEF HttpTypes
<1>4. ~InTransfer' /\ (InQueue' <=> InQueue)
  BY <1>1 DEF InTransfer, InQueue
<1>5. \A i \in 1 .. Len(responses') :
        responses'[i].of = "download" => \/ i \in 1 .. Len(responses) /\ responses[i].of = "download"
                                         \/ i = Len(responses) + 1 /\ InTransfer
  BY <1>2, <1>3
<1>6. InResponses' => InResponses \/ InTransfer
  BY <1>5 DEF InResponses
<1>7. \A i, j \in 1 .. Len(responses') :
        responses'[i].of = "download" /\ responses'[j].of = "download" => i = j
  BY <1>5 DEF OneDownload, InResponses
<1>8. \A i, j \in 1 .. Len(queue') : queue'[i] = "download" /\ queue'[j] = "download" => i = j
  BY DEF OneDownload
<1>9. ~(InQueue' /\ InResponses')
  BY <1>4, <1>6 DEF OneDownload
<1>10. InAny' => InAny
  BY <1>4, <1>6 DEF InAny
<1> QED
  BY <1>4, <1>7, <1>8, <1>9, <1>10 DEF OneDownload

\* A response that was handed over is gone; if it was the download's, there is none left.
LEMMA ResponseKeepsOne ==
  ASSUME HttpTypes, OneDownload, responses # <<>>, responses' = Tail(responses),
         queue' = queue, current' = current
  PROVE  /\ OneDownload' /\ (InAny' => InAny)
         /\ Head(responses).of = "download" => ~InAny'
<1>1. /\ Head(responses) = responses[1] /\ Len(responses) \in Nat /\ Len(responses) >= 1
      /\ Len(responses') = Len(responses) - 1
      /\ \A i \in 1 .. Len(responses') : responses'[i] = responses[i + 1]
  BY TailOfSeq DEF HttpTypes
<1>2. (InTransfer' <=> InTransfer) /\ (InQueue' <=> InQueue)
  BY DEF InTransfer, InQueue
<1>3. \A i \in 1 .. Len(responses') :
        responses'[i].of = "download" => i + 1 \in 1 .. Len(responses)
                                         /\ responses[i + 1].of = "download"
  BY <1>1
<1>4. InResponses' => InResponses
  BY <1>3 DEF InResponses
<1>5. \A i, j \in 1 .. Len(responses') :
        responses'[i].of = "download" /\ responses'[j].of = "download" => i = j
  <2> SUFFICES ASSUME NEW i \in 1 .. Len(responses'), NEW j \in 1 .. Len(responses'),
                      responses'[i].of = "download", responses'[j].of = "download"
               PROVE  i = j
    OBVIOUS
  <2>1. /\ i + 1 \in 1 .. Len(responses) /\ responses[i + 1].of = "download"
        /\ j + 1 \in 1 .. Len(responses) /\ responses[j + 1].of = "download"
    BY <1>3
  <2> QED
    BY <2>1 DEF OneDownload
<1>6. ASSUME Head(responses).of = "download" PROVE ~InAny'
  <2>1. InResponses
    BY <1>1, <1>6 DEF InResponses
  <2>2. ~InResponses'
    BY <1>1, <1>3, <1>6 DEF OneDownload, InResponses
  <2> QED
    BY <1>2, <2>1, <2>2 DEF OneDownload, InAny
<1>7. \A i, j \in 1 .. Len(queue') : queue'[i] = "download" /\ queue'[j] = "download" => i = j
  BY DEF OneDownload
<1>8. InAny' => InAny
  BY <1>2, <1>4 DEF InAny
<1> QED
  BY <1>2, <1>4, <1>5, <1>6, <1>7, <1>8 DEF OneDownload

\* A request is put behind the others.
LEMMA RequestKeepsOne ==
  ASSUME HttpTypes, OneDownload, NEW k \in Requests, queue' = Append(queue, k),
         current' = current, responses' = responses, k = "download" => ~InAny
  PROVE  OneDownload' /\ (k = "check" /\ InAny' => InAny)
<1>1. /\ Len(queue) \in Nat /\ Len(queue') = Len(queue) + 1
      /\ \A i \in 1 .. Len(queue) : queue'[i] = queue[i]
      /\ queue'[Len(queue) + 1] = k
  BY AppendToSeq DEF HttpTypes
<1>2. (InTransfer' <=> InTransfer) /\ (InResponses' <=> InResponses)
  BY DEF InTransfer, InResponses
<1>3. \A i \in 1 .. Len(queue') :
        queue'[i] = "download" => \/ i \in 1 .. Len(queue) /\ queue[i] = "download"
                                  \/ i = Len(queue) + 1 /\ k = "download"
  BY <1>1
<1>4. InQueue' => InQueue \/ k = "download"
  BY <1>3 DEF InQueue
<1>5. \A i, j \in 1 .. Len(queue') : queue'[i] = "download" /\ queue'[j] = "download" => i = j
  BY <1>3 DEF OneDownload, InAny, InQueue
<1>6. \A i, j \in 1 .. Len(responses') :
        responses'[i].of = "download" /\ responses'[j].of = "download" => i = j
  BY DEF OneDownload
<1>7. k = "check" /\ InAny' => InAny
  BY <1>2, <1>4 DEF InAny
<1>8. /\ ~(InQueue' /\ InTransfer') /\ ~(InQueue' /\ InResponses')
      /\ ~(InTransfer' /\ InResponses')
  BY <1>2, <1>4 DEF OneDownload, InAny
<1> QED
  BY <1>5, <1>6, <1>7, <1>8 DEF OneDownload

\* Nothing is in the HTTP client of a game that is not running.
LEMMA GoneKeepsOne == ASSUME Gone PROVE OneDownload' /\ ~InAny'
  BY DEF Gone, OneDownload, InAny, InQueue, InTransfer, InResponses

\* Nothing happens in the HTTP client.
LEMMA QuietKeepsOne ==
  ASSUME OneDownload, UNCHANGED httpVars
  PROVE  OneDownload' /\ (InAny' <=> InAny)
  BY DEF httpVars, OneDownload, InAny, InQueue, InTransfer, InResponses

\* The two ways to say that a download is with the HTTP client
LEMMA InHttpIsInAny == InHttp("download") <=> InAny
  BY DEF InHttp, InAny, InQueue, InTransfer, InResponses

\* There is at most one download in the HTTP client, and it is that of the update in process.
LEMMA OwnDownloadStep == HttpTypes /\ StatusInv /\ OwnDownload /\ [Next]_vars => OwnDownload'
<1> SUFFICES ASSUME HttpTypes, StatusInv, OwnDownload, [Next]_vars PROVE OwnDownload'
  OBVIOUS
<1> USE DEF OwnDownload, vars, mainVars, checkVars, zipVars, taskVars, planVars, diskVars, envVars,
      StatusInv, Running
<1>1. CASE OnDataLoaded
  BY <1>1, ResponseKeepsOne DEF OnDataLoaded
<1>2. CASE DownloadEnds
  BY <1>2, ResponseKeepsOne DEF DownloadEnds
<1>3. CASE UpdateExtractionStatus
  BY <1>3, QuietKeepsOne DEF UpdateExtractionStatus, ErrorOccured, CleanUp, RunTask
<1>4. CASE UpdateHashingStatus
  BY <1>4, QuietKeepsOne DEF UpdateHashingStatus, ErrorOccured, CleanUp, RunTask, BeginFileUpdating
<1>5. CASE UpdateInstallStatus
  BY <1>5, QuietKeepsOne DEF UpdateInstallStatus, ErrorOccured, CleanUp
<1>6. CASE CancelReturns
  BY <1>6, QuietKeepsOne DEF CancelReturns, ErrorOccured, CleanUp
<1>7. CASE ShutdownReturns
  BY <1>7, QuietKeepsOne DEF ShutdownReturns, ErrorOccured, CleanUp
<1>8. CASE Exit
  BY <1>8, GoneKeepsOne DEF Exit
<1>9. CASE TakeRequest
  BY <1>9, TakeKeepsOne DEF TakeRequest
<1>10. CASE TransferFails
  BY <1>10, RespondKeepsOne DEF TransferFails
<1>11. CASE ReleasesLoaded
  BY <1>11, RespondKeepsOne DEF ReleasesLoaded
<1>12. CASE WriteRefused
  BY <1>12, RespondKeepsOne DEF WriteRefused
<1>13. CASE WriteData
  <2>1. CASE current' = "rest"
    BY <1>13, <2>1 DEF WriteData, Respond, OneDownload, InAny, InQueue, InTransfer, InResponses
  <2>2. CASE current' # "rest"
    <3>1. Respond(TRUE) /\ queue' = queue /\ current # "none"
      BY <1>13, <2>2 DEF WriteData
    <3>2. ~mixed => OneDownload' /\ (InAny' => InAny)
      BY <3>1, RespondKeepsOne
    <3> QED
      BY <1>13, <3>2 DEF WriteData
  <2> QED
    BY <2>1, <2>2
<1>14. CASE TaskAborts
  BY <1>14, QuietKeepsOne DEF TaskAborts
<1>15. CASE TaskFails
  BY <1>15, QuietKeepsOne DEF TaskFails
<1>16. CASE Extracted
  BY <1>16, QuietKeepsOne DEF Extracted
<1>17. CASE Hashed
  BY <1>17, QuietKeepsOne DEF Hashed
<1>18. CASE CopyMetadata
  BY <1>18, QuietKeepsOne DEF CopyMetadata
<1>19. CASE Installed
  BY <1>19, QuietKeepsOne DEF Installed
<1>20. CASE TaskEnds
  BY <1>20, QuietKeepsOne DEF TaskEnds
<1>21. ASSUME NEW f \in Files, CopyBegins(f) PROVE OwnDownload'
  BY <1>21, QuietKeepsOne DEF CopyBegins
<1>22. ASSUME NEW f \in Files, CopyEnds(f) PROVE OwnDownload'
  BY <1>22, QuietKeepsOne DEF CopyEnds
<1>23. CASE CheckForUpdates
  BY <1>23, RequestKeepsOne DEF CheckForUpdates, Requests
<1>24. CASE StartUpdate
  <2>1. CASE queue' = queue
    <3>1. UNCHANGED httpVars /\ mixed' = mixed /\ inProcess' = inProcess /\ status' = status
      BY <1>24, <2>1, AppendToSeq DEF StartUpdate, httpVars, HttpTypes, Requests
    <3> QED
      BY <3>1, QuietKeepsOne
  <2>2. CASE queue' # queue
    <3>1. /\ queue' = Append(queue, "download") /\ mixed' = (mixed \/ InHttp("download"))
          /\ status' = "Downloading" /\ current' = current /\ responses' = responses
      BY <1>24, <2>2 DEF StartUpdate
    <3>2. ~mixed' => ~mixed /\ ~InAny
      BY <3>1, InHttpIsInAny, Zenon
    <3>3. ~mixed' => OneDownload'
      BY <3>1, <3>2, RequestKeepsOne DEF Requests
    <3> QED
      BY <3>1, <3>3
  <2> QED
    BY <2>1, <2>2
<1>25. CASE CancelInstallation
  BY <1>25, QuietKeepsOne DEF CancelInstallation, ErrorOccured, CleanUp
<1>26. CASE Shutdown
  BY <1>26, QuietKeepsOne DEF Shutdown, ErrorOccured, CleanUp
<1>27. ASSUME NEW f \in Files, EditFile(f) PROVE OwnDownload'
  BY <1>27, QuietKeepsOne DEF EditFile
<1>28. ASSUME NEW f \in Files, NEW replace \in BOOLEAN, NEW forAll \in BOOLEAN,
              ShowNextReplaceDialog(f, replace, forAll)
       PROVE  OwnDownload'
  BY <1>28, QuietKeepsOne DEF ShowNextReplaceDialog, BeginFileUpdating, RunTask
<1>29. CASE Publish
  BY <1>29, QuietKeepsOne DEF Publish
<1>30. CASE Crash
  BY <1>30, GoneKeepsOne DEF Crash
<1>31. CASE Launch
  BY <1>31, QuietKeepsOne DEF Launch
<1>32. CASE UNCHANGED vars
  BY <1>32, QuietKeepsOne
<1> HIDE DEF OwnDownload, vars, mainVars, checkVars, zipVars, taskVars, planVars, diskVars, envVars,
      StatusInv, Running
<1>q. QED
  BY <1>1, <1>2, <1>3, <1>4, <1>5, <1>6, <1>7, <1>8, <1>9, <1>10, <1>11, <1>12, <1>13, <1>14, <1>15,
     <1>16, <1>17, <1>18, <1>19, <1>20, <1>21, <1>22, <1>23, <1>24, <1>25, <1>26, <1>27, <1>28,
     <1>29, <1>30, <1>31, <1>32
     DEF Next, Responses, Frame, Http, Task, User

\* There is none at first.
LEMMA OwnDownloadInit == Init => OwnDownload
  BY DEF Init, OwnDownload, OneDownload, InAny, InQueue, InTransfer, InResponses

-----------------------------------------------------------------------------
(* The task and the quit command *)

\* Without a left-over download, nobody cleans up under a task
OwnTask ==
  ~mixed => TaskOverWhenAnswered /\ TaskHasItsUpdate /\ QuitLockedWhileInstalling

\* A download that ends, or writes, is in the HTTP client.
LEMMA DownloadIsInHttp ==
  /\ current \in {"download", "rest"} => InAny
  /\ HttpTypes /\ responses # <<>> /\ Head(responses).of = "download" => InAny
<1>1. HttpTypes /\ responses # <<>> =>
        /\ Head(responses) = responses[1] /\ Len(responses) \in Nat
        /\ Len(Tail(responses)) = Len(responses) - 1 /\ Len(Tail(responses)) \in Nat
  BY TailOfSeq DEF HttpTypes
<1> QED
  BY <1>1 DEF InAny, InTransfer, InResponses

\* Every step keeps the task and the quit command with the update.
LEMMA OwnTaskStep ==
  InstallerTypes /\ HttpTypes /\ StatusInv /\ OwnDownload /\ OwnTask /\ [Next]_vars
    => OwnTask'
<1> SUFFICES ASSUME InstallerTypes, HttpTypes, StatusInv, OwnDownload, OwnTask, [Next]_vars
             PROVE  OwnTask'
  OBVIOUS
<1> USE DEF InstallerTypes, OwnTask, TaskHasItsUpdate, QuitLockedWhileInstalling, StatusInv,
      TaskOverWhenAnswered, Running, vars, mainVars, checkVars, httpVars, zipVars, taskVars, planVars, diskVars, envVars,
      NoTask
<1>1. CASE OnDataLoaded
  BY <1>1 DEF OnDataLoaded
<1>2. CASE DownloadEnds
  BY <1>2, DownloadIsInHttp DEF DownloadEnds, ErrorOccured, CleanUp, RunTask, OwnDownload
<1>3. CASE UpdateExtractionStatus
  BY <1>3 DEF UpdateExtractionStatus, ErrorOccured, CleanUp, RunTask
<1>4. CASE UpdateHashingStatus
  BY <1>4 DEF UpdateHashingStatus, ErrorOccured, CleanUp, RunTask, BeginFileUpdating
<1>5. CASE UpdateInstallStatus
  BY <1>5 DEF UpdateInstallStatus, ErrorOccured, CleanUp
<1>6. CASE CancelReturns
  BY <1>6 DEF CancelReturns, ErrorOccured, CleanUp
<1>7. CASE ShutdownReturns
  BY <1>7 DEF ShutdownReturns, ErrorOccured, CleanUp
<1>8. CASE Exit
  BY <1>8 DEF Exit, Gone
<1>9. CASE TakeRequest
  BY <1>9 DEF TakeRequest
<1>10. CASE TransferFails
  BY <1>10 DEF TransferFails, Respond
<1>11. CASE ReleasesLoaded
  BY <1>11 DEF ReleasesLoaded, Respond
<1>12. CASE WriteRefused
  BY <1>12, DownloadIsInHttp DEF WriteRefused, Respond, OwnDownload
<1>13. CASE WriteData
  BY <1>13 DEF WriteData, Respond
<1>14. CASE TaskAborts
  BY <1>14 DEF TaskAborts
<1>15. CASE TaskFails
  BY <1>15 DEF TaskFails
<1>16. CASE Extracted
  BY <1>16 DEF Extracted
<1>17. CASE Hashed
  BY <1>17 DEF Hashed
<1>18. CASE CopyMetadata
  BY <1>18 DEF CopyMetadata
<1>19. CASE Installed
  BY <1>19 DEF Installed
<1>20. CASE TaskEnds
  BY <1>20 DEF TaskEnds
<1>21. ASSUME NEW f \in Files, CopyBegins(f) PROVE OwnTask'
  BY <1>21 DEF CopyBegins
<1>22. ASSUME NEW f \in Files, CopyEnds(f) PROVE OwnTask'
  BY <1>22 DEF CopyEnds
<1>23. CASE CheckForUpdates
  BY <1>23 DEF CheckForUpdates
<1>24. CASE StartUpdate
  <2>1. ~mixed' => ~mixed
    BY <1>24, Zenon DEF StartUpdate
  <2>2. CASE status' = status /\ inProcess' = inProcess
    BY <1>24, <2>1, <2>2 DEF StartUpdate
  <2>3. CASE ~(status' = status /\ inProcess' = inProcess)
    <3>1. /\ ~inProcess /\ status' = "Downloading" /\ stage' = "ready" /\ main' = main
          /\ quitLocked' = quitLocked /\ abortRequested' = abortRequested /\ main = "frame"
      BY <1>24, <2>3 DEF StartUpdate
    <3> QED
      BY <2>1, <3>1
  <2> QED
    BY <2>2, <2>3
<1>25. CASE CancelInstallation
  BY <1>25 DEF CancelInstallation, ErrorOccured, CleanUp
<1>26. CASE Shutdown
  BY <1>26 DEF Shutdown, ErrorOccured, CleanUp
<1>27. ASSUME NEW f \in Files, EditFile(f) PROVE OwnTask'
  BY <1>27 DEF EditFile
<1>28. ASSUME NEW f \in Files, NEW replace \in BOOLEAN, NEW forAll \in BOOLEAN,
              ShowNextReplaceDialog(f, replace, forAll)
       PROVE  OwnTask'
  BY <1>28 DEF ShowNextReplaceDialog, BeginFileUpdating, RunTask
<1>29. CASE Publish
  BY <1>29 DEF Publish
<1>30. CASE Crash
  BY <1>30 DEF Crash, Gone
<1>31. CASE Launch
  BY <1>31 DEF Launch
<1>32. CASE UNCHANGED vars
  BY <1>32
<1> HIDE DEF InstallerTypes, OwnTask, TaskHasItsUpdate, QuitLockedWhileInstalling, StatusInv,
      TaskOverWhenAnswered, Running, vars, mainVars, checkVars, httpVars, zipVars, taskVars, planVars, diskVars, envVars,
      NoTask
<1>q. QED
  BY <1>1, <1>2, <1>3, <1>4, <1>5, <1>6, <1>7, <1>8, <1>9, <1>10, <1>11, <1>12, <1>13, <1>14, <1>15,
     <1>16, <1>17, <1>18, <1>19, <1>20, <1>21, <1>22, <1>23, <1>24, <1>25, <1>26, <1>27, <1>28,
     <1>29, <1>30, <1>31, <1>32
     DEF Next, Responses, Frame, Http, Task, User

\* What is in order about the task and the quit command, and what that rests on
OwnInv == TypeOK /\ StatusInv /\ OwnDownload /\ OwnTask

\* It is so at first, and every step keeps it.
LEMMA OwnInvariant == Spec => []OwnInv
<1>1. Init => OwnInv
  <2>1. Init => OwnTask
    BY DEF Init, OwnTask, TaskHasItsUpdate, QuitLockedWhileInstalling, TaskOverWhenAnswered,
            Running
  <2> QED
    BY <2>1, InOrderInit, OwnDownloadInit DEF OwnInv
<1>2. OwnInv /\ [Next]_vars => OwnInv'
  BY InOrderStep, OwnDownloadStep, OwnTaskStep DEF TypeOK, OwnInv
<1> QED
  BY <1>1, <1>2, PTL DEF Spec

\* The async task works for the update in process and nobody cleans up under it, unless a
\* download of an earlier update is still with the HTTP client when the next is started.
THEOREM TaskWorksForItsUpdate == Spec => []TaskHasItsUpdate
<1>1. OwnInv => TaskHasItsUpdate
  BY DEF OwnInv, OwnTask, TaskHasItsUpdate
<1> QED
  BY <1>1, OwnInvariant, PTL

\* With the same exception, the quit command is refused exactly while files are replaced.
THEOREM QuitComesBack == Spec => []QuitLockedWhileInstalling
<1>1. OwnInv => QuitLockedWhileInstalling
  BY DEF OwnInv, OwnTask, QuitLockedWhileInstalling
<1> QED
  BY <1>1, OwnInvariant, PTL

\* With the same exception, a cancel or a shutdown that stops waiting finds the task over.
THEOREM AnswerEndsTask == Spec => []TaskOverWhenAnswered
<1>1. OwnInv => TaskOverWhenAnswered
  BY DEF OwnInv, OwnTask, TaskOverWhenAnswered
<1> QED
  BY <1>1, OwnInvariant, PTL

-----------------------------------------------------------------------------
(* Releases only go forward *)

\* Releases in the order in which they can be: on disk, asked for, offered, in responses
Below(v) == meta <= v /\ \A f \in Files : disk[f] <= v

ResponsesInv ==
  /\ offer <= latest
  /\ \A i \in 1 .. Len(responses) : offer <= responses[i].release /\ responses[i].release <= latest
  /\ \A i, j \in 1 .. Len(responses) : i <= j => responses[i].release <= responses[j].release

BelowInv ==
  /\ Below(latest)
  /\ \A i \in 1 .. Len(responses) : Below(responses[i].release)
  /\ dialog => Below(offer)
  /\ inProcess => Below(target)

ReleaseInv ==
  /\ inProcess => known <= target /\ target <= offer
  /\ inProcess => \/ meta = known
                  \/ status = "Installing"
                  \/ ~ok /\ task = "extract" /\ stage # "run" /\ status # "Downloading"
  /\ inProcess /\ task = "install" /\ stage = "run" => meta = target
  /\ MetadataLeads

\* A response is to the check or to the download, and tells of a release.
LEMMA ResponseTypes ==
  ASSUME HttpTypes
  PROVE  \A i \in 1 .. Len(responses) : responses[i].release \in 0 .. Releases
<1>1. \A i \in 1 .. Len(responses) : responses[i] \in Response
  BY DEF HttpTypes
<1> QED
  BY <1>1 DEF Response

\* The response that is handed over is the oldest.
LEMMA FirstResponse ==
  ASSUME HttpTypes, responses # <<>>, responses' = Tail(responses)
  PROVE  /\ 1 \in 1 .. Len(responses) /\ Head(responses) = responses[1]
         /\ Len(responses) \in Nat /\ Len(responses') = Len(responses) - 1
         /\ \A i \in 1 .. Len(responses') : /\ i + 1 \in 1 .. Len(responses)
                                            /\ responses'[i] = responses[i + 1]
  BY TailOfSeq DEF HttpTypes

\* A response tells the latest release.
LEMMA LastResponse ==
  ASSUME HttpTypes, current # "none", NEW b \in BOOLEAN, Respond(b)
  PROVE  \A i \in 1 .. Len(responses') :
           \/ i \in 1 .. Len(responses) /\ responses'[i] = responses[i]
           \/ i = Len(responses) + 1 /\ responses'[i].release = latest
<1> DEFINE e == [of |-> IF current = "check" THEN "check" ELSE "download",
                 success |-> b, release |-> latest]
<1>1. responses' = Append(responses, e)
  BY DEF Respond
<1>2. e \in Response /\ e.release = latest
  BY DEF HttpTypes, Response, Requests
<1> HIDE DEF e
<1> QED
  BY <1>1, <1>2, AppendToSeq DEF HttpTypes

\* The order is kept when a response that tells the latest release is added.
LEMMA OrderKept ==
  ASSUME HttpTypes, ResponsesInv, offer' = offer, latest' = latest,
         \A i \in 1 .. Len(responses') :
           \/ i \in 1 .. Len(responses) /\ responses'[i] = responses[i]
           \/ i = Len(responses) + 1 /\ responses'[i].release = latest
  PROVE  ResponsesInv'
<1> DEFINE rel(i) == responses'[i].release
<1>1. \A i \in 1 .. Len(responses') :
        \/ i \in 1 .. Len(responses) /\ rel(i) = responses[i].release
        \/ i = Len(responses) + 1 /\ rel(i) = latest
  OBVIOUS
<1>2. offer \in Nat /\ latest \in Nat /\ offer <= latest /\ Len(responses) \in Nat
  BY FilesAssumption DEF HttpTypes, ResponsesInv
<1>3. /\ \A i \in 1 .. Len(responses) : responses[i].release \in 0 .. Releases
      /\ \A i \in 1 .. Len(responses) :
           offer <= responses[i].release /\ responses[i].release <= latest
      /\ \A i, j \in 1 .. Len(responses) :
           i <= j => responses[i].release <= responses[j].release
  BY ResponseTypes DEF ResponsesInv
<1>4. \A i \in 1 .. Len(responses') : offer <= rel(i) /\ rel(i) <= latest
  BY <1>1, <1>2, <1>3
<1>5. ASSUME NEW i \in 1 .. Len(responses'), NEW j \in 1 .. Len(responses'), i <= j
      PROVE  rel(i) <= rel(j)
  <2>1. CASE i \in 1 .. Len(responses) /\ j \in 1 .. Len(responses)
    BY <1>1, <1>2, <1>3, <1>5, <2>1
  <2>2. CASE j = Len(responses) + 1
    BY <1>1, <1>2, <1>4, <2>2
  <2>3. CASE i = Len(responses) + 1
    BY <1>1, <1>2, <1>5, <2>2, <2>3
  <2> QED
    BY <1>1, <2>1, <2>2, <2>3
<1> QED
  BY <1>2, <1>4, <1>5 DEF ResponsesInv

\* Responses come in the order of the releases they tell of, none of them older than the offer.
LEMMA ResponsesStep == HttpTypes /\ ResponsesInv /\ [Next]_vars => ResponsesInv'
<1> SUFFICES ASSUME HttpTypes, ResponsesInv, [Next]_vars PROVE ResponsesInv'
  OBVIOUS
<1> USE DEF HttpTypes, ResponsesInv, vars, mainVars, checkVars, httpVars, zipVars, taskVars,
      planVars, diskVars, envVars, NoTask
<1>1. CASE OnDataLoaded
  <2>1. /\ responses # <<>> /\ responses' = Tail(responses) /\ latest' = latest
        /\ offer' \in {offer, Head(responses).release}
    BY <1>1 DEF OnDataLoaded
  <2> QED
    BY <2>1, FirstResponse, ResponseTypes
<1>2. CASE DownloadEnds
  <2>1. /\ responses # <<>> /\ responses' = Tail(responses) /\ latest' = latest /\ offer' = offer
    BY <1>2 DEF DownloadEnds
  <2> QED
    BY <2>1, FirstResponse, ResponseTypes
<1>3. CASE UpdateExtractionStatus
  BY <1>3 DEF UpdateExtractionStatus, ErrorOccured, CleanUp, RunTask
<1>4. CASE UpdateHashingStatus
  BY <1>4 DEF UpdateHashingStatus, ErrorOccured, CleanUp, RunTask, BeginFileUpdating
<1>5. CASE UpdateInstallStatus
  BY <1>5 DEF UpdateInstallStatus, ErrorOccured, CleanUp
<1>6. CASE CancelReturns
  BY <1>6 DEF CancelReturns, ErrorOccured, CleanUp
<1>7. CASE ShutdownReturns
  BY <1>7 DEF ShutdownReturns, ErrorOccured, CleanUp
<1>8. CASE Exit
  BY <1>8, FilesAssumption DEF Exit, Gone
<1>9. CASE TakeRequest
  BY <1>9 DEF TakeRequest
<1>10. CASE TransferFails
  <2>1. /\ offer' = offer /\ latest' = latest
        /\ \A i \in 1 .. Len(responses') :
             \/ i \in 1 .. Len(responses) /\ responses'[i] = responses[i]
             \/ i = Len(responses) + 1 /\ responses'[i].release = latest
    BY <1>10, LastResponse DEF TransferFails
  <2> QED
    BY <2>1, OrderKept
<1>11. CASE ReleasesLoaded
  <2>1. /\ offer' = offer /\ latest' = latest
        /\ \A i \in 1 .. Len(responses') :
             \/ i \in 1 .. Len(responses) /\ responses'[i] = responses[i]
             \/ i = Len(responses) + 1 /\ responses'[i].release = latest
    BY <1>11, LastResponse DEF ReleasesLoaded
  <2> QED
    BY <2>1, OrderKept
<1>12. CASE WriteRefused
  <2>1. /\ offer' = offer /\ latest' = latest
        /\ \A i \in 1 .. Len(responses') :
             \/ i \in 1 .. Len(responses) /\ responses'[i] = responses[i]
             \/ i = Len(responses) + 1 /\ responses'[i].release = latest
    BY <1>12, LastResponse DEF WriteRefused
  <2> QED
    BY <2>1, OrderKept
<1>13. CASE WriteData
  <2>1. offer' = offer /\ latest' = latest
    BY <1>13 DEF WriteData
  <2>2. CASE responses' = responses
    BY <2>1, <2>2
  <2>3. CASE responses' # responses
    <3>1. \A i \in 1 .. Len(responses') :
            \/ i \in 1 .. Len(responses) /\ responses'[i] = responses[i]
            \/ i = Len(responses) + 1 /\ responses'[i].release = latest
      BY <1>13, <2>3, LastResponse DEF WriteData
    <3> QED
      BY <2>1, <3>1, OrderKept
  <2> QED
    BY <2>2, <2>3
<1>14. CASE TaskAborts
  BY <1>14 DEF TaskAborts
<1>15. CASE TaskFails
  BY <1>15 DEF TaskFails
<1>16. CASE Extracted
  BY <1>16 DEF Extracted
<1>17. CASE Hashed
  BY <1>17 DEF Hashed
<1>18. CASE CopyMetadata
  BY <1>18 DEF CopyMetadata
<1>19. CASE Installed
  BY <1>19 DEF Installed
<1>20. CASE TaskEnds
  BY <1>20 DEF TaskEnds
<1>21. ASSUME NEW f \in Files, CopyBegins(f) PROVE ResponsesInv'
  BY <1>21 DEF CopyBegins
<1>22. ASSUME NEW f \in Files, CopyEnds(f) PROVE ResponsesInv'
  BY <1>22 DEF CopyEnds
<1>23. CASE CheckForUpdates
  BY <1>23 DEF CheckForUpdates
<1>24. CASE StartUpdate
  BY <1>24 DEF StartUpdate
<1>25. CASE CancelInstallation
  BY <1>25 DEF CancelInstallation, ErrorOccured, CleanUp
<1>26. CASE Shutdown
  BY <1>26 DEF Shutdown, ErrorOccured, CleanUp
<1>27. ASSUME NEW f \in Files, EditFile(f) PROVE ResponsesInv'
  BY <1>27 DEF EditFile
<1>28. ASSUME NEW f \in Files, NEW replace \in BOOLEAN, NEW forAll \in BOOLEAN,
              ShowNextReplaceDialog(f, replace, forAll)
       PROVE  ResponsesInv'
  BY <1>28 DEF ShowNextReplaceDialog, BeginFileUpdating, RunTask
<1>29. CASE Publish
  BY <1>29, ResponseTypes, FilesAssumption DEF Publish
<1>30. CASE Crash
  BY <1>30, FilesAssumption DEF Crash, Gone
<1>31. CASE Launch
  BY <1>31 DEF Launch
<1>32. CASE UNCHANGED vars
  BY <1>32
<1> HIDE DEF HttpTypes, ResponsesInv, vars, mainVars, checkVars, httpVars, zipVars, taskVars,
      planVars, diskVars, envVars, NoTask
<1>q. QED
  BY <1>1, <1>2, <1>3, <1>4, <1>5, <1>6, <1>7, <1>8, <1>9, <1>10, <1>11, <1>12, <1>13, <1>14, <1>15,
     <1>16, <1>17, <1>18, <1>19, <1>20, <1>21, <1>22, <1>23, <1>24, <1>25, <1>26, <1>27, <1>28,
     <1>29, <1>30, <1>31, <1>32
     DEF Next, Responses, Frame, Http, Task, User

\* What is on disk is never of a later release than what is offered, asked for or told of.
LEMMA BelowStep ==
  HttpTypes /\ PlanTypes /\ DiskTypes /\ ResponsesInv /\ ReleaseInv /\ BelowInv /\ [Next]_vars
    => BelowInv'
<1> SUFFICES ASSUME HttpTypes, PlanTypes, DiskTypes, ResponsesInv, ReleaseInv, BelowInv, [Next]_vars
             PROVE  BelowInv'
  OBVIOUS
<1> USE DEF HttpTypes, BelowInv, Below, vars, mainVars, checkVars, httpVars, zipVars, taskVars,
      planVars, diskVars, envVars, NoTask
<1>1. CASE OnDataLoaded
  <2>1. /\ responses # <<>> /\ responses' = Tail(responses) /\ latest' = latest
        /\ inProcess' = inProcess /\ target' = target /\ disk' = disk /\ meta' = meta
        /\ offer' = Head(responses).release \/ (offer' = offer /\ dialog' = dialog)
    BY <1>1 DEF OnDataLoaded
  <2> QED
    BY <2>1, FirstResponse, ResponseTypes
<1>2. CASE DownloadEnds
  <2>1. /\ responses # <<>> /\ responses' = Tail(responses) /\ latest' = latest /\ offer' = offer
        /\ dialog' = dialog /\ disk' = disk /\ meta' = meta
        /\ inProcess' => inProcess /\ target' = target
    BY <1>2 DEF DownloadEnds, ErrorOccured, CleanUp
  <2> QED
    BY <2>1, FirstResponse, ResponseTypes
<1>3. CASE UpdateExtractionStatus
  <2>1. CASE ErrorOccured
    BY <1>3, <2>1 DEF UpdateExtractionStatus, ErrorOccured, CleanUp
  <2>2. CASE ~ErrorOccured
    <3>1. /\ inProcess /\ ok /\ status = "Extracting" /\ target' \in known .. target
          /\ disk' = disk /\ meta' = meta
      BY <1>3, <2>2 DEF UpdateExtractionStatus
    <3>2. meta = known
      BY <3>1 DEF ReleaseInv
    <3>3. \A g \in Files : disk[g] <= meta
      BY <3>2, FilesAssumption DEF ReleaseInv, MetadataLeads, PlanTypes, Torn
    <3>4. meta' <= target' /\ \A g \in Files : disk'[g] <= target'
      BY <3>1, <3>2, <3>3, FilesAssumption DEF PlanTypes, DiskTypes, Contents
    <3> QED
      BY <1>3, <2>2, <3>4 DEF UpdateExtractionStatus
  <2> QED
    BY <2>1, <2>2
<1>4. CASE UpdateHashingStatus
  BY <1>4 DEF UpdateHashingStatus, ErrorOccured, CleanUp, RunTask, BeginFileUpdating
<1>5. CASE UpdateInstallStatus
  BY <1>5 DEF UpdateInstallStatus, ErrorOccured, CleanUp
<1>6. CASE CancelReturns
  BY <1>6 DEF CancelReturns, ErrorOccured, CleanUp
<1>7. CASE ShutdownReturns
  BY <1>7 DEF ShutdownReturns, ErrorOccured, CleanUp
<1>8. CASE Exit
  BY <1>8 DEF Exit, Gone
<1>9. CASE TakeRequest
  BY <1>9 DEF TakeRequest
<1>10. CASE TransferFails
  <2>1. \A i \in 1 .. Len(responses') :
          \/ i \in 1 .. Len(responses) /\ responses'[i].release = responses[i].release
          \/ responses'[i].release = latest
    BY <1>10, LastResponse DEF TransferFails
  <2>2. /\ offer' = offer /\ latest' = latest /\ dialog' = dialog /\ inProcess' = inProcess
        /\ target' = target /\ disk' = disk /\ meta' = meta
    BY <1>10 DEF TransferFails
  <2>3. \A i \in 1 .. Len(responses') : Below(responses'[i].release)
    BY <2>1 DEF BelowInv
  <2> QED
    BY <2>2, <2>3 DEF BelowInv, Below
<1>11. CASE ReleasesLoaded
  <2>1. \A i \in 1 .. Len(responses') :
          \/ i \in 1 .. Len(responses) /\ responses'[i].release = responses[i].release
          \/ responses'[i].release = latest
    BY <1>11, LastResponse DEF ReleasesLoaded
  <2>2. /\ offer' = offer /\ latest' = latest /\ dialog' = dialog /\ inProcess' = inProcess
        /\ target' = target /\ disk' = disk /\ meta' = meta
    BY <1>11 DEF ReleasesLoaded
  <2>3. \A i \in 1 .. Len(responses') : Below(responses'[i].release)
    BY <2>1 DEF BelowInv
  <2> QED
    BY <2>2, <2>3 DEF BelowInv, Below
<1>12. CASE WriteRefused
  <2>1. \A i \in 1 .. Len(responses') :
          \/ i \in 1 .. Len(responses) /\ responses'[i].release = responses[i].release
          \/ responses'[i].release = latest
    BY <1>12, LastResponse DEF WriteRefused
  <2>2. /\ offer' = offer /\ latest' = latest /\ dialog' = dialog /\ inProcess' = inProcess
        /\ target' = target /\ disk' = disk /\ meta' = meta
    BY <1>12 DEF WriteRefused
  <2>3. \A i \in 1 .. Len(responses') : Below(responses'[i].release)
    BY <2>1 DEF BelowInv
  <2> QED
    BY <2>2, <2>3 DEF BelowInv, Below
<1>13. CASE WriteData
  <2>1. \A i \in 1 .. Len(responses') :
          \/ i \in 1 .. Len(responses) /\ responses'[i].release = responses[i].release
          \/ responses'[i].release = latest
    BY <1>13, LastResponse DEF WriteData
  <2>2. /\ offer' = offer /\ latest' = latest /\ dialog' = dialog /\ inProcess' = inProcess
        /\ target' = target /\ disk' = disk /\ meta' = meta
    BY <1>13 DEF WriteData
  <2>3. \A i \in 1 .. Len(responses') : Below(responses'[i].release)
    BY <2>1 DEF BelowInv
  <2> QED
    BY <2>2, <2>3 DEF BelowInv, Below
<1>14. CASE TaskAborts
  BY <1>14 DEF TaskAborts
<1>15. CASE TaskFails
  BY <1>15 DEF TaskFails
<1>16. CASE Extracted
  BY <1>16 DEF Extracted
<1>17. CASE Hashed
  BY <1>17 DEF Hashed
<1>18. CASE CopyMetadata
  <2>1. /\ offer' = offer /\ latest' = latest /\ dialog' = dialog /\ inProcess' = inProcess
        /\ target' = target /\ responses' = responses
        /\ target <= latest /\ (dialog => target <= offer) /\ (inProcess => target <= target)
        /\ \A i \in 1 .. Len(responses) : target <= responses[i].release
    BY <1>18, FilesAssumption, ResponseTypes DEF CopyMetadata, ReleaseInv, ResponsesInv, PlanTypes
  <2>2. ASSUME NEW v \in 0 .. Releases, Below(v), target <= v PROVE Below(v)'
    BY <1>18, <2>2, FilesAssumption
       DEF CopyMetadata, Below, PlanTypes, DiskTypes, Contents, Hashes, Torn, NoHash, Edited
  <2>3. /\ latest \in 0 .. Releases /\ offer \in 0 .. Releases /\ target \in 0 .. Releases
        /\ \A i \in 1 .. Len(responses) : responses[i].release \in 0 .. Releases
    BY ResponseTypes DEF HttpTypes, PlanTypes
  <2>4. Below(latest)' /\ (dialog => Below(offer)') /\ (inProcess => Below(target)')
    BY <2>1, <2>2, <2>3 DEF BelowInv
  <2>5. \A i \in 1 .. Len(responses) : Below(responses[i].release)'
    BY <2>1, <2>2, <2>3 DEF BelowInv
  <2> QED
    BY <2>1, <2>4, <2>5 DEF BelowInv, Below
<1>19. CASE Installed
  BY <1>19 DEF Installed
<1>20. CASE TaskEnds
  BY <1>20 DEF TaskEnds
<1>21. ASSUME NEW f \in Files, CopyBegins(f) PROVE BelowInv'
  <2>1. /\ offer' = offer /\ latest' = latest /\ dialog' = dialog /\ inProcess' = inProcess
        /\ target' = target /\ responses' = responses
    BY <1>21 DEF CopyBegins
  <2>2. ASSUME NEW v \in 0 .. Releases, Below(v) PROVE Below(v)'
    <3>1. PICK c \in {NoHash, Torn} : disk' = [disk EXCEPT ![f] = c]
      BY <1>21 DEF CopyBegins
    <3>2. meta' = meta /\ disk \in [Files -> Contents] /\ c <= v
      BY <1>21, FilesAssumption DEF CopyBegins, DiskTypes, NoHash, Torn
    <3>3. ASSUME NEW g \in Files PROVE disk'[g] <= v
      BY <2>2, <3>1, <3>2 DEF Below
    <3> QED
      BY <2>2, <3>2, <3>3 DEF Below
  <2>3. /\ latest \in 0 .. Releases /\ offer \in 0 .. Releases /\ target \in 0 .. Releases
        /\ \A i \in 1 .. Len(responses) : responses[i].release \in 0 .. Releases
    BY ResponseTypes DEF HttpTypes, PlanTypes
  <2>4. Below(latest)' /\ (dialog => Below(offer)') /\ (inProcess => Below(target)')
    BY <2>1, <2>2, <2>3 DEF BelowInv
  <2>5. \A i \in 1 .. Len(responses) : Below(responses[i].release)'
    BY <2>1, <2>2, <2>3 DEF BelowInv
  <2> QED
    BY <2>1, <2>4, <2>5 DEF BelowInv, Below
<1>22. ASSUME NEW f \in Files, CopyEnds(f) PROVE BelowInv'
  <2>1. /\ offer' = offer /\ latest' = latest /\ dialog' = dialog /\ inProcess' = inProcess
        /\ target' = target /\ responses' = responses
        /\ target <= latest /\ (dialog => target <= offer) /\ (inProcess => target <= target)
        /\ \A i \in 1 .. Len(responses) : target <= responses[i].release
    BY <1>22, FilesAssumption, ResponseTypes DEF CopyEnds, ReleaseInv, ResponsesInv, PlanTypes
  <2>2. ASSUME NEW v \in 0 .. Releases, Below(v), target <= v PROVE Below(v)'
    <3>1. Hash(f, target) \in Hashes /\ Hash(f, target) <= target
      BY HashType DEF PlanTypes
    <3>2. Hash(f, target) <= v
      BY <2>2, <3>1, FilesAssumption DEF PlanTypes, Hashes, NoHash
    <3>3. meta' = meta /\ disk \in [Files -> Contents] /\ disk' = [disk EXCEPT ![f] = Hash(f, target)]
      BY <1>22 DEF CopyEnds, DiskTypes
    <3>4. ASSUME NEW g \in Files PROVE disk'[g] <= v
      BY <2>2, <3>2, <3>3 DEF Below
    <3> QED
      BY <2>2, <3>3, <3>4 DEF Below
  <2>3. /\ latest \in 0 .. Releases /\ offer \in 0 .. Releases /\ target \in 0 .. Releases
        /\ \A i \in 1 .. Len(responses) : responses[i].release \in 0 .. Releases
    BY ResponseTypes DEF HttpTypes, PlanTypes
  <2>4. Below(latest)' /\ (dialog => Below(offer)') /\ (inProcess => Below(target)')
    BY <2>1, <2>2, <2>3 DEF BelowInv
  <2>5. \A i \in 1 .. Len(responses) : Below(responses[i].release)'
    BY <2>1, <2>2, <2>3 DEF BelowInv
  <2> QED
    BY <2>1, <2>4, <2>5 DEF BelowInv, Below
<1>23. CASE CheckForUpdates
  BY <1>23 DEF CheckForUpdates
<1>24. CASE StartUpdate
  BY <1>24 DEF StartUpdate
<1>25. CASE CancelInstallation
  BY <1>25 DEF CancelInstallation, ErrorOccured, CleanUp
<1>26. CASE Shutdown
  BY <1>26 DEF Shutdown, ErrorOccured, CleanUp
<1>27. ASSUME NEW f \in Files, EditFile(f) PROVE BelowInv'
  <2>1. /\ offer' = offer /\ latest' = latest /\ dialog' = dialog /\ inProcess' = inProcess
        /\ target' = target /\ responses' = responses
    BY <1>27 DEF EditFile
  <2>2. ASSUME NEW v \in 0 .. Releases, Below(v) PROVE Below(v)'
    BY <1>27, <2>2, FilesAssumption
       DEF EditFile, Below, PlanTypes, DiskTypes, Contents, Hashes, Torn, NoHash, Edited
  <2>3. /\ latest \in 0 .. Releases /\ offer \in 0 .. Releases /\ target \in 0 .. Releases
        /\ \A i \in 1 .. Len(responses) : responses[i].release \in 0 .. Releases
    BY ResponseTypes DEF HttpTypes, PlanTypes
  <2>4. Below(latest)' /\ (dialog => Below(offer)') /\ (inProcess => Below(target)')
    BY <2>1, <2>2, <2>3 DEF BelowInv
  <2>5. \A i \in 1 .. Len(responses) : Below(responses[i].release)'
    BY <2>1, <2>2, <2>3 DEF BelowInv
  <2> QED
    BY <2>1, <2>4, <2>5 DEF BelowInv, Below
<1>28. ASSUME NEW f \in Files, NEW replace \in BOOLEAN, NEW forAll \in BOOLEAN,
              ShowNextReplaceDialog(f, replace, forAll)
       PROVE  BelowInv'
  BY <1>28 DEF ShowNextReplaceDialog, BeginFileUpdating, RunTask
<1>29. CASE Publish
  BY <1>29, ResponseTypes, FilesAssumption DEF Publish, DiskTypes, Contents, Torn
<1>30. CASE Crash
  BY <1>30 DEF Crash, Gone
<1>31. CASE Launch
  BY <1>31 DEF Launch
<1>32. CASE UNCHANGED vars
  BY <1>32
<1> HIDE DEF HttpTypes, BelowInv, Below, vars, mainVars, checkVars, httpVars, zipVars, taskVars,
      planVars, diskVars, envVars, NoTask
<1>q. QED
  BY <1>1, <1>2, <1>3, <1>4, <1>5, <1>6, <1>7, <1>8, <1>9, <1>10, <1>11, <1>12, <1>13, <1>14, <1>15,
     <1>16, <1>17, <1>18, <1>19, <1>20, <1>21, <1>22, <1>23, <1>24, <1>25, <1>26, <1>27, <1>28,
     <1>29, <1>30, <1>31, <1>32
     DEF Next, Responses, Frame, Http, Task, User

\* The metadata is written before the files, and the release is never older than the old metadata.
LEMMA ReleaseStep ==
  InstallerTypes /\ HttpTypes /\ PlanTypes /\ DiskTypes /\ StatusInv /\ ResponsesInv /\ BelowInv
    /\ ReleaseInv /\ [Next]_vars
    => ReleaseInv'
<1> SUFFICES ASSUME InstallerTypes, HttpTypes, PlanTypes, DiskTypes, StatusInv, ResponsesInv,
                    BelowInv, ReleaseInv, [Next]_vars
             PROVE  ReleaseInv'
  OBVIOUS
<1> USE DEF InstallerTypes, PlanTypes, DiskTypes, ReleaseInv, MetadataLeads, StatusInv, Running,
      Contents, Torn, NoHash, Edited, vars, mainVars, checkVars, httpVars, zipVars, taskVars,
      planVars, diskVars, envVars, NoTask
<1>1. CASE OnDataLoaded
  BY <1>1, FilesAssumption, FirstResponse, ResponseTypes DEF OnDataLoaded, ResponsesInv, HttpTypes
<1>2. CASE DownloadEnds
  <2>1. CASE ErrorOccured
    BY <1>2, <2>1, FilesAssumption DEF DownloadEnds, ErrorOccured, CleanUp
  <2>2. CASE ~ErrorOccured
    <3>1. /\ inProcess' = inProcess /\ target' = target /\ known' = known /\ offer' = offer
          /\ disk' = disk /\ meta' = meta
      BY <1>2, <2>2 DEF DownloadEnds
    <3>2. \/ status' = status /\ task' = task /\ stage' = stage /\ ok' = ok
          \/ /\ inProcess /\ ~Running /\ status' = "Extracting" /\ task' = "extract" /\ ~ok'
             /\ stage' # "run" \/ (zipOpen /\ stage' = "run")
      BY <1>2, <2>2, Zenon DEF DownloadEnds, RunTask, StatusInv
    <3> QED
      BY <3>1, <3>2
  <2> QED
    BY <2>1, <2>2
<1>3. CASE UpdateExtractionStatus
  <2>1. CASE ErrorOccured
    BY <1>3, <2>1, FilesAssumption DEF UpdateExtractionStatus, ErrorOccured, CleanUp
  <2>2. CASE ~ErrorOccured
    <3>1. /\ inProcess' = inProcess /\ known' = known /\ offer' = offer
          /\ disk' = disk /\ meta' = meta /\ ok /\ inProcess /\ status = "Extracting"
          /\ task' = "hash" /\ status' = "Hashing"
      BY <1>3, <2>2 DEF UpdateExtractionStatus, RunTask
    <3>2. target' \in known .. target
      BY <1>3, <2>2 DEF UpdateExtractionStatus
    <3> QED
      BY <3>1, <3>2, FilesAssumption DEF HttpTypes
  <2> QED
    BY <2>1, <2>2
<1>4. CASE UpdateHashingStatus
  BY <1>4, FilesAssumption
     DEF UpdateHashingStatus, ErrorOccured, CleanUp, RunTask, BeginFileUpdating
<1>5. CASE UpdateInstallStatus
  BY <1>5, FilesAssumption DEF UpdateInstallStatus, ErrorOccured, CleanUp
<1>6. CASE CancelReturns
  BY <1>6, FilesAssumption DEF CancelReturns, ErrorOccured, CleanUp
<1>7. CASE ShutdownReturns
  BY <1>7, FilesAssumption DEF ShutdownReturns, ErrorOccured, CleanUp
<1>8. CASE Exit
  BY <1>8, FilesAssumption DEF Exit, Gone
<1>9. CASE TakeRequest
  BY <1>9, FilesAssumption DEF TakeRequest
<1>10. CASE TransferFails
  BY <1>10, FilesAssumption DEF TransferFails, Respond
<1>11. CASE ReleasesLoaded
  BY <1>11, FilesAssumption DEF ReleasesLoaded, Respond
<1>12. CASE WriteRefused
  BY <1>12, FilesAssumption DEF WriteRefused, Respond
<1>13. CASE WriteData
  BY <1>13, FilesAssumption DEF WriteData, Respond
<1>14. CASE TaskAborts
  BY <1>14, FilesAssumption DEF TaskAborts
<1>15. CASE TaskFails
  BY <1>15, FilesAssumption DEF TaskFails
<1>16. CASE Extracted
  BY <1>16, FilesAssumption DEF Extracted
<1>17. CASE Hashed
  BY <1>17, FilesAssumption DEF Hashed
<1>18. CASE CopyMetadata
  BY <1>18, FilesAssumption DEF CopyMetadata, BelowInv, Below
<1>19. CASE Installed
  BY <1>19, FilesAssumption DEF Installed
<1>20. CASE TaskEnds
  BY <1>20, FilesAssumption DEF TaskEnds
<1>21. ASSUME NEW f \in Files, CopyBegins(f) PROVE ReleaseInv'
  BY <1>21, FilesAssumption DEF CopyBegins
<1>22. ASSUME NEW f \in Files, CopyEnds(f) PROVE ReleaseInv'
  BY <1>22, FilesAssumption, HashType DEF CopyEnds, Hashes
<1>23. CASE CheckForUpdates
  BY <1>23, FilesAssumption DEF CheckForUpdates
<1>24. CASE StartUpdate
  BY <1>24, FilesAssumption DEF StartUpdate, BelowInv, Below, HttpTypes
<1>25. CASE CancelInstallation
  BY <1>25, FilesAssumption DEF CancelInstallation, ErrorOccured, CleanUp
<1>26. CASE Shutdown
  BY <1>26, FilesAssumption DEF Shutdown, ErrorOccured, CleanUp
<1>27. ASSUME NEW f \in Files, EditFile(f) PROVE ReleaseInv'
  BY <1>27, FilesAssumption DEF EditFile
<1>28. ASSUME NEW f \in Files, NEW replace \in BOOLEAN, NEW forAll \in BOOLEAN,
              ShowNextReplaceDialog(f, replace, forAll)
       PROVE  ReleaseInv'
  BY <1>28, FilesAssumption DEF ShowNextReplaceDialog, BeginFileUpdating, RunTask
<1>29. CASE Publish
  BY <1>29, FilesAssumption DEF Publish
<1>30. CASE Crash
  BY <1>30, FilesAssumption DEF Crash, Gone
<1>31. CASE Launch
  BY <1>31, FilesAssumption DEF Launch
<1>32. CASE UNCHANGED vars
  BY <1>32
<1> HIDE DEF InstallerTypes, PlanTypes, DiskTypes, ReleaseInv, MetadataLeads, StatusInv, Running,
      Contents, Torn, NoHash, Edited, vars, mainVars, checkVars, httpVars, zipVars, taskVars,
      planVars, diskVars, envVars, NoTask
<1>q. QED
  BY <1>1, <1>2, <1>3, <1>4, <1>5, <1>6, <1>7, <1>8, <1>9, <1>10, <1>11, <1>12, <1>13, <1>14, <1>15,
     <1>16, <1>17, <1>18, <1>19, <1>20, <1>21, <1>22, <1>23, <1>24, <1>25, <1>26, <1>27, <1>28,
     <1>29, <1>30, <1>31, <1>32
     DEF Next, Responses, Frame, Http, Task, User

\* So it is at first.
LEMMA ReleaseInit == Init => ResponsesInv /\ BelowInv /\ ReleaseInv
  BY FilesAssumption, HashType
     DEF Init, ResponsesInv, BelowInv, Below, ReleaseInv, MetadataLeads, Hashes

\* The metadata is never older than a file it lists, so no release is ever installed over a
\* newer one, whatever the order of checks, responses, crashes and installations.
THEOREM MetadataAlwaysLeads == Spec => []MetadataLeads
<1> DEFINE Inv == TypeOK /\ StatusInv /\ ResponsesInv /\ BelowInv /\ ReleaseInv
<1>1. Init => Inv
  BY InOrderInit, ReleaseInit
<1>2. Inv /\ [Next]_vars => Inv'
  BY InOrderStep, ResponsesStep, BelowStep, ReleaseStep DEF TypeOK
<1>3. Inv => MetadataLeads
  BY DEF ReleaseInv
<1> HIDE DEF Inv
<1> QED
  BY <1>1, <1>2, <1>3, PTL DEF Spec

-----------------------------------------------------------------------------
(* Edits are replaced with consent *)

\* What the user is not asked about holds nothing of the user's
ConsentInv == \A f \in toCopy \ Plat : hashed[f] = Edited => f \in agreed

\* Every step keeps it.
LEMMA ConsentStep ==
  InstallerTypes /\ PlanTypes /\ StatusInv /\ ConsentInv /\ [Next]_vars
    => ConsentInv'
<1> SUFFICES ASSUME InstallerTypes, PlanTypes, StatusInv, ConsentInv, [Next]_vars PROVE ConsentInv'
  OBVIOUS
<1> USE DEF InstallerTypes, PlanTypes, ConsentInv, StatusInv, Running, vars, mainVars, checkVars,
      httpVars, zipVars, taskVars, planVars, diskVars, envVars, NoTask
<1>1. CASE OnDataLoaded
  BY <1>1 DEF OnDataLoaded
<1>2. CASE DownloadEnds
  BY <1>2 DEF DownloadEnds, ErrorOccured, CleanUp, RunTask
<1>3. CASE UpdateExtractionStatus
  <2>1. CASE ErrorOccured
    BY <1>3, <2>1 DEF UpdateExtractionStatus, ErrorOccured, CleanUp
  <2>2. CASE ~ErrorOccured
    <3>1. status = "Extracting" /\ inProcess /\ ok /\ toCopy' = toCopy
      BY <1>3, <2>2 DEF UpdateExtractionStatus
    <3> QED
      BY <3>1
  <2> QED
    BY <2>1, <2>2
<1>4. CASE UpdateHashingStatus
  <2>1. CASE ErrorOccured
    BY <1>4, <2>1 DEF UpdateHashingStatus, ErrorOccured, CleanUp
  <2>2. CASE ~ErrorOccured
    <3>1. /\ toCopy' = {f \in ToReplace(known, target, hashed) : ~NeedToAsk(f, known, hashed)}
          /\ hashed' = hashed /\ agreed' = agreed
      BY <1>4, <2>2 DEF UpdateHashingStatus
    <3>2. ASSUME NEW f \in toCopy' \ Plat PROVE hashed[f] # Edited
      <4>1. f \in Files /\ hashed[f] = Hash(f, known)
        BY <3>1, <3>2 DEF ToReplace, NeedToAsk
      <4> QED
        BY <4>1, HashType DEF Hashes, Edited
    <3> QED
      BY <3>1, <3>2
  <2> QED
    BY <2>1, <2>2
<1>5. CASE UpdateInstallStatus
  BY <1>5 DEF UpdateInstallStatus, ErrorOccured, CleanUp
<1>6. CASE CancelReturns
  BY <1>6 DEF CancelReturns, ErrorOccured, CleanUp
<1>7. CASE ShutdownReturns
  BY <1>7 DEF ShutdownReturns, ErrorOccured, CleanUp
<1>8. CASE Exit
  BY <1>8 DEF Exit, Gone
<1>9. CASE TakeRequest
  BY <1>9 DEF TakeRequest
<1>10. CASE TransferFails
  BY <1>10 DEF TransferFails, Respond
<1>11. CASE ReleasesLoaded
  BY <1>11 DEF ReleasesLoaded, Respond
<1>12. CASE WriteRefused
  BY <1>12 DEF WriteRefused, Respond
<1>13. CASE WriteData
  BY <1>13 DEF WriteData, Respond
<1>14. CASE TaskAborts
  BY <1>14 DEF TaskAborts
<1>15. CASE TaskFails
  BY <1>15 DEF TaskFails
<1>16. CASE Extracted
  BY <1>16 DEF Extracted
<1>17. CASE Hashed
  BY <1>17 DEF Hashed
<1>18. CASE CopyMetadata
  BY <1>18 DEF CopyMetadata
<1>19. CASE Installed
  BY <1>19 DEF Installed
<1>20. CASE TaskEnds
  BY <1>20 DEF TaskEnds
<1>21. ASSUME NEW f \in Files, CopyBegins(f) PROVE ConsentInv'
  BY <1>21 DEF CopyBegins
<1>22. ASSUME NEW f \in Files, CopyEnds(f) PROVE ConsentInv'
  BY <1>22 DEF CopyEnds
<1>23. CASE CheckForUpdates
  BY <1>23 DEF CheckForUpdates
<1>24. CASE StartUpdate
  BY <1>24 DEF StartUpdate
<1>25. CASE CancelInstallation
  BY <1>25 DEF CancelInstallation, ErrorOccured, CleanUp
<1>26. CASE Shutdown
  BY <1>26 DEF Shutdown, ErrorOccured, CleanUp
<1>27. ASSUME NEW f \in Files, EditFile(f) PROVE ConsentInv'
  BY <1>27 DEF EditFile
<1>28. ASSUME NEW f \in Files, NEW replace \in BOOLEAN, NEW forAll \in BOOLEAN,
              ShowNextReplaceDialog(f, replace, forAll)
       PROVE  ConsentInv'
  BY <1>28 DEF ShowNextReplaceDialog, BeginFileUpdating, RunTask
<1>29. CASE Publish
  BY <1>29 DEF Publish
<1>30. CASE Crash
  BY <1>30 DEF Crash, Gone
<1>31. CASE Launch
  BY <1>31 DEF Launch
<1>32. CASE UNCHANGED vars
  BY <1>32
<1> HIDE DEF InstallerTypes, PlanTypes, ConsentInv, StatusInv, Running, vars, mainVars, checkVars,
      httpVars, zipVars, taskVars, planVars, diskVars, envVars, NoTask
<1>q. QED
  BY <1>1, <1>2, <1>3, <1>4, <1>5, <1>6, <1>7, <1>8, <1>9, <1>10, <1>11, <1>12, <1>13, <1>14, <1>15,
     <1>16, <1>17, <1>18, <1>19, <1>20, <1>21, <1>22, <1>23, <1>24, <1>25, <1>26, <1>27, <1>28,
     <1>29, <1>30, <1>31, <1>32
     DEF Next, Responses, Frame, Http, Task, User

\* What the user wrote before the files were hashed is replaced with consent only.
THEOREM EditsAreAskedAbout == Spec => EditsNeedConsent
<1> DEFINE Inv == TypeOK /\ StatusInv /\ ConsentInv
        Asked  == \A f \in Files \ Plat :
                    disk[f] = Edited /\ hashed[f] = Edited /\ f \in copying' \ copying => f \in agreed
<1>1. Init => Inv
  BY InOrderInit DEF Init, ConsentInv
<1>2. Inv /\ [Next]_vars => Inv'
  BY InOrderStep, ConsentStep DEF TypeOK
<1>3. Inv /\ [Next]_vars => [Asked]_vars
  <2> SUFFICES ASSUME Inv, Next, NEW g \in Files \ Plat, g \in copying' \ copying,
        hashed[g] = Edited
               PROVE  g \in agreed
    OBVIOUS
  <2>1. \E f \in Files : CopyBegins(f)
    <3> SUFFICES ASSUME \A f \in Files : ~CopyBegins(f) PROVE FALSE
      OBVIOUS
    <3> USE DEF diskVars
    <3>1. ~Responses
      BY DEF Responses, OnDataLoaded, DownloadEnds
    <3>2. ~Frame
      BY DEF Frame, UpdateExtractionStatus, UpdateHashingStatus, UpdateInstallStatus, CancelReturns,
             ShutdownReturns, Exit, Gone
    <3>3. ~Http
      BY DEF Http, TakeRequest, TransferFails, ReleasesLoaded, WriteRefused, WriteData
    <3>4. ~Task
      BY
         DEF Task, TaskAborts, TaskFails, Extracted, Hashed, CopyMetadata, Installed, TaskEnds,
             CopyEnds
    <3>5. ~User
      BY DEF User, CheckForUpdates, StartUpdate, CancelInstallation, Shutdown, EditFile,
             ShowNextReplaceDialog
    <3>6. ~Publish /\ ~Crash /\ ~Launch
      BY DEF Publish, Crash, Launch, Gone
    <3> QED
      BY <3>1, <3>2, <3>3, <3>4, <3>5, <3>6 DEF Next
  <2>2. g \in toCopy
    BY <2>1 DEF CopyBegins
  <2> QED
    BY <2>2 DEF ConsentInv
<1> HIDE DEF Inv
<1>4. Spec => [][Asked]_vars
  <2> HIDE DEF Asked
  <2> QED
    BY <1>1, <1>2, <1>3, PTL DEF Spec
<1> QED
  BY <1>4 DEF EditsNeedConsent

-----------------------------------------------------------------------------
(* A successful installation leaves no file behind *)

\* A file that is the release's, or the user's doing
Good(f, v) == disk[f] \in {Hash(f, v), Edited} \/ (disk[f] = NoHash /\ edits > 0)

\* What is on disk before, while and after files are replaced
DiskInv ==
  /\ inProcess /\ status \in {"Hashing", "Confirming"} =>
       \A f \in Files : disk[f] = hashed[f] \/ disk[f] = Edited \/ (disk[f] = NoHash /\ edits > 0)
  /\ ~brokenOff =>
       /\ ~(inProcess /\ task = "install") => meta # Torn /\ \A f \in Files \ Modifiable : Good(f,
             meta)
       /\ inProcess /\ task = "install" =>
            /\ \A f \in Files \ (Modifiable \cup toCopy) : Good(f, target)
            /\ stage \in {"end", "ready"} => ok /\ toCopy = {}
            /\ stage # "meta" => meta = target
       /\ inProcess /\ status = "Confirming" =>
            \A f \in Files \ (Modifiable \cup toCopy) : Good(f, target)
       /\ Running /\ task = "install" => inProcess

\* What the plan leaves alone, and what it asks about, needs no replacement.
LEMMA PlanIsRight ==
  ASSUME NEW f \in Files \ Modifiable, known \in 0 .. Releases, target \in 0 .. Releases,
        known <= target,
         hashed \in [Files -> Contents], Good(f, known),
         disk[f] = hashed[f] \/ disk[f] = Edited \/ (disk[f] = NoHash /\ edits > 0),
         f \notin ToReplace(known, target, hashed) \/ NeedToAsk(f, known, hashed)
  PROVE  Good(f, target)
<1>1. CASE NeedToAsk(f, known, hashed)
  BY <1>1 DEF NeedToAsk, Good
<1>2. CASE f \notin ToReplace(known, target, hashed)
  <2>1. \/ Hash(f, target) = NoHash \/ Hash(f, target) = hashed[f]
        \/ Hash(f, known) = Hash(f, target)
    BY <1>2 DEF ToReplace
  <2>2. CASE Hash(f, target) = NoHash
    <3>1. Hash(f, known) = NoHash
      BY <2>2, FilesAssumption DEF Hash, NoHash
    <3> QED
      BY <2>2, <3>1 DEF Good
  <2> QED
    BY <2>1, <2>2 DEF Good
<1> QED
  BY <1>1, <1>2

\* With no installation at work the disk holds one release, up to what the user did to it.
LEMMA DiskAtRest ==
  ASSUME InstallerTypes, PlanTypes, DiskInv, ~brokenOff, ~(Running /\ task = "install")
  PROVE  meta # Torn /\ \A f \in Files \ Modifiable : Good(f, meta)
<1>1. CASE inProcess /\ task = "install"
  <2>1. stage = "ready" /\ toCopy = {} /\ meta = target
    BY <1>1 DEF DiskInv, Running
  <2>2. \A f \in Files \ Modifiable : Good(f, target)
    BY <1>1, <2>1 DEF DiskInv
  <2> QED
    BY <2>1, <2>2, FilesAssumption DEF PlanTypes, Torn
<1>2. CASE ~(inProcess /\ task = "install")
  BY <1>2 DEF DiskInv
<1> QED
  BY <1>1, <1>2

\* Every step keeps it.
LEMMA DiskStep ==
  InstallerTypes /\ PlanTypes /\ DiskTypes /\ BoundTypes /\ StatusInv /\ ReleaseInv /\ DiskInv
    /\ [Next]_vars
    => DiskInv'
<1> SUFFICES ASSUME InstallerTypes, PlanTypes, DiskTypes, BoundTypes, StatusInv, ReleaseInv,
                    DiskInv, [Next]_vars
             PROVE  DiskInv'
  OBVIOUS
<1> USE DEF InstallerTypes, PlanTypes, DiskTypes, BoundTypes, DiskInv, Good, StatusInv, Running,
      vars, mainVars, checkVars, httpVars, zipVars, taskVars, planVars, diskVars, envVars, NoTask
<1>1. CASE OnDataLoaded
  BY <1>1, UpdaterAssumption, FilesAssumption DEF OnDataLoaded
<1>2. CASE DownloadEnds
  <2>1. /\ disk' = disk /\ meta' = meta /\ edits' = edits
        /\ ~brokenOff' => ~brokenOff
    BY <1>2 DEF DownloadEnds
  <2>2. CASE ErrorOccured
    <3>1. ~inProcess' /\ task' = task /\ stage' = stage
      BY <1>2, <2>2, Zenon DEF DownloadEnds, ErrorOccured, RunTask, Running
    <3>2. ~brokenOff' => ~(Running /\ task = "install")
      BY <1>2, <3>1, Zenon DEF DownloadEnds
    <3> QED
      BY <2>1, <3>1, <3>2, DiskAtRest
  <2>3. CASE ~ErrorOccured /\ ~inProcess
    BY <1>2, <2>1, <2>3 DEF DownloadEnds
  <2>4. CASE ~ErrorOccured /\ inProcess
    <3>1. /\ inProcess' /\ ~Running /\ status' = "Extracting" /\ task' = "extract"
      BY <1>2, <2>4 DEF DownloadEnds, RunTask
    <3>2. ~brokenOff' => meta # Torn /\ \A f \in Files \ Modifiable : Good(f, meta)
      BY <2>1, <3>1, DiskAtRest
    <3> QED
      BY <2>1, <3>1, <3>2
  <2> QED
    BY <2>2, <2>3, <2>4
<1>3. CASE UpdateExtractionStatus
  BY <1>3, UpdaterAssumption, FilesAssumption
     DEF UpdateExtractionStatus, ErrorOccured, CleanUp, RunTask
<1>4. CASE UpdateHashingStatus
  <2>1. /\ disk' = disk /\ meta' = meta /\ edits' = edits /\ brokenOff' = brokenOff
        /\ inProcess /\ status = "Hashing" /\ ~Running
    BY <1>4 DEF UpdateHashingStatus
  <2>2. CASE ErrorOccured
    <3>1. ~inProcess' /\ stage' = "ready"
      BY <1>4, <2>2, Zenon DEF UpdateHashingStatus, ErrorOccured, BeginFileUpdating, RunTask, NoTask
    <3> QED
      BY <2>1, <3>1, DiskAtRest
  <2>3. CASE ~ErrorOccured
    <3>1. /\ ok /\ inProcess' /\ hashed' = hashed /\ target' = target
          /\ toCopy' = {f \in ToReplace(known, target, hashed) : ~NeedToAsk(f, known, hashed)}
      BY <1>4, <2>3 DEF UpdateHashingStatus
    <3>2. \/ status' = "Confirming" /\ task' = "none" /\ stage' = "ready"
          \/ status' = "Installing" /\ task' = "install" /\ stage' = "meta"
      BY <1>4, <2>3 DEF UpdateHashingStatus, BeginFileUpdating, RunTask
    <3>3. task # "install" /\ meta = known /\ known <= target
      BY <2>1, <3>1 DEF ReleaseInv
    <3>4. ASSUME ~brokenOff PROVE \A f \in Files \ (Modifiable \cup toCopy') : Good(f, target)
      <4>1. \A f \in Files \ Modifiable : Good(f, known)
        BY <2>1, <3>3, <3>4
      <4>2. \A f \in Files : disk[f] = hashed[f] \/ disk[f] = Edited \/ (disk[f] = NoHash /\ edits > 0)
        BY <2>1
      <4> HIDE DEF Good, DiskInv
      <4> QED
        BY <3>1, <3>3, <4>1, <4>2, PlanIsRight
    <3>5. ~brokenOff => meta # Torn /\ \A f \in Files \ Modifiable : Good(f, meta)
      BY <2>1, DiskAtRest
    <3> QED
      BY <2>1, <3>1, <3>2, <3>3, <3>4, <3>5
  <2> QED
    BY <2>2, <2>3
<1>5. CASE UpdateInstallStatus
  <2>1. ~inProcess' /\ disk' = disk /\ meta' = meta /\ stage' = "ready" /\ edits' = edits
    BY <1>5 DEF UpdateInstallStatus, Gone, ErrorOccured
  <2>2. ~brokenOff' => ~brokenOff /\ ~(Running /\ task = "install")
    BY <1>5 DEF UpdateInstallStatus
  <2> QED
    BY <2>1, <2>2, DiskAtRest
<1>6. CASE CancelReturns
  BY <1>6, UpdaterAssumption, FilesAssumption DEF CancelReturns, ErrorOccured, CleanUp
<1>7. CASE ShutdownReturns
  BY <1>7, UpdaterAssumption, FilesAssumption DEF ShutdownReturns, ErrorOccured, CleanUp
<1>8. CASE Exit
  <2>1. ~inProcess' /\ disk' = disk /\ meta' = meta /\ stage' = "ready" /\ edits' = edits
    BY <1>8 DEF Exit, Gone, ErrorOccured
  <2>2. ~brokenOff' => ~brokenOff /\ ~(Running /\ task = "install")
    BY <1>8 DEF Exit
  <2> QED
    BY <2>1, <2>2, DiskAtRest
<1>9. CASE TakeRequest
  BY <1>9, UpdaterAssumption, FilesAssumption DEF TakeRequest
<1>10. CASE TransferFails
  BY <1>10, UpdaterAssumption, FilesAssumption DEF TransferFails, Respond
<1>11. CASE ReleasesLoaded
  BY <1>11, UpdaterAssumption, FilesAssumption DEF ReleasesLoaded, Respond
<1>12. CASE WriteRefused
  BY <1>12, UpdaterAssumption, FilesAssumption DEF WriteRefused, Respond
<1>13. CASE WriteData
  BY <1>13, UpdaterAssumption, FilesAssumption DEF WriteData, Respond
<1>14. CASE TaskAborts
  BY <1>14, UpdaterAssumption, FilesAssumption DEF TaskAborts
<1>15. CASE TaskFails
  BY <1>15, UpdaterAssumption, FilesAssumption DEF TaskFails
<1>16. CASE Extracted
  BY <1>16, UpdaterAssumption, FilesAssumption DEF Extracted
<1>17. CASE Hashed
  BY <1>17, UpdaterAssumption, FilesAssumption DEF Hashed
<1>18. CASE CopyMetadata
  BY <1>18, UpdaterAssumption, FilesAssumption DEF CopyMetadata
<1>19. CASE Installed
  BY <1>19, UpdaterAssumption, FilesAssumption DEF Installed
<1>20. CASE TaskEnds
  BY <1>20, UpdaterAssumption, FilesAssumption DEF TaskEnds
<1>21. ASSUME NEW f \in Files, CopyBegins(f) PROVE DiskInv'
  BY <1>21, UpdaterAssumption, FilesAssumption DEF CopyBegins
<1>22. ASSUME NEW f \in Files, CopyEnds(f) PROVE DiskInv'
  BY <1>22, UpdaterAssumption, FilesAssumption DEF CopyEnds
<1>23. CASE CheckForUpdates
  BY <1>23, UpdaterAssumption, FilesAssumption DEF CheckForUpdates
<1>24. CASE StartUpdate
  BY <1>24, UpdaterAssumption, FilesAssumption DEF StartUpdate
<1>25. CASE CancelInstallation
  BY <1>25, UpdaterAssumption, FilesAssumption DEF CancelInstallation, ErrorOccured, CleanUp
<1>26. CASE Shutdown
  BY <1>26, UpdaterAssumption, FilesAssumption DEF Shutdown, ErrorOccured, CleanUp
<1>27. ASSUME NEW f \in Files, EditFile(f) PROVE DiskInv'
  BY <1>27, UpdaterAssumption, FilesAssumption DEF EditFile
<1>28. ASSUME NEW f \in Files, NEW replace \in BOOLEAN, NEW forAll \in BOOLEAN,
              ShowNextReplaceDialog(f, replace, forAll)
       PROVE  DiskInv'
  BY <1>28, UpdaterAssumption, FilesAssumption DEF ShowNextReplaceDialog, BeginFileUpdating, RunTask
<1>29. CASE Publish
  BY <1>29, UpdaterAssumption, FilesAssumption DEF Publish
<1>30. CASE Crash
  <2>1. ~inProcess' /\ disk' = disk /\ meta' = meta /\ stage' = "ready" /\ edits' = edits
    BY <1>30 DEF Crash, Gone, ErrorOccured
  <2>2. ~brokenOff' => ~brokenOff /\ ~(Running /\ task = "install")
    BY <1>30 DEF Crash
  <2> QED
    BY <2>1, <2>2, DiskAtRest
<1>31. CASE Launch
  BY <1>31, UpdaterAssumption, FilesAssumption DEF Launch
<1>32. CASE UNCHANGED vars
  BY <1>32
<1> HIDE DEF InstallerTypes, PlanTypes, DiskTypes, BoundTypes, DiskInv, Good, StatusInv, Running,
      vars, mainVars, checkVars, httpVars, zipVars, taskVars, planVars, diskVars, envVars, NoTask
<1>q. QED
  BY <1>1, <1>2, <1>3, <1>4, <1>5, <1>6, <1>7, <1>8, <1>9, <1>10, <1>11, <1>12, <1>13, <1>14, <1>15,
     <1>16, <1>17, <1>18, <1>19, <1>20, <1>21, <1>22, <1>23, <1>24, <1>25, <1>26, <1>27, <1>28,
     <1>29, <1>30, <1>31, <1>32
     DEF Next, Responses, Frame, Http, Task, User

\* So it is at first.
LEMMA DiskInit == Init => DiskInv
  BY FilesAssumption, HashType DEF Init, DiskInv, Good, Running, Hashes, Torn

\* A successful installation leaves no file behind, unless an earlier one broke off.
THEOREM NothingLeftBehind == Spec => []NoStaleFile
<1> DEFINE Inv == TypeOK /\ StatusInv /\ ResponsesInv /\ BelowInv /\ ReleaseInv /\ DiskInv
<1>1. Init => Inv
  BY InOrderInit, ReleaseInit, DiskInit
<1>2. Inv /\ [Next]_vars => Inv'
  BY InOrderStep, ResponsesStep, BelowStep, ReleaseStep, DiskStep DEF TypeOK
<1>3. Inv => NoStaleFile
  BY DEF DiskInv, NoStaleFile, Good
<1> HIDE DEF Inv
<1> QED
  BY <1>1, <1>2, <1>3, PTL DEF Spec
=============================================================================
