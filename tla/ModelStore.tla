----------------------------- MODULE ModelStore -----------------------------
(***************************************************************************)
(* One model directory of %LOCALAPPDATA%\VoiceGardenSAPIAdapter\models and *)
(* the code of VoiceGarden.UI that fills it and looks at it:               *)
(* SherpaModelService.DownloadModelAsync, ScanInstalledModels and          *)
(* TryExtractArchives (SherpaModelService.cs), and what the Voices tab     *)
(* makes of them (VoicesViewModel.Download and LoadSherpaEntries).         *)
(*                                                                         *)
(* The window is a single instance, and its Download command runs one at a *)
(* time, so there is one download of the model; scans run on pool threads  *)
(* for Load voices, Preview and Promote, several at a time.  ArchiveLock   *)
(* orders the download's extraction and the scans' extractions.  The       *)
(* process may be closed or killed at any step; the files then stay as     *)
(* they are, and a new process starts from them.                           *)
(*                                                                         *)
(* A model comes as a .tar.bz2 archive or, for MMS models, as single files *)
(* of a HuggingFace directory.  Its files are numbered in archive order;   *)
(* file Onnx is the one that ScanInstalledModels looks for.                *)
(***************************************************************************)
EXTENDS Naturals, FiniteSets

CONSTANTS Files,     \* number of files in a model
          Onnx,      \* which of them is the .onnx file
          Scans,     \* threads that scan the models directory
          LoadScan   \* the one that fills the Voices tab

ASSUME OnnxAssumption == Files \in Nat /\ Onnx \in 1 .. Files
ASSUME LoadScanAssumption == LoadScan \in Scans

Dl == "download"
Nobody == "nobody"
ASSUME ActorAssumption == {Dl, Nobody} \intersect Scans = {}

Actors == {Dl} \union Scans
Content == {"none", "partial", "whole"}

VARIABLES
    route,        \* how the catalog URL serves this model: "archive" or "hf"
    dir,          \* does the model's directory exist?
    part,         \* the archive being downloaded, <name>.part
    bz2,          \* the archive under its own name
    tar,          \* its decompressed form
    file,         \* file[i]: the i-th file of the model
    at,           \* files the running extraction (or HF download) has finished
    pc,           \* pc[a]: where the download and each scan are
    lock,         \* owner of ArchiveLock
    ui,           \* what occupies the UI thread
    shown,        \* the model's row: "none", "downloadable", "downloaded"
    ownRow,       \* is the row the download reports to still the one listed?
    interrupted   \* history: an extraction or HF download broke off half way

vars == <<route, dir, part, bz2, tar, file, at, pc, lock, ui, shown, ownRow, interrupted>>
archives == <<part, bz2, tar>>
row == <<shown, ownRow>>

\* The steps of UnpackArchive are common to the download and to the scans.
Unpacking == {"unbz2", "unbz2ing", "untar", "untaring", "tidyTar", "tidyBz2"}

TypeOK ==
    /\ route \in {"archive", "hf"}
    /\ dir \in BOOLEAN
    /\ part \in Content /\ bz2 \in Content /\ tar \in Content
    /\ file \in [1 .. Files -> Content]
    /\ at \in 0 .. Files
    /\ pc \in [Actors -> {"idle", "connect", "receiving", "waiting", "granted", "moving",
                          "renaming", "hfConnect", "hfReceiving", "hfRest",
                          "present", "absent", "looking", "cleaning", "listing"}
                         \union Unpacking]
    /\ lock \in Actors \union {Nobody}
    /\ ui \in Actors \union {Nobody}
    /\ shown \in {"none", "downloadable", "downloaded"}
    /\ ownRow \in BOOLEAN
    /\ interrupted \in BOOLEAN

Init ==
    /\ route \in {"archive", "hf"}
    /\ dir = FALSE
    /\ part = "none" /\ bz2 = "none" /\ tar = "none"
    /\ file = [i \in 1 .. Files |-> "none"]
    /\ at = 0
    /\ pc = [a \in Actors |-> "idle"]
    /\ lock = Nobody
    /\ ui = Nobody
    /\ shown = "none"
    /\ ownRow = FALSE
    /\ interrupted = FALSE

Go(a, step) == pc' = [pc EXCEPT ![a] = step]

Visible == file[Onnx] # "none"
Complete == \A i \in 1 .. Files : file[i] = "whole"

-----------------------------------------------------------------------------
(* DownloadModelAsync. *)

\* The Download button of a row that is not marked as downloaded.
DownloadStarts ==
    /\ pc[Dl] = "idle"
    /\ shown = "downloadable"
    /\ Go(Dl, "connect")
    /\ ownRow' = TRUE
    /\ UNCHANGED <<route, dir, archives, file, at, lock, ui, shown, interrupted>>

\* The server refuses: the directory is removed if there is no file in it.
DownloadRefused ==
    /\ \/ pc[Dl] = "connect" /\ route = "archive"
       \/ pc[Dl] = "hfConnect"
    /\ dir' = (dir /\ (\/ part # "none" \/ bz2 # "none" \/ tar # "none"
                       \/ \E i \in 1 .. Files : file[i] # "none"))
    /\ Go(Dl, "idle")
    /\ UNCHANGED <<route, archives, file, at, lock, ui, row, interrupted>>

\* Mutant: the download writes under the archive's own name.
CreatePartInPlace ==
    /\ pc[Dl] = "connect"
    /\ route = "archive"
    /\ dir' = TRUE
    /\ bz2' = "partial"
    /\ Go(Dl, "receiving")
    /\ UNCHANGED <<route, part, tar, file, at, lock, ui, row, interrupted>>

CreatePart ==
    /\ pc[Dl] = "connect"
    /\ route = "archive"
    /\ dir' = TRUE
    /\ part' = "partial"
    /\ Go(Dl, "receiving")
    /\ UNCHANGED <<route, bz2, tar, file, at, lock, ui, row, interrupted>>

Received ==
    /\ pc[Dl] = "receiving"
    /\ part' = "whole"
    /\ Go(Dl, "waiting")
    /\ UNCHANGED <<route, dir, bz2, tar, file, at, lock, ui, row, interrupted>>

\* There is no connection, or it breaks: the .part file stays behind, or the
\* directory made for the single files.
ConnectionBreaks ==
    /\ \/ pc[Dl] \in {"receiving", "hfConnect"}
       \/ pc[Dl] = "connect" /\ route = "archive"
    /\ Go(Dl, "idle")
    /\ UNCHANGED <<route, dir, archives, file, at, lock, ui, row, interrupted>>

\* await ArchiveLock.WaitAsync() ...
LockGranted ==
    /\ pc[Dl] = "waiting"
    /\ lock = Nobody
    /\ lock' = Dl
    /\ Go(Dl, "granted")
    /\ UNCHANGED <<route, dir, archives, file, at, ui, row, interrupted>>

\* ... continues on the UI thread, and so does the extraction.
Resumes ==
    /\ pc[Dl] = "granted"
    /\ ui = Nobody
    /\ ui' = Dl
    /\ Go(Dl, "moving")
    /\ UNCHANGED <<route, dir, archives, file, at, lock, row, interrupted>>

\* TryDelete(destFile): an older archive is deleted, or, if somebody has it
\* open, is not ...
DeleteOld ==
    /\ pc[Dl] = "moving"
    /\ bz2' \in {"none", bz2}
    /\ Go(Dl, "renaming")
    /\ UNCHANGED <<route, dir, part, tar, file, at, lock, ui, row, interrupted>>

\* ... and File.Move(partFile, destFile), which does not overwrite.
MoveArchive ==
    /\ pc[Dl] = "renaming"
    /\ bz2 = "none"
    /\ bz2' = part
    /\ part' = "none"
    /\ Go(Dl, "unbz2")
    /\ UNCHANGED <<route, dir, tar, file, at, lock, ui, row, interrupted>>

\* DownloadHfDirectoryAsync makes the directory before it connects ...
HfMakesDir ==
    /\ pc[Dl] = "connect"
    /\ route = "hf"
    /\ dir' = TRUE
    /\ Go(Dl, "hfConnect")
    /\ UNCHANGED <<route, archives, file, at, lock, ui, row, interrupted>>

\* ... writes the model file in place ...
HfCreate ==
    /\ pc[Dl] = "hfConnect"
    /\ file' = [file EXCEPT ![Onnx] = "partial"]
    /\ Go(Dl, "hfReceiving")
    /\ UNCHANGED <<route, dir, archives, at, lock, ui, row, interrupted>>

HfReceived ==
    /\ pc[Dl] = "hfReceiving"
    /\ file' = [file EXCEPT ![Onnx] = "whole"]
    /\ Go(Dl, "hfRest")
    /\ UNCHANGED <<route, dir, archives, at, lock, ui, row, interrupted>>

HfBreaks ==
    /\ pc[Dl] = "hfReceiving"
    /\ interrupted' = TRUE
    /\ Go(Dl, "idle")
    /\ UNCHANGED <<route, dir, archives, file, at, lock, ui, row>>

\* The row of a finished download.
Reported ==
    /\ shown' = IF ownRow THEN "downloaded" ELSE shown
    /\ UNCHANGED ownRow

\* ... then the other files, each of which may fail without an error.
HfRest ==
    /\ pc[Dl] = "hfRest"
    /\ \/ /\ file' = [i \in 1 .. Files |-> "whole"]
          /\ UNCHANGED interrupted
       \/ /\ UNCHANGED file
          /\ interrupted' = TRUE
    /\ Go(Dl, "idle")
    /\ Reported
    /\ UNCHANGED <<route, dir, archives, at, lock, ui>>

-----------------------------------------------------------------------------
(* ExtractBz2 and ExtractTar, under ArchiveLock. *)

\* Release in the finally block; the UI thread is free again.
Releases(a) ==
    /\ lock' = Nobody
    /\ ui' = IF ui = a THEN Nobody ELSE ui

\* File.Move fails: the download ends, and the .part file stays behind.
MoveFails ==
    /\ pc[Dl] = "renaming"
    /\ Releases(Dl)
    /\ Go(Dl, "idle")
    /\ UNCHANGED <<route, dir, archives, file, at, row, interrupted>>

Unbz2Begins(a) ==
    /\ pc[a] = "unbz2"
    /\ bz2 # "none"
    /\ tar' = "partial"
    /\ Go(a, "unbz2ing")
    /\ UNCHANGED <<route, dir, part, bz2, file, at, lock, ui, row, interrupted>>

Unbz2Done(a) ==
    /\ pc[a] = "unbz2ing"
    /\ bz2 = "whole"
    /\ tar' = "whole"
    /\ at' = 0
    /\ Go(a, "untar")
    /\ UNCHANGED <<route, dir, part, bz2, file, lock, ui, row, interrupted>>

\* Mutant: an archive that cannot be decompressed is deleted.
Unbz2FailsAndDeletes(a) ==
    /\ pc[a] = "unbz2ing"
    /\ bz2' = "none"
    /\ Releases(a)
    /\ Go(a, IF a = Dl THEN "idle" ELSE "listing")
    /\ UNCHANGED <<route, dir, part, tar, file, at, row, interrupted>>

\* The archive is gone or damaged or the disk is full: a download fails with
\* the exception, a scan gives up silently and lists what there is.
Unbz2Fails(a) ==
    /\ \/ pc[a] = "unbz2" /\ bz2 = "none"
       \/ pc[a] = "unbz2ing"
    /\ Releases(a)
    /\ Go(a, IF a = Dl THEN "idle" ELSE "listing")
    /\ UNCHANGED <<route, dir, archives, file, at, row, interrupted>>

\* Mutant: the extraction does not stop after the last entry.
UntarCreatesPastTheEnd(a) ==
    /\ pc[a] = "untar"
    /\ file' = IF at < Files THEN [file EXCEPT ![at + 1] = "partial"] ELSE file
    /\ Go(a, "untaring")
    /\ UNCHANGED <<route, dir, archives, at, lock, ui, row, interrupted>>

UntarCreates(a) ==
    /\ pc[a] = "untar"
    /\ at < Files
    /\ file' = [file EXCEPT ![at + 1] = "partial"]
    /\ Go(a, "untaring")
    /\ UNCHANGED <<route, dir, archives, at, lock, ui, row, interrupted>>

UntarWrites(a) ==
    /\ pc[a] = "untaring"
    /\ file' = [file EXCEPT ![at + 1] = "whole"]
    /\ at' = at + 1
    /\ Go(a, "untar")
    /\ UNCHANGED <<route, dir, archives, lock, ui, row, interrupted>>

\* Mutant: the extraction stops once it has the model file.
UntarStopsEarly(a) ==
    /\ pc[a] = "untar"
    /\ at >= Onnx
    /\ Go(a, "tidyTar")
    /\ UNCHANGED <<route, dir, archives, file, at, lock, ui, row, interrupted>>

UntarDone(a) ==
    /\ pc[a] = "untar"
    /\ at = Files
    /\ Go(a, "tidyTar")
    /\ UNCHANGED <<route, dir, archives, file, at, lock, ui, row, interrupted>>

\* A download fails and leaves the archive; a scan ignores the exception and
\* deletes the archive all the same.
UntarFails(a) ==
    /\ pc[a] \in {"untar", "untaring"}
    /\ interrupted' = TRUE
    /\ IF a = Dl
         THEN Releases(a) /\ Go(a, "idle")
         ELSE UNCHANGED <<lock, ui>> /\ Go(a, "tidyTar")
    /\ UNCHANGED <<route, dir, archives, file, at, row>>

TidyTar(a) ==
    /\ pc[a] = "tidyTar"
    /\ tar' = "none"
    /\ Go(a, "tidyBz2")
    /\ UNCHANGED <<route, dir, part, bz2, file, at, lock, ui, row, interrupted>>

\* Mutant: the lock is not released after a successful extraction.
TidyBz2Locked(a) ==
    /\ pc[a] = "tidyBz2"
    /\ bz2' = "none"
    /\ Go(a, IF a = Dl THEN "idle" ELSE "listing")
    /\ IF a = Dl THEN Reported ELSE UNCHANGED row
    /\ UNCHANGED <<route, dir, part, tar, file, at, lock, ui, interrupted>>

TidyBz2(a) ==
    /\ pc[a] = "tidyBz2"
    /\ bz2' = "none"
    /\ Releases(a)
    /\ Go(a, IF a = Dl THEN "idle" ELSE "listing")
    /\ IF a = Dl THEN Reported ELSE UNCHANGED row
    /\ UNCHANGED <<route, dir, part, tar, file, at, interrupted>>

-----------------------------------------------------------------------------
(* ScanInstalledModels and TryExtractArchives. *)

\* Directory.GetDirectories decides whether the scan is going to list the
\* model.  LoadVoices has cleared the rows before.
ScanBegins(s) ==
    /\ pc[s] = "idle"
    /\ Go(s, IF dir THEN "present" ELSE "absent")
    /\ IF s = LoadScan THEN shown' = "none" /\ ownRow' = FALSE ELSE UNCHANGED row
    /\ UNCHANGED <<route, dir, archives, file, at, lock, ui, interrupted>>

\* TryExtractArchives first looks for an .onnx file, without the lock.
ScanLooks(s) ==
    /\ pc[s] = "present"
    /\ dir
    /\ Go(s, IF Visible THEN "cleaning" ELSE "looking")
    /\ UNCHANGED <<route, dir, archives, file, at, lock, ui, row, interrupted>>

\* The directory has gone since: GetFiles throws, the lock if it was taken is
\* released, and the whole scan yields nothing, the Voices tab no row.
ScanFails(s) ==
    /\ \/ pc[s] \in {"present", "listing"}
       \/ pc[s] = "looking" /\ lock = Nobody
    /\ ~dir
    /\ Go(s, "idle")
    /\ UNCHANGED <<route, dir, archives, file, at, lock, ui, row, interrupted>>

\* There was one: leftover archives are deleted, still without the lock.  An
\* archive that an extraction has open cannot be deleted, which is ignored.
ScanCleans(s) ==
    /\ pc[s] = "cleaning"
    /\ bz2' = IF \E a \in Actors : pc[a] = "unbz2ing" THEN bz2 ELSE "none"
    /\ tar' = IF \E a \in Actors : pc[a] \in {"unbz2ing", "untar", "untaring"}
                THEN tar ELSE "none"
    /\ Go(s, "listing")
    /\ UNCHANGED <<route, dir, part, file, at, lock, ui, row, interrupted>>

\* Mutant: the scan runs on the UI thread and blocks it.
ScanLocksOnUi(s) ==
    /\ pc[s] = "looking"
    /\ ui \in {Nobody, s}
    /\ ui' = s
    /\ IF lock = Nobody
         THEN lock' = s /\ Go(s, IF bz2 # "none" THEN "unbz2"
                                 ELSE IF tar # "none" THEN "untar" ELSE "tidyTar")
         ELSE UNCHANGED <<lock, pc>>
    /\ at' = IF lock = Nobody THEN 0 ELSE at
    /\ UNCHANGED <<route, dir, archives, file, row, interrupted>>

\* There was none: under the lock, a .tar.bz2 is extracted, or else a lone
\* .tar; with neither there is nothing to tidy up and the lock is released.
ScanLocks(s) ==
    /\ pc[s] = "looking"
    /\ dir
    /\ lock = Nobody
    /\ lock' = s
    /\ at' = 0
    /\ Go(s, IF bz2 # "none" THEN "unbz2" ELSE IF tar # "none" THEN "untar" ELSE "tidyTar")
    /\ UNCHANGED <<route, dir, archives, file, ui, row, interrupted>>

\* A directory that was there is listed as an installed model, whatever is in
\* it, and the Voices tab gets a new row.
ScanLists(s) ==
    /\ \/ pc[s] = "listing" /\ dir
       \/ pc[s] = "absent"
    /\ shown' = IF s # LoadScan THEN shown
                 ELSE IF pc[s] = "listing" THEN "downloaded" ELSE "downloadable"
    /\ Go(s, "idle")
    /\ UNCHANGED <<route, dir, archives, file, at, lock, ui, ownRow, interrupted>>

-----------------------------------------------------------------------------
\* The window is closed or the process dies, and is started again.
Restart ==
    /\ interrupted' = (interrupted \/ \E a \in Actors :
                          pc[a] \in {"untar", "untaring", "hfReceiving", "hfRest"})
    /\ pc' = [a \in Actors |-> "idle"]
    /\ lock' = Nobody
    /\ ui' = Nobody
    /\ at' = 0
    /\ shown' = "none"
    /\ ownRow' = FALSE
    /\ UNCHANGED <<route, dir, archives, file>>

Unpacks(a) ==
    \/ Unbz2Begins(a) \/ Unbz2Done(a) \/ Unbz2Fails(a)
    \/ UntarCreates(a) \/ UntarWrites(a) \/ UntarDone(a) \/ UntarFails(a)
    \/ TidyTar(a) \/ TidyBz2(a)

DownloadSteps ==
    \/ DownloadRefused \/ CreatePart \/ Received \/ ConnectionBreaks
    \/ LockGranted \/ Resumes \/ DeleteOld \/ MoveArchive \/ MoveFails
    \/ HfMakesDir \/ HfCreate \/ HfReceived \/ HfBreaks \/ HfRest
    \/ Unpacks(Dl)

ScanSteps(s) ==
    ScanLooks(s) \/ ScanFails(s) \/ ScanCleans(s) \/ ScanLocks(s) \/ ScanLists(s) \/ Unpacks(s)

Next ==
    \/ DownloadStarts \/ DownloadSteps
    \/ \E s \in Scans : ScanBegins(s) \/ ScanSteps(s)
    \/ Restart

Spec == Init /\ [][Next]_vars

\* A download and a scan that have begun go on, and a semaphore that is freed
\* over and over is granted in the end (SemaphoreSlim queues its waiters).
Fairness ==
    /\ SF_vars(DownloadSteps)
    /\ \A s \in Scans : SF_vars(ScanSteps(s))

FairSpec == Spec /\ Fairness
-----------------------------------------------------------------------------
(* Properties. *)

Working == \E a \in Actors : pc[a] \in Unpacking \union {"hfReceiving", "hfRest"}

\* A model whose .onnx file is there is there entirely, once nobody is at
\* work on it: a download that is cut off anywhere but in the middle of
\* writing the files themselves leaves nothing that passes for a model.
CompleteUnlessInterrupted ==
    Visible /\ ~Working /\ ~interrupted => Complete

\* "Downloads stage as <name>.part so directory scans never see a partial
\* archive": whatever is found under the archive's own name is whole.
ArchivesAreWhole == bz2 # "partial"

\* An archive disappears only when the model is there, when writing its files
\* went wrong, or when a whole newer copy is about to take its name.  Whether
\* that copy ever does is what CompletedDownloadsHeal asks.
ArchiveOutlivesExtraction ==
    [][bz2 = "whole" /\ bz2' = "none" =>
           Visible' \/ interrupted' \/ (part' = "whole" /\ pc'[Dl] = "renaming")]_vars

\* A download or scan that has begun ends: ArchiveLock and the UI thread are
\* never waited for in a circle.
EverythingEnds == \A a \in Actors : pc[a] # "idle" ~> pc[a] = "idle"

\* "Self-heals downloads that completed but never extracted": a scan that gets
\* to the model's directory, when a download has completed there and nobody is
\* at work on it, leaves a model file.
CompletedDownloadsHeal ==
    [][\A s \in Scans :
          pc[s] = "listing" /\ pc'[s] = "idle" /\ part = "whole" /\ pc[Dl] = "idle"
          => Visible]_vars
=============================================================================
