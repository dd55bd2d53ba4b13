-------------------------- MODULE ModelStoreProofs --------------------------
(***************************************************************************)
(* Theorems about ModelStore, for any number of files and of scans.        *)
(*                                                                         *)
(* What is found under an archive's own name is whole, since it gets that  *)
(* name after the last byte; ArchiveLock keeps to one extraction at a      *)
(* time; so that outside it, and outside a download of single files, a     *)
(* model is there as a whole or not at all, unless something broke off     *)
(* while its files were written.  The last parts are about progress, and   *)
(* about what the row of the Voices tab is told.                           *)
(***************************************************************************)
EXTENDS ModelStore, TLAPS

\* An archive under its own name is whole, and so is one about to get it.
StagedInv ==
    /\ ArchivesAreWhole
    /\ pc[Dl] \in {"waiting", "granted", "moving", "renaming"} => part = "whole"

\* Whoever unpacks holds ArchiveLock, and a file is open only if there is one.
LockInv ==
    \A a \in Actors :
        /\ pc[a] \in Unpacking \union {"granted", "moving", "renaming"} => lock = a
        /\ pc[a] = "untaring" => at < Files

\* A model comes as an archive or as single files.
RouteInv ==
    /\ route = "hf" =>
         /\ bz2 = "none" /\ tar = "none"
         /\ pc[Dl] \notin {"receiving", "waiting", "granted", "moving", "renaming"}
         /\ \A a \in Actors : pc[a] \notin {"unbz2", "unbz2ing", "untar", "untaring"}
    /\ route = "archive" => pc[Dl] \notin {"hfConnect", "hfReceiving", "hfRest"}

Writing(a) == pc[a] \in {"untar", "untaring"}
AllOrNothing == Complete \/ \A i \in 1 .. Files : file[i] = "none"

\* An extraction has written the files up to the one it is at; nothing else
\* leaves a model half way.
FileInv ==
    ~interrupted =>
        /\ \/ AllOrNothing
           \/ \E a \in Actors : Writing(a)
           \/ pc[Dl] \in {"hfReceiving", "hfRest"}
        /\ pc[Dl] = "hfRest" => Visible
        /\ \A a \in Actors : Writing(a) => \A i \in 1 .. at : file[i] = "whole"

\* An archive is deleted by those who know that it is not needed any more.
TidyInv ==
    \A a \in Actors :
        /\ pc[a] = "cleaning" => Visible
        /\ pc[a] \in {"tidyTar", "tidyBz2"} => Visible \/ interrupted \/ bz2 = "none"

StoreInv == TypeOK /\ StagedInv /\ LockInv /\ RouteInv /\ FileInv /\ TidyInv

\* The download is none of the scans, and nobody is Nobody.
LEMMA ActorFacts ==
    /\ Dl \in Actors /\ Nobody \notin Actors /\ Dl # Nobody
    /\ \A s \in Scans : s \in Actors /\ s # Dl
    /\ LoadScan \in Actors
    /\ Files \in Nat /\ Onnx \in 1 .. Files
BY ActorAssumption, LoadScanAssumption, OnnxAssumption DEF Actors, Dl, Nobody

-----------------------------------------------------------------------------
(* The steps of a download. *)

\* A download, up to where it has ArchiveLock and after it.
LEMMA DownloadKeeps ==
    ASSUME StoreInv, DownloadStarts \/ DownloadSteps, ~Unpacks(Dl)
    PROVE  StoreInv'
<1> USE ActorFacts DEF StoreInv, TypeOK, Content, StagedInv, ArchivesAreWhole, LockInv, RouteInv,
                       Unpacking, Go, archives, row
<1>1. CASE DownloadStarts
  BY <1>1 DEF DownloadStarts, FileInv, TidyInv, Writing, AllOrNothing, Complete, Visible
<1>2. CASE DownloadRefused
  BY <1>2 DEF DownloadRefused, FileInv, TidyInv, Writing, AllOrNothing, Complete, Visible
<1>3. CASE CreatePart \/ Received \/ ConnectionBreaks
  <2> USE DEF FileInv, TidyInv, Writing, AllOrNothing, Complete, Visible
  <2>1. CASE CreatePart BY <2>1 DEF CreatePart
  <2>2. CASE Received BY <2>2 DEF Received
  <2>3. CASE ConnectionBreaks BY <2>3 DEF ConnectionBreaks
  <2> QED BY <1>3, <2>1, <2>2, <2>3
<1>4. CASE LockGranted \/ Resumes
  BY <1>4 DEF LockGranted, Resumes, FileInv, TidyInv, Writing, AllOrNothing, Complete, Visible
<1>5. CASE DeleteOld \/ MoveArchive \/ MoveFails
  <2> USE DEF FileInv, TidyInv, Writing, AllOrNothing, Complete, Visible
  <2>0. \A a \in Actors : pc[a] \in Unpacking => a = Dl
    BY <1>5 DEF DeleteOld, MoveArchive, MoveFails
  <2>1. CASE DeleteOld BY <2>0, <2>1 DEF DeleteOld
  <2>2. CASE MoveArchive BY <2>0, <2>2 DEF MoveArchive
  <2>3. CASE MoveFails BY <2>0, <2>3 DEF MoveFails, Releases
  <2> QED BY <1>5, <2>1, <2>2, <2>3
<1>6. CASE HfMakesDir \/ HfCreate
  <2>1. CASE HfMakesDir
    BY <2>1 DEF HfMakesDir, FileInv, TidyInv, Writing, AllOrNothing, Complete, Visible
  <2>2. CASE HfCreate BY <2>2 DEF HfCreate, FileInv, TidyInv, Writing, Visible
  <2> QED BY <1>6, <2>1, <2>2
<1>7. CASE HfReceived
  BY <1>7 DEF HfReceived, FileInv, TidyInv, Writing, Visible
<1>8. CASE HfBreaks
  BY <1>8 DEF HfBreaks, FileInv, TidyInv, Visible
<1>9. CASE HfRest
  BY <1>9 DEF HfRest, Reported, FileInv, TidyInv, Writing, AllOrNothing, Complete, Visible
<1> QED BY <1>1, <1>2, <1>3, <1>4, <1>5, <1>6, <1>7, <1>8, <1>9 DEF DownloadSteps

\* Unpacking, by whoever holds the lock.
LEMMA UnpackKeeps ==
    ASSUME StoreInv, NEW a \in Actors, Unpacks(a)
    PROVE  StoreInv'
<1> USE ActorFacts DEF StoreInv, TypeOK, Content, StagedInv, ArchivesAreWhole, LockInv, RouteInv,
                       Unpacking, Go, archives, row
<1>0. lock = a /\ \A b \in Actors \ {a} : pc[b] \notin Unpacking \union {"granted", "moving", "renaming"}
  BY DEF Unpacks, Unbz2Begins, Unbz2Done, Unbz2Fails, UntarCreates, UntarWrites, UntarDone,
         UntarFails, TidyTar, TidyBz2
<1>1. CASE Unbz2Begins(a) \/ Unbz2Done(a)
  BY <1>0, <1>1 DEF Unbz2Begins, Unbz2Done, FileInv, TidyInv, Writing, AllOrNothing, Complete,
                    Visible
<1>2. CASE Unbz2Fails(a)
  BY <1>0, <1>2 DEF Unbz2Fails, Releases, FileInv, TidyInv, Writing, AllOrNothing, Complete,
                    Visible
<1>3. CASE UntarCreates(a)
  BY <1>0, <1>3 DEF UntarCreates, FileInv, TidyInv, Writing, Visible
<1>4. CASE UntarWrites(a)
  <2>1. at \in Nat /\ at \in 0 .. Files /\ pc[a] = "untaring" /\ at' = at + 1 /\ bz2' = bz2
    BY <1>4 DEF UntarWrites
  <2>2. at + 1 \in 1 .. Files BY <2>1
  <2>3. at' \in 0 .. Files BY <2>1, <2>2
  <2>4. TypeOK' /\ StagedInv' /\ LockInv' /\ RouteInv' BY <1>0, <1>4, <2>3 DEF UntarWrites
  <2>5. FileInv' BY <1>0, <1>4, <2>1, <2>2 DEF UntarWrites, FileInv, Writing, Visible
  <2>6. TidyInv' BY <1>0, <1>4 DEF UntarWrites, TidyInv, Visible
  <2> QED BY <2>4, <2>5, <2>6
<1>5. CASE UntarDone(a)
  BY <1>0, <1>5 DEF UntarDone, FileInv, TidyInv, Writing, AllOrNothing, Complete, Visible
<1>6. CASE UntarFails(a)
  BY <1>0, <1>6 DEF UntarFails, Releases, FileInv, TidyInv, Writing, Visible
<1>7. CASE TidyTar(a)
  BY <1>0, <1>7 DEF TidyTar, FileInv, TidyInv, Writing, AllOrNothing, Complete, Visible
<1>8. CASE TidyBz2(a)
  BY <1>0, <1>8 DEF TidyBz2, Releases, Reported, FileInv, TidyInv, Writing, AllOrNothing, Complete,
                    Visible
<1> QED BY <1>1, <1>2, <1>3, <1>4, <1>5, <1>6, <1>7, <1>8 DEF Unpacks

\* The steps of a scan, and the end of the process.
LEMMA ScanKeeps ==
    ASSUME StoreInv, NEW s \in Scans,
           \/ ScanBegins(s) \/ ScanLooks(s) \/ ScanFails(s)
           \/ ScanCleans(s) \/ ScanLocks(s) \/ ScanLists(s)
    PROVE  StoreInv'
<1> USE ActorFacts DEF StoreInv, TypeOK, Content, StagedInv, ArchivesAreWhole, LockInv, RouteInv,
                       Unpacking, Go, archives, row
<1>0. CASE ScanBegins(s)
  <2>1. ownRow' \in BOOLEAN BY <1>0 DEF ScanBegins
  <2> QED
    BY <1>0, <2>1 DEF ScanBegins, FileInv, TidyInv, Writing, AllOrNothing, Complete, Visible
<1>1. CASE ScanLooks(s) \/ ScanFails(s)
  BY <1>1 DEF ScanLooks, ScanFails, FileInv, TidyInv, Writing, AllOrNothing, Complete, Visible
<1>2. CASE ScanCleans(s)
  BY <1>2 DEF ScanCleans, FileInv, TidyInv, Writing, AllOrNothing, Complete, Visible
<1>3. CASE ScanLocks(s)
  <2>1. \A a \in Actors : pc[a] \notin Unpacking \union {"granted", "moving", "renaming"}
    BY <1>3 DEF ScanLocks
  <2> QED
    BY <1>3, <2>1 DEF ScanLocks, FileInv, TidyInv, Writing, AllOrNothing, Complete, Visible
<1>4. CASE ScanLists(s)
  <2>1. shown' \in {"none", "downloadable", "downloaded"} /\ ownRow' \in BOOLEAN
    BY <1>4 DEF ScanLists
  <2> QED
    BY <1>4, <2>1 DEF ScanLists, FileInv, TidyInv, Writing, AllOrNothing, Complete, Visible
<1> QED BY <1>0, <1>1, <1>2, <1>3, <1>4

\* The end of the process: whatever was written half way counts as interrupted.
LEMMA RestartKeeps ==
    ASSUME StoreInv, Restart
    PROVE  StoreInv'
<1> USE ActorFacts DEF StoreInv, TypeOK, Content, StagedInv, ArchivesAreWhole, LockInv, RouteInv,
                       Unpacking, Go, archives, row
<1>1. StagedInv' /\ LockInv' /\ RouteInv' BY DEF Restart
<1>4. TypeOK'
  <2>1. interrupted' \in BOOLEAN BY DEF Restart
  <2>2. ownRow' \in BOOLEAN BY DEF Restart
  <2> QED BY <2>1, <2>2 DEF Restart
<1>2. TidyInv' BY DEF Restart, TidyInv
<1>3. FileInv'
  <2>1. SUFFICES ASSUME ~interrupted' PROVE AllOrNothing'
    BY DEF Restart, FileInv, Writing
  <2>2. ~interrupted /\ \A a \in Actors : ~Writing(a) /\ pc[a] \notin {"hfReceiving", "hfRest"}
    BY <2>1 DEF Restart, Writing
  <2> QED BY <2>2 DEF Restart, FileInv, AllOrNothing, Complete
<1> QED BY <1>1, <1>2, <1>3, <1>4

-----------------------------------------------------------------------------
(* The invariant, and what follows. *)

\* An empty directory.
LEMMA InitHolds == Init => StoreInv
<1> SUFFICES ASSUME Init PROVE StoreInv OBVIOUS
<1> USE ActorFacts DEF Init
<1>1. TypeOK
  <2>1. dir \in BOOLEAN /\ ownRow \in BOOLEAN /\ interrupted \in BOOLEAN OBVIOUS
  <2>2. at \in 0 .. Files /\ file \in [1 .. Files -> Content] BY DEF Content
  <2> QED BY <2>1, <2>2 DEF TypeOK, Content
<1>2. \A a \in Actors : pc[a] = "idle" OBVIOUS
<1>3. StagedInv /\ LockInv /\ RouteInv
  BY <1>2 DEF StagedInv, ArchivesAreWhole, LockInv, RouteInv, Unpacking
<1>4. FileInv /\ TidyInv BY <1>2 DEF FileInv, TidyInv, Writing, AllOrNothing
<1> QED BY <1>1, <1>3, <1>4 DEF StoreInv

\* Every step keeps the invariant.
LEMMA NextHolds == StoreInv /\ [Next]_vars => StoreInv'
<1> SUFFICES ASSUME StoreInv, [Next]_vars PROVE StoreInv' OBVIOUS
<1>1. CASE Next
  BY <1>1, ActorFacts, DownloadKeeps, UnpackKeeps, ScanKeeps, RestartKeeps
     DEF Next, DownloadSteps, ScanSteps
<1>2. CASE UNCHANGED vars
  BY <1>2 DEF vars, archives, row, StoreInv, TypeOK, StagedInv, ArchivesAreWhole, LockInv, RouteInv,
              FileInv, TidyInv, Writing, AllOrNothing, Complete, Visible
<1> QED BY <1>1, <1>2

\* Downloads, scans, failures and restarts keep the invariant.
THEOREM StoreInvAlways == Spec => []StoreInv
<1> QED BY InitHolds, NextHolds, PTL DEF Spec

\* Every variable keeps to its type.
THEOREM TypesHold == Spec => []TypeOK
<1>1. StoreInv => TypeOK BY DEF StoreInv
<1> QED BY <1>1, StoreInvAlways, PTL

\* What is found under an archive's own name is whole.
THEOREM ArchivesStageWhole == Spec => []ArchivesAreWhole
<1>1. StoreInv => ArchivesAreWhole BY DEF StoreInv, StagedInv
<1> QED BY <1>1, StoreInvAlways, PTL

\* A model that nobody works on is complete or invisible, unless it was
\* interrupted.
THEOREM ModelsAreComplete == Spec => []CompleteUnlessInterrupted
<1>1. StoreInv => CompleteUnlessInterrupted
  <2> SUFFICES ASSUME StoreInv, Visible, ~Working, ~interrupted PROVE Complete
      BY DEF CompleteUnlessInterrupted
  <2>1. AllOrNothing
    BY ActorFacts DEF StoreInv, FileInv, Working, Writing, Unpacking
  <2> QED BY <2>1, ActorFacts DEF AllOrNothing, Visible
<1> QED BY <1>1, StoreInvAlways, PTL

\* An archive goes only when the model is there, its writing went wrong, or a
\* whole newer copy is staged for its name.
THEOREM ArchivesOutlive == Spec => ArchiveOutlivesExtraction
<1> DEFINE Excused == Visible' \/ interrupted' \/ (part' = "whole" /\ pc'[Dl] = "renaming")
<1>1. ASSUME StoreInv, [Next]_vars, bz2 = "whole", bz2' = "none"
      PROVE  Excused
  <2> USE ActorFacts
  <2>1. CASE (DownloadStarts \/ DownloadSteps) /\ ~Unpacks(Dl)
    <3>1. DeleteOld
      BY <1>1, <2>1 DEF DownloadStarts, DownloadSteps, DownloadRefused, CreatePart, Received,
                        ConnectionBreaks, LockGranted, Resumes, MoveArchive, MoveFails, HfMakesDir,
                        HfCreate, HfReceived, HfBreaks, HfRest, archives
    <3> QED BY <1>1, <3>1 DEF DeleteOld, Go, StoreInv, TypeOK, StagedInv
  <2>2. ASSUME NEW a \in Actors, Unpacks(a) PROVE Excused
    <3>1. TidyBz2(a)
      BY <1>1, <2>2 DEF Unpacks, Unbz2Begins, Unbz2Done, Unbz2Fails, UntarCreates, UntarWrites,
                        UntarDone, UntarFails, TidyTar, archives
    <3> QED BY <1>1, <3>1 DEF TidyBz2, StoreInv, TidyInv, Visible
  <2>3. ASSUME NEW s \in Scans,
               \/ ScanBegins(s) \/ ScanLooks(s) \/ ScanFails(s)
               \/ ScanCleans(s) \/ ScanLocks(s) \/ ScanLists(s)
        PROVE  Excused
    <3>1. ScanCleans(s)
      BY <1>1, <2>3 DEF ScanBegins, ScanLooks, ScanFails, ScanLocks, ScanLists, archives
    <3> QED BY <1>1, <3>1 DEF ScanCleans, StoreInv, TidyInv, Visible
  <2>4. CASE Restart BY <1>1, <2>4 DEF Restart, archives
  <2>5. CASE UNCHANGED vars BY <1>1, <2>5 DEF vars, archives
  <2> QED BY <1>1, <2>1, <2>2, <2>3, <2>4, <2>5 DEF Next, DownloadSteps, ScanSteps
<1>2. StoreInv /\ [Next]_vars => [bz2 = "whole" /\ bz2' = "none" => Excused]_vars
  BY <1>1
<1> QED BY <1>2, StoreInvAlways, PTL DEF Spec, ArchiveOutlivesExtraction

-----------------------------------------------------------------------------
(* What EverythingEnds rests on beside fairness: nobody waits in a circle, *)
(* and who does not wait gets on.                                          *)

\* Who waits for whom: ArchiveLock, and the UI thread to continue on.
WaitsFor(a, b) ==
    \/ pc[a] \in {"waiting", "looking"} /\ lock = b
    \/ pc[a] = "granted" /\ ui = b

\* However many there are, one of them waits for none of the others.
NoCircle == \A S \in SUBSET Actors : S # {} => \E a \in S : \A b \in S : ~WaitsFor(a, b)

\* The lock and the UI thread belong to somebody who is going to release
\* them, and whoever has the UI thread has the lock already.
OwnerInv ==
    /\ lock # Nobody => pc[lock] \in Unpacking \union {"granted", "moving", "renaming"}
    /\ ui # Nobody => ui = Dl /\ lock = Dl /\ pc[Dl] \in Unpacking \union {"moving", "renaming"}
    /\ \A s \in Scans : pc[s] \notin {"waiting", "granted", "moving", "renaming"}

\* Where an actor is on its way; only the extraction goes round, once for
\* every file.
Place ==
    [idle |-> 0, connect |-> 1, present |-> 1, looking |-> 2, cleaning |-> 2, receiving |-> 2,
     hfConnect |-> 2, hfReceiving |-> 3, hfRest |-> 4, waiting |-> 3, granted |-> 4,
     moving |-> 5, renaming |-> 6, unbz2 |-> 7, unbz2ing |-> 8, untar |-> 9, untaring |-> 10,
     tidyTar |-> 11, tidyBz2 |-> 12, listing |-> 13, absent |-> 13]

GetsOn(a) ==
    \/ pc'[a] = pc[a] /\ (Writing(a) => at' = at)
    \/ pc'[a] = "idle"
    \/ Place[pc[a]] < Place[pc'[a]] /\ (Writing(a) => at' = at)
    \/ pc[a] = "untaring" /\ pc'[a] = "untar" /\ at' = at + 1 /\ at' <= Files

\* A step keeps the owners in order.
LEMMA OwnerNext ==
    ASSUME StoreInv, OwnerInv, [Next]_vars
    PROVE  OwnerInv'
<1> USE ActorFacts DEF StoreInv, TypeOK, OwnerInv, LockInv, Unpacking, Go
<1>1. CASE DownloadStarts \/ DownloadRefused \/ CreatePart \/ Received \/ ConnectionBreaks
    BY <1>1 DEF DownloadStarts, DownloadRefused, CreatePart, Received, ConnectionBreaks
<1>2. CASE LockGranted \/ Resumes \/ DeleteOld \/ MoveArchive \/ MoveFails
    BY <1>2 DEF LockGranted, Resumes, DeleteOld, MoveArchive, MoveFails, Releases
<1>3. CASE HfMakesDir \/ HfCreate \/ HfReceived \/ HfBreaks \/ HfRest
    BY <1>3 DEF HfMakesDir, HfCreate, HfReceived, HfBreaks, HfRest
<1>4. ASSUME NEW a \in Actors, Unpacks(a) PROVE OwnerInv'
    <2>1. lock = a
        BY <1>4 DEF Unpacks, Unbz2Begins, Unbz2Done, Unbz2Fails, UntarCreates, UntarWrites,
                    UntarDone, UntarFails, TidyTar, TidyBz2
    <2>2. CASE Unbz2Begins(a) \/ Unbz2Done(a) \/ UntarCreates(a) \/ UntarWrites(a)
                  \/ UntarDone(a) \/ TidyTar(a)
        BY <2>1, <2>2 DEF Unbz2Begins, Unbz2Done, UntarCreates, UntarWrites, UntarDone, TidyTar
    <2>3. CASE Unbz2Fails(a) \/ UntarFails(a) \/ TidyBz2(a)
        BY <2>1, <2>3 DEF Unbz2Fails, UntarFails, TidyBz2, Releases
    <2> QED
        BY <1>4, <2>2, <2>3 DEF Unpacks
<1>5. ASSUME NEW s \in Scans,
             \/ ScanBegins(s) \/ ScanLooks(s) \/ ScanFails(s)
             \/ ScanCleans(s) \/ ScanLocks(s) \/ ScanLists(s)
      PROVE  OwnerInv'
    BY <1>5 DEF ScanBegins, ScanLooks, ScanFails, ScanCleans, ScanLocks, ScanLists
<1>6. CASE Restart
    BY <1>6 DEF Restart
<1>7. CASE UNCHANGED vars
    BY <1>7 DEF vars
<1> QED
    BY <1>1, <1>2, <1>3, <1>4, <1>5, <1>6, <1>7 DEF Next, DownloadSteps, ScanSteps

\* A download that waits for the UI thread while it has ArchiveLock, and
\* scans that wait for ArchiveLock, never wait in a circle.
THEOREM NobodyWaitsInACircle == Spec => []NoCircle
<1>1. Init => OwnerInv
    BY ActorFacts DEF Init, OwnerInv
<1>2. StoreInv /\ OwnerInv => NoCircle
    <2> SUFFICES ASSUME StoreInv, OwnerInv, NEW S \in SUBSET Actors, S # {},
                        \A a \in S : \E b \in S : WaitsFor(a, b)
                 PROVE  FALSE
        BY DEF NoCircle
    <2> USE ActorFacts DEF OwnerInv, WaitsFor, Unpacking
    <2>1. ui \notin S
        <3> SUFFICES ASSUME ui \in S PROVE FALSE
            OBVIOUS
        <3>1. pc[ui] \in Unpacking \union {"moving", "renaming"}
            BY DEF Actors
        <3> QED
            BY <3>1
    <2>2. lock \notin S
        <3> SUFFICES ASSUME lock \in S PROVE FALSE
            OBVIOUS
        <3>1. pc[lock] \in Unpacking \union {"granted", "moving", "renaming"}
            BY DEF Actors
        <3> QED
            BY <2>1, <3>1
    <2> QED
        BY <2>1, <2>2
<1> QED
    BY <1>1, <1>2, OwnerNext, StoreInvAlways, PTL DEF Spec

\* Whatever happens, a download or scan that has begun gets on or ends: it
\* can make no more than one step for each place and two for each file.
THEOREM EverybodyGetsOn == Spec => [][\A a \in Actors : pc[a] # "idle" => GetsOn(a)]_vars
<1>1. ASSUME StoreInv, Next, NEW a \in Actors, pc[a] # "idle" PROVE GetsOn(a)
    <2> USE ActorFacts DEF StoreInv, TypeOK, LockInv, Unpacking, Go, GetsOn, Place, Writing
    <2>1. CASE DownloadStarts \/ DownloadRefused \/ CreatePart \/ Received \/ ConnectionBreaks
        BY <1>1, <2>1 DEF DownloadStarts, DownloadRefused, CreatePart, Received, ConnectionBreaks
    <2>2. CASE LockGranted \/ Resumes \/ DeleteOld \/ MoveArchive \/ MoveFails
        BY <1>1, <2>2 DEF LockGranted, Resumes, DeleteOld, MoveArchive, MoveFails, Releases
    <2>3. CASE HfMakesDir \/ HfCreate \/ HfReceived \/ HfBreaks \/ HfRest
        BY <1>1, <2>3 DEF HfMakesDir, HfCreate, HfReceived, HfBreaks, HfRest
    <2>4. ASSUME NEW b \in Actors, Unpacks(b) PROVE GetsOn(a)
        <3>1. \A c \in Actors : Writing(c) => c = b
            BY <1>1, <2>4 DEF Unpacks, Unbz2Begins, Unbz2Done, Unbz2Fails, UntarCreates, UntarWrites,
                        UntarDone, UntarFails, TidyTar, TidyBz2
        <3>2. CASE Unbz2Begins(b) \/ Unbz2Done(b) \/ Unbz2Fails(b)
            BY <1>1, <3>1, <3>2 DEF Unbz2Begins, Unbz2Done, Unbz2Fails
        <3>3. CASE UntarCreates(b) \/ UntarDone(b) \/ UntarFails(b)
            BY <1>1, <3>1, <3>3 DEF UntarCreates, UntarDone, UntarFails
        <3>4. CASE UntarWrites(b)
            BY <1>1, <3>1, <3>4 DEF UntarWrites
        <3>5. CASE TidyTar(b) \/ TidyBz2(b)
            BY <1>1, <3>1, <3>5 DEF TidyTar, TidyBz2
        <3> QED
            BY <2>4, <3>2, <3>3, <3>4, <3>5 DEF Unpacks
    <2>5. ASSUME NEW s \in Scans,
                 \/ ScanBegins(s) \/ ScanLooks(s) \/ ScanFails(s)
                 \/ ScanCleans(s) \/ ScanLists(s)
          PROVE  GetsOn(a)
        BY <1>1, <2>5 DEF ScanBegins, ScanLooks, ScanFails, ScanCleans, ScanLists
    <2>6. ASSUME NEW s \in Scans, ScanLocks(s) PROVE GetsOn(a)
        <3>1. ~Writing(a)
            BY <1>1, <2>6 DEF ScanLocks
        <3> QED
            BY <1>1, <2>6, <3>1 DEF ScanLocks
    <2>7. CASE Restart
        BY <2>7 DEF Restart
    <2> QED
        BY <1>1, <2>1, <2>2, <2>3, <2>4, <2>5, <2>6, <2>7 DEF Next, DownloadSteps, ScanSteps
<1>2. StoreInv /\ [Next]_vars => [\A a \in Actors : pc[a] # "idle" => GetsOn(a)]_vars
    BY <1>1
<1> QED
    BY <1>2, StoreInvAlways, PTL DEF Spec

-----------------------------------------------------------------------------
(* What a row of the Voices tab is told.  A row says Downloaded of every   *)
(* directory the scan has found, with or without a model in it; a download *)
(* says it only of a model.                                                *)

\* Whatever has been interrupted before, an extraction has written the files
\* up to the one it is at, and a download that gets beyond it has a model.
ReportInv ==
    /\ \A a \in Actors : Writing(a) => \A i \in 1 .. at : file[i] = "whole"
    /\ pc[Dl] \in {"hfRest", "tidyTar", "tidyBz2"} => Visible

\* The row becomes Downloaded because a model is there, or because the scan
\* that builds the list has found the directory.
OnlyTheListingGuesses ==
    shown' # shown /\ shown' = "downloaded" => Visible' \/ pc[LoadScan] = "listing"

\* The inductive step.
LEMMA ReportInvNext ==
    ASSUME StoreInv, ReportInv, [Next]_vars
    PROVE  ReportInv' /\ OnlyTheListingGuesses
<1> USE ActorFacts DEF StoreInv, TypeOK, LockInv, Unpacking, Go, row, archives, Reported,
                       ReportInv, OnlyTheListingGuesses, Writing, Visible
<1>1. CASE DownloadStarts \/ DownloadRefused \/ CreatePart \/ Received \/ ConnectionBreaks
    BY <1>1 DEF DownloadStarts, DownloadRefused, CreatePart, Received, ConnectionBreaks
<1>2. CASE LockGranted \/ Resumes \/ DeleteOld \/ MoveArchive \/ MoveFails
    BY <1>2 DEF LockGranted, Resumes, DeleteOld, MoveArchive, MoveFails, Releases
<1>3. CASE HfMakesDir \/ HfCreate \/ HfReceived \/ HfBreaks
    <2>1. \A a \in Actors : ~Writing(a)
        BY <1>3 DEF HfMakesDir, HfCreate, HfReceived, HfBreaks, RouteInv
    <2> QED
        BY <1>3, <2>1 DEF HfMakesDir, HfCreate, HfReceived, HfBreaks
<1>4. CASE HfRest
    BY <1>4 DEF HfRest
<1>5. ASSUME NEW a \in Actors, Unpacks(a) PROVE ReportInv' /\ OnlyTheListingGuesses
    <2>1. \A b \in Actors : Writing(b) => b = a
        BY <1>5 DEF Unpacks, Unbz2Begins, Unbz2Done, Unbz2Fails, UntarCreates, UntarWrites,
                    UntarDone, UntarFails, TidyTar, TidyBz2
    <2>2. CASE Unbz2Begins(a) \/ Unbz2Done(a) \/ Unbz2Fails(a)
        BY <2>1, <2>2 DEF Unbz2Begins, Unbz2Done, Unbz2Fails, Releases
    <2>3. CASE UntarCreates(a)
        BY <2>1, <2>3 DEF UntarCreates
    <2>4. CASE UntarWrites(a)
        BY <2>1, <2>4 DEF UntarWrites
    <2>5. CASE UntarDone(a) \/ UntarFails(a)
        BY <2>1, <2>5 DEF UntarDone, UntarFails, Releases
    <2>6. CASE TidyTar(a) \/ TidyBz2(a)
        BY <2>1, <2>6 DEF TidyTar, TidyBz2, Releases
    <2> QED
        BY <1>5, <2>2, <2>3, <2>4, <2>5, <2>6 DEF Unpacks
<1>6. ASSUME NEW s \in Scans,
             \/ ScanBegins(s) \/ ScanLooks(s) \/ ScanFails(s)
             \/ ScanCleans(s) \/ ScanLists(s)
      PROVE  ReportInv' /\ OnlyTheListingGuesses
    BY <1>6 DEF ScanBegins, ScanLooks, ScanFails, ScanCleans, ScanLists
<1>7. ASSUME NEW s \in Scans, ScanLocks(s) PROVE ReportInv' /\ OnlyTheListingGuesses
    BY <1>7 DEF ScanLocks
<1>8. CASE Restart
    BY <1>8 DEF Restart
<1>9. CASE UNCHANGED vars
    BY <1>9 DEF vars
<1> QED
    BY <1>1, <1>2, <1>3, <1>4, <1>5, <1>6, <1>7, <1>8, <1>9 DEF Next, DownloadSteps, ScanSteps

\* A finished download says Downloaded only of a model that is there, also
\* where an earlier one was cut short: a row that says so without one comes
\* from the listing of the directories.
THEOREM DownloadsReportTruly == Spec => [][OnlyTheListingGuesses]_vars
<1>1. Init => ReportInv
    BY ActorFacts DEF Init, ReportInv, Writing, Visible
<1>2. StoreInv /\ ReportInv /\ [Next]_vars => ReportInv'
    BY ReportInvNext
<1>3. StoreInv /\ ReportInv /\ [Next]_vars => [OnlyTheListingGuesses]_vars
    BY ReportInvNext
<1> QED
    BY <1>1, <1>2, <1>3, StoreInvAlways, PTL DEF Spec
=============================================================================
