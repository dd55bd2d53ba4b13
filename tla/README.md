# VoiceGardenSAPI: models, checks and proofs

VoiceGardenSAPI gives Windows programs that speak through SAPI 5 the voices of
SherpaOnnx models, Edge and cloud services. This directory holds TLA+ models of
its own logic, the TLC configurations that check them and TLAPS proofs about
them. Paths below are relative to the repository.

## 1. The system

Two programs share the registry and the file system; a third installs them.

* **The adapter DLL** (`VoiceGardenSAPIAdapter/`, C++) is loaded into each
  program that speaks. SAPI asks its *token enumerator* for voices and creates a
  *speech engine* for the voice that is chosen. The engine hands text to
  `tts_wrapper.dll` (a Rust library that is not in the repository) through
  `RustTts::Engine`, and gets audio, word boundaries and visemes back on the
  library's threads.
* **The window** (`VoiceGarden.UI/`, C#, a single instance) downloads models,
  lists voices and *promotes* them, that is, writes SAPI tokens into HKLM. The
  same executable has a command line, which runs as a second process.
* **Setup** (`SetupLauncher/`, C#) closes both, runs `msiexec` and starts the window.

| Component | State | Operations | What is hard | What makes it correct |
|---|---|---|---|---|
| Speech engine (`TTSEngine.cpp/.h`, `RustTts/RustTtsEngine.cpp`) | `m_pOutputSite` and its references, `m_outputSiteMutex`, `m_plainToSapiMap`, `m_rustTts` | `SetObjectToken`, `Speak`, the audio, boundary and viseme callbacks, destruction | callbacks on other threads; the map is read without the mutex; many early returns; order of destruction | a site is referenced while used and released once; events go to the site and are translated by the map of their own call; nothing is lost; `Speak` returns |
| Text extraction (`TTSEngine.cpp` 59-111, 255-326) | text and offset map | `ExtractSherpaPlainTextWithMap`, sentinel branch, `TranslateOffset` | inserted and trimmed blanks, rewritten documents | every word is found where the client wrote it |
| `TaskScheduler` (`TaskScheduler.h`) | timer queue, deleters map, parameter blocks | `StartNewTask`, timer callback, `Uninitialize` | the timer exists before its block is registered, which may come too late or throw; unloading waits with the loader lock held | each block is freed once and none is left; unloading ends |
| Token enumerator (`VoiceTokenEnumerator.cpp`) | `s_cachedTokens`, `s_isCacheTaskScheduled`, `s_cacheMutex` | `FinalConstruct`, cache expiry | the flag is raised before the timer exists; failures | the cache expires; at most one expiry is pending |
| DLL entry, logger (`dllmain.cpp`, `Logger.cpp`) | periodic flush task | attach, detach | unloading under running callbacks | unloading ends |
| Model store (`SherpaModelService.cs`) | files of a model directory, `ArchiveLock` | download, extraction, scan | crashes, partial files, UI thread and lock | a model that is visible is complete; archives outlive failed extractions |
| Voices tab (`VoicesViewModel.cs`, `MainViewModel.cs`) | rows, `IsLoading`, `IsStale` | load, promote, remove, refresh, count, select | every await lets other commands in | the list shows one load and reflects the selection; the spinner stops |
| Wrapper loader (`RustTts/RustTtsLoader.cpp`) | `m_hModule`, seventeen function pointers | `Initialize`, calls through the pointers | no lock; candidates that fail; tried again for every voice | no call goes through a pointer that is not set |
| Legacy migration (`TTSEngine.cpp` 740-850, `SherpaModelService.cs`) | model directories, the token's path | move on voice creation and on each scan | two processes rename; the target may exist; the token is rewritten after the rename | the model stays whole, and voices are sent to where it is |
| COM registration (`VoiceGardenSAPIAdapter.cpp`) | CLSIDs and the `TokenEnums` entry | `DllRegisterServer`, `DllUnregisterServer`, `DllInstall` | any write may fail, and so may the undoing | all keys or none |
| Single instance (`VoiceGarden.UI/Program.cs`) | named mutex, its handles, processes | launch, bring to front, take over | processes that hang, that take their time to die, or that launch together | one window; every launch ends |
| Onboarding (`App.axaml.cs`, `OnboardingWindowViewModel.cs`) | mark and analytics flag in the registry, the check box | show, answer, toggle | marked before it is answered; killed in between | analytics only with consent |
| Setup (`SetupLauncher/Program.cs`) | processes to close, exit code | look, close, elevate, install, launch | applications started after the look; processes that survive Kill | no half-mixed installation |
| Promotion (`VoicePromotionService.cs`, `SherpaModelService.cs`, `SapiAliasSettings.cs`, `CliDispatcher.cs`) | HKLM tokens, `.reg` files, installed marks | promote, remove, refresh, CLI | many writes per voice, each of which may fail; UAC prompts, fixed file names, timeouts, loads that replace the rows, two processes | rows tell the truth; aliases follow their voice and the settings |

Interactions: SAPI calls the engine and the enumerator; the wrapper calls the
engine back; the enumerator and the logger start tasks on the scheduler, which
calls them back on pool threads; `DllMain` waits for the scheduler. The window
writes the tokens SAPI and the enumerator read, and fills the models directory
the enumerator scans. Each voice that is created loads the wrapper and moves its
model if that still has its legacy name, as does each scan of the window. Setup
and a launch kill processes of the window. Commands of the window meet in `IsLoading`, in the rows, in
`ArchiveLock` and in the three `.reg` files. `PROJECT.json` lists every component,
those without a model too, and every hazard at its line.

## 2. Modules and how they correspond to the code

| Module | Models | Composition |
|---|---|---|
| `SpeakContract` | what a SAPI client may rely on: a site hears something only while its `Speak` call has it open | abstract specification |
| `SpeechEngine` | `CTTSEngine` and `RustTts::Engine`, with the wrapper's jobs | implements `SpeakContract` (`Contract`, with the refinement mapping `Phase`) |
| `SpeechEngineProofs` | theorems | extends `SpeechEngine` |
| `OffsetMap`, `MCOffsetMap` | text extraction and its map | the contents of what `SpeechEngine` calls `map` |
| `OffsetMapProofs` | theorems | extends `OffsetMap` |
| `TaskScheduler` | the scheduler's steps | extended by `VoiceCache` |
| `VoiceCache` | enumerator cache, log flush, load and unload of the DLL | composes the scheduler with its two clients |
| `ModelStore` | one model directory, a download, scans | |
| `VoicesTab` | the tab's commands, at the grain of their awaits | |
| `VoicesTabProofs` | theorems | extends `VoicesTab` |
| `Promotion` | installing and removing voices | |
| `SingleInstance` | launches, the mutex, take-overs | extended by `Onboarding` |
| `Onboarding` | the window, its first-time dialog, the analytics flag | extended by `Setup` |
| `Setup` | setup.exe and msiexec | composes the three |
| `Registration` | the exports of the DLL, key by key | in `VoiceInit` |
| `WrapperLoader` | `RustTts::Loader` from several threads | extended by `LegacyMigration` |
| `LegacyMigration` | the move of a model, by voices and by the window | in `VoiceInit` |
| `VoiceInit` | how a client comes to a voice | composes the three |
| `VoiceCacheProofs`, `ModelStoreProofs`, `PromotionProofs`, `SetupProofs`, `VoiceInitProofs` | theorems | each extends its module |

Names follow the code (`cached` is `s_cachedTokens`, `scheduled` is
`s_isCacheTaskScheduled`, `map` is `m_plainToSapiMap`); each module's header and
the comment of each variable say which, and `PROJECT.json` "map" gives the
lines. Variables marked *history* are not in the code; they remember what the
properties ask about. An action named after its neighbour and preceded by
`Mutant:` is a faulty variant that no specification uses; it shows that a property
can fail.

**SpeechEngine.** An utterance is a `Speak` call and stands for its site, its text
and its synthesis job. `Speak` is cut where another thread can see the difference:
`SpeakAddRef` and `SpeakStoreSite` under the mutex, `SpeakClearMap` and
`SpeakFillMap` without it, the call of the wrapper, `SpeakReleaseSite` and
`SpeakClearSite` in the scope guard. The audio and viseme callbacks take the mutex
first; the boundary callback translates first (`OnBoundaryTranslate`) and locks
afterwards. The engine's members are destroyed in two steps. `SyncSpeak` says
whether `tts_speak` blocks. The comment in `Speak` says so and the wrapper's
header says otherwise, so both are checked. `DestroyWrapper` assumes that
`tts_destroy` waits for a callback that runs.

**OffsetMap.** A character is an element of a text: blank, letter, one of the
sentinel's characters, or a whole `<speak>` tag. That abstraction keeps everything
that decides where a position leads. Before `Speak` runs, the client builds its
fragment list one fragment at a time (`ClientFragment`, external), with as much
markup between two fragments as `Gaps` allows; so that every list of up to
`MaxFrags` fragments occurs, and nothing about it needs recursion.

**TaskScheduler and VoiceCache.** A task is one `StartNewTask` call. What the
operating system does is in `ArmTimer`, `Fire`, `ThreadStarts`, `StopTimers` and
`TimersStopped`: a due callback is given to a pool thread that waits for work or
to one that has yet to start, and the latter needs the loader lock, which `DllMain`
holds while it attaches and while it waits in `DeleteTimerQueueEx`. Once the timer
exists, `StartNewTask` may be preempted for as long as it takes, and the lock or
`emplace` may throw (`RegisterThrows`): `unique_ptr` then frees the block of an armed
timer. That task, and one whose callback took its block over before the block was
in the map, is `spoiled`. What a callback does with freed memory is undefined; the
model has it do what it would have done. An enumeration yields any subset of the
voices that are not in HKLM, as filters, missing tokens and the `catch` allow. The
function of a task ends, and unlocks `s_cacheMutex`, one step before its block is
freed, so that the next expiry may be under way by then. Time passes in `Tick`, and
only while no callback is due; `Ttl` stands for the ten seconds of the cache.

**ModelStore.** Files have content `none`, `partial` or `whole`. `ArchiveLock`, the
UI thread and the row of the Voices tab are variables. The deletion of an older
archive and the renaming of the `.part` file are two steps, and each may fail. A
scan fixes with `Directory.GetDirectories` whether it is going to list the
directory (`ScanBegins`), and fails as a whole if that has gone by the time it
looks into it (`ScanFails`). `Restart` may happen at
every step and keeps only the files. Only `.tar.bz2` archives and HuggingFace
directories are modelled; a scan's lone `.tar` arises from an interrupted
extraction.

**VoicesTab.** The code runs on the UI thread between awaits, so a step is what
lies between two of them. The Load button is disabled while its command runs, but
showing the tab executes the command all the same (`LoadRequested`).

**Promotion.** The window writes HKLM itself when it runs elevated (`admin`), and else
goes through a file, a UAC prompt and `reg.exe`, which reads whatever the file
holds by then. A `.reg` file is a batch of tokens to delete and to write. What an
elevated process writes goes token by token: `on[w]` is the voice that writer `w` is
at, `stage[w]` says what is next (old aliases dropped, primary written, aliases added;
or primary erased, aliases cleared) and `left[w]` what is left of that stage. Any of
these steps may throw (`VoiceFails`); the window then falls back on a file. The three
commands and the command line are four such writers, whose steps interleave. A
load clears and rebuilds the rows (`LoadReplaces`), so that a command that was under
way marks rows nobody sees (`stale`), and, like `RefreshInstalled`, reads the registry on
a pool thread and marks the rows later.

**SingleInstance, Onboarding, Setup.** A process is a slot that may be launched,
end and be launched again. The mutex is the set of processes with a handle to it,
as `new Mutex(true, name, out createdNew)` is only asked whether it existed.
`TakeOver` kills the processes without a window that are 30 seconds old, which a
long command line is as well as a window that hangs; a killed process dies some time
later (`dying`). `MaxPolls` stands for the 50 looks of 200 ms. `OtherSteps` says
what a step of a process leaves of the dialog. `msiexec` is external: it succeeds
only if no application runs, and otherwise fails or leaves a mixture, which is
what the comment in `Main` says of it.

**Registration, WrapperLoader, LegacyMigration, VoiceInit.** A registration call
writes or deletes each key twice, through ATL's registrar and through the
fallback, and `Fails` decides what a failed step leads to in each export. The
loader's steps are cut at each access of `m_hModule` and of the pointers, two of
which stand for seventeen; the migration's at each look, at the rename and at
the rewriting of the token. A rename onto an existing directory fails, as on
Windows. `VoiceInit` lets a voice be created once the engine's CLSID is there.

## 3. Runs

| Run | Instance | Shows |
|---|---|---|
| `speech_blocking` | 3 utterances, `SyncSpeak`, fair | own site, own map, nothing lost, `Speak` returns |
| `speech_async` | 3 utterances, not `SyncSpeak` | references balance, sites held while used, contract implemented |
| `offset_map` | up to 3 fragments | words are found, offsets never go back |
| `voice_cache` | log flush, 2 expiries, 1 model, `Ttl` 2, fair | blocks freed once, cache expires, unloading ends |
| `model_store` | 2 files, 2 scans, fair | completeness, archives, progress |
| `model_staged` | 2 files, 1 scan | *violation*: a completed download that no scan extracts |
| `voices_tab` | 2 engines, 2 loads, 2 commands, fair | spinner, single load, selection |
| `promotion` | a Sherpa and a cloud voice, 3 user actions | rows and registry, no orphan alias |
| `promotion_alias` | 1 voice, 3 user actions | *violation*: an alias that should have gone |
| `desktop` | 2 processes, 2 looks, setup once, fair | one window, consent, files, every launch ends |
| `takeover` | 2 processes, 2 looks | *violation*: a launch that waits for itself |
| `voice_init` | 2 threads, 2 loads of the wrapper, one registration call | registration, resolved calls, legacy paths |

**Why the bounds are enough.** Three utterances let a late callback of the first
meet a third call while the second is between the two, which is what stale
sites and maps need. Texts of up to two characters with blanks at either end
and three fragments contain every way two fragments can be joined after a
join. Two expiries let one be pending while another is scheduled, with the
periodic task beside them, and `Ttl` 2 separates "due" from "not yet due". One model
is enough for the cache, as nothing in the enumerator relates two: a token is cached,
promoted or stale by itself, and the proofs hold for any number. One
directory is enough since no code path reads two; two files put one after the
`.onnx` file, which is where an interruption goes unnoticed; two scans and the
download are three contenders for the lock. Two overlapping loads need two
loads and a command that resets `IsLoading`; two commands let one end within the
other. Three user actions allow install, a change of setting or a crossing
command, and install or removal again, or a load within them; the two voices are of
the two kinds, and between them have all sorts of aliases. Two
processes let a window hang while another is launched, or two be launched
at once beside setup; two looks separate "not yet" from "given up", and the
proofs hold for any number of both. Two threads are what it takes to meet in
`Initialize` or in a migration; two loads of the wrapper are one that succeeds
after one that was not freed. Threads are alike, so `voice_init` uses symmetry,
which is sound as it checks no liveness property.

**Conditions in the properties.** Some promises hold only as long as a known
weakness of the code is not exercised. A history variable remembers that it was;
the hazards it stands for happen in the models and are excused, not excluded, and
`PROJECT.json` says so at each of them.

| Condition | In | Raised when |
|---|---|---|
| `spoiled` | `BlocksFreedOnceUnlessSpoiled` | the entry in the deleters map threw, or came after the callback had looked for it; only this task's block is excused |
| `faulted` | `CacheExpiresUnlessFaulted`, `DuplicateIsRecent` | an enumeration failed half way: the flag is up and no timer exists, or tokens are cached and nothing is scheduled |
| a callback in `starting` | `UnloadEndsUnlessStarved` | `DeleteTimerQueueEx` waits for a callback whose thread waits for the loader lock |
| `interrupted` | `CompleteUnlessInterrupted`, `ArchiveOutlivesExtraction` | writing the model's files broke off after one was created |
| a staged copy | `ArchiveOutlivesExtraction` | an older archive was deleted for a newer one that is whole and about to be renamed; what becomes of that one is the matter of `model_staged` |
| `disturbed` | `ListIsOneLoad`, `ReflectsUnlessDisturbed` | the selection changed during the load, or a command let a second load in |
| `excused` | `RowsTellTheTruth` | two `.reg` files collided, opposite commands crossed, an import was given up, a direct write broke off, a refused deletion passed for one of nothing, a command marked rows that a load had replaced, the registry was read before it changed and applied afterwards, or the command line was used |
| `torn` | `NoOrphanAlias`, `AliasesFollowSettings` | a direct write or removal of this voice broke off, or overlapped the opposite |
| `unseen` | `MixedOnlyIfRaced` | setup went on although an application ran that it had not seen or, when silent, that had not ended |
| `declined` | `TracksOnlyWithConsent` | analytics were on and the user declined in the dialog, which changes nothing |
| `spoilt` | `RegistrationIsWhole` | a step failed in `DllRegisterServer`, in `DllUnregisterServer` or in the undoing of `DllInstall`, none of which makes up for it |
| `raced` | `CallsResolvedUnlessRaced` | two threads were in `Initialize` at a time |
| `disturbed`, canonical is partial | `StalePathResolves` | somebody else moved the model while the voice was created; or an abandoned download has its canonical name |

**Deadlock** is checked in `VoicesTab`. The other systems may stop: utterances,
tasks, scans or user actions run out, the DLL is unloaded, or setup is over and
nobody launches anything.

**Fairness.**
* `speech_blocking`: the SAPI thread, the wrapper's threads and their jobs are
  scheduled and `Write` returns; a thread that waits for the mutex gets it in the
  end. A new `Speak` call is never forced.
* `voice_cache`: a callback that has a thread runs, a thread that can get the loader
  lock starts, and `DllMain` goes on. While `DllMain` holds the loader lock no thread is
  started, whatever is fair. No enumeration and no promotion is forced. That the
  end of a callback needs the loader lock again is left out: `DeleteTimerQueueEx`
  waits for callbacks, not for their threads.
* `model_store`: a download or scan that has begun goes on, with strong fairness
  because a semaphore is granted to its waiters in the order they came. Starting
  and restarting are never forced.
* `desktop`: a launch goes on, since nothing in it waits without a limit; a killed
  process dies; a setup that was started goes on, that is, its prompts are answered
  and `msiexec` ends. No launch, no answer to the dialog and no end of a window is
  forced.
* `voices_tab`: fetches end and prompts are answered. Voices are fetched by the native
  `GetVoices` of the wrapper (`VoicesViewModel.cs:382`), which takes no timeout from this
  code: that it returns is an assumption on the library. The catalog is a local
  file.

## 4. Disagreements found

Three are runs that violate a property; `PROJECT.json` "findings" quotes the
lines.

1. A download that was received as a whole and is cut off before it gets its
   archive's name stays a `.part` file, which no scan extracts, though scans are said to
   heal downloads that completed (`model_staged`).
2. Only the enabled aliases are deleted before a voice is written again
   (`promotion_alias`).
3. A launch that waits for the mutex holds a handle to it from its first look on
   and gives up for nobody's sake (`takeover`).

Others show in the models as conditions or were met on the way:

* `tts_speak` is called where a blocking call is needed (`TTSEngine.cpp:359`), and
  the wrapper's header calls it asynchronous (`tts_wrapper.h:118`). Hence
  `SyncSpeak`: what needs a blocking call is checked and proved under it alone.
* The offset map of an SSML document counts the tag that was put before it, and that
  of any document ignores `ulTextSrcOffset` (`TTSEngine.cpp:322`). `BoundaryFindsItsWord`
  is about plain text, and about Speech Markdown that begins the client's text.
* `StartNewTask` enters the block in the deleters map after it has created the timer
  (`TaskScheduler.h:127-138`). If `emplace` throws, the block of an armed timer is freed;
  if the callback comes first, it erases nothing, frees the block, and `Uninitialize`
  frees it again. With ten seconds of delay the second takes a long preemption; for a
  task that is due at once it takes none, but the only such task is periodic and frees
  nothing.
* `DllMain` waits in `DeleteTimerQueueEx` with the loader lock held (`dllmain.cpp:30`). A
  callback whose pool thread has yet to start needs that lock, and neither goes on.
* "Timer queues CANNOT be created in DllMain" (`TaskScheduler.h:17`), and yet
  `InitializeLogger`, which `DllMain` calls, starts a task when `LogFlushInterval` is set
  (`Logger.cpp:202-204`).
* Between `TryDelete` and `File.Move` (`SherpaModelService.cs:745-746`) an older whole
  archive, which a scan would extract, is gone, and the newer one is a `.part` file,
  which none will.
* A directory without a model, as a broken download or an unreachable server leaves
  it, is listed as a downloaded model, without a Download button
  (`VoicesViewModel.cs:341`).
* A command that marks its row after a load has replaced the rows marks nothing that
  is shown (`VoicesViewModel.cs:225`, `609`). It takes another command that ends
  meanwhile and resets `IsLoading`.
* Direct writes and removals of one voice may overlap, in the window or with the
  command line: a removal between the primary token and the aliases
  (`VoicePromotionService.cs:83-94`, `307-311`) leaves an alias without its voice. So does
  a removal that breaks off after the primary token.
* A window that is not elevated may take a removal for done whose keys it could not
  open: `Unpromote` asks `DeleteSubKeyTree` not to complain of missing keys
  (`VoicePromotionService.cs:309`), and whether it complains of a denied one is up to
  the library. The model allows both.
* A token is rewritten to the canonical name and the voice sent there whenever a
  directory of that name exists (`TTSEngine.cpp:774-797`), be it the remains of an
  abandoned download; the model under its legacy name is then passed over.
  `StalePathResolves` excuses it ("canonical is partial").
* `IsStale` is reset at the end of a load even if it was set during the load
  (`VoicesViewModel.cs:264`); hence `dirty` and `disturbed`.
* A take-over kills a command line that has run for 30 seconds, as it has no window.
* Declining in the dialog leaves analytics on if they were on, and the check box
  of the Advanced tab shows what was set when the window was opened. The dialog is
  marked as shown before it is answered.
* `regsvr32 /s` never calls `DllInstall`, so a failed registration is not undone.

## 5. Proofs

TLAPS proves the following for every value of the constants.

**Speech engine** (`SpeechEngineProofs`, any number of utterances). The invariant is
`HoldInv`: `TypeOK`; `LockInv`, who is inside the mutex and what that means for
`pc` and `cb`; `SeenInv`, a callback that has found a site found the one that is
stored; `SiteInv`, which site is stored at each `pc`; `RefsInv`, the reference
count of every site as a function of `pc`. `SiteHeldWhileUsed` alone is not
inductive: that the site a callback found is referenced follows only from its
being the stored one, and that from the mutex.

* `TypesHold`, `SiteIsHeld`, `ReferencesAreBalanced` follow from `HoldInv`.
* `EngineKeepsTheContract`: `Init` maps to `Contract!Init` and every step to a
  step of the contract or a stutter. `Hear` needs `HoldInv` to know that the
  site is open.
* `EventsAreOwn`, `BoundariesAreOwn`, `MapOutlives`, `NothingIsLost`: under
  `SyncSpeak = TRUE`, `OwnInv` (a job runs only while its `Speak` call waits for
  it) makes the four properties inductive that an asynchronous `tts_speak`
  breaks. This is the argument of the comment in `Speak`, and each theorem names
  the assumption it needs.

**Token cache and scheduler** (`VoiceCacheProofs`, any tasks, models and `Ttl`).
`CacheInv` has two layers. `SchedulerInv`: whoever is inside `StartNewTask` is
alone there, by `s_cacheMutex` or by being `DllMain` (`StarterInv`), so there is one
timer queue (`QueueInv`); who has a timer, and who may run a function (`TimerInv`);
and a block is in the map exactly while nobody else will free it, unless its task is
spoiled (`BlockInv`). Above it, `ExpiryInv`: the flag is up exactly while one
expiry is on its way; `AgeInv` and `SinceInv`: that expiry bounds the age of what
is cached. `BlocksFreedOnceUnlessSpoiled` is not inductive without the order in which timer,
map and flag change.

**Model store** (`ModelStoreProofs`, any number of files and scans). `StoreInv`:
an archive gets its own name after its last byte, and is whole when an older one is
deleted for it (`StagedInv`); whoever unpacks
holds `ArchiveLock` (`LockInv`); a model comes by one route (`RouteInv`); so that,
outside an extraction, the model is there as a whole or not at all unless
something broke off (`FileInv`, `TidyInv`). `ArchivesOutlive` is an action property.

**Promotion** (`PromotionProofs`, any voices, any number of actions). `NoOrphanAlias` has
two legs. Every batch that is or will be imported, one that comes late included,
writes a voice's primary token with its aliases and deletes it only together with
them (`BatchInv`). For what is written directly, `HandsInv`: as long as a voice is not
torn, nobody adds to it while somebody removes it, so that its primary token is there
while aliases are added and all of its aliases are on a remover's list while they are
cleared. `RowsInv` adds, as long as nothing excuses it, that no two commands work on a
voice to opposite ends (`CrossInv`), that the `.reg` file a command waits for is its own
(`FileInv`), what a direct writer has done so far (`WriteInv`) and a command has done in
all (`DoneInv`), and that rows and registry differ by what a command has done and not
yet marked, or a load has yet to mark (`RowInv`).

**Desktop** (`SetupProofs`, any number of processes and looks). `SetupInv`: a process
runs the window only with a handle and becomes it only if nobody had one; from
setup's last look to the end of msiexec nothing runs, or somebody has seen to it
that something does.

**Voice creation** (`VoiceInitProofs`, any number of threads). `VoiceInv` has a part
for each module: how far a registration call has come and which keys that leaves;
which pointers are set at each step of the only thread in `Initialize`; where the
model is at each step of a migration. No part disturbs another's.

**Voices tab** (`VoicesTabProofs`, any engines, loads and commands). `TabInv`:
while no command has disturbed it, at most one load is active (`SoleInv`), its
snapshot and remaining work account for the rows (`SnapshotInv`), and a load
that is not dirty was started for the present selection (`FreshInv`). From it
`SpinnerIsHonest`, `VoicesAreListedOnce` and `CurrentListReflects`. The bound on the
rows in `TypeOK` holds although loads overlap, because the rows of an engine and
the fetches for it that are still to come are never more than there are loads
(`RowBound`).

**Text extraction** (`OffsetMapProofs`, any fragments, texts and gaps). `OffsetInv` is
an invariant of the loop over the fragments. Fragments do not overlap (`FragsInv`)
and the map has not reached those that are still to come (`AheadInv`), so it never
decreases (`AscendingInv`). A character that is not blank is where the map says
(`PlacedInv`), and within a word the map advances by one (`WordInv`): the blank put
between two fragments ends the word before it. A document is its payload, shifted
by the sentinel (`DocumentInv`). `BoundariesFindWords` needs all of them: that the
first character of a word is found says nothing of the others. The induction is
over the steps of `Speak`, and never over the texts.

**What the contract gives** (`SpeechEngineProofs`). From `EngineKeepsTheContract`:
`SitesTakeTurns`, at most one site is open; `ClosedSitesStaySilent`, an action
property: a site that was closed is not opened again and hears nothing.

**Progress.** A liveness property cannot be proved here, but the facts it rests on
beside fairness are about states and single steps, and can: that whoever waits
waits for somebody who can go on, and that no step leads back.

* `SpeakReturns`: `NobodyWaitsInACircle`, `SpeakIsNotStuck` and `NoWayBack`, with
  `JobInv` (which job may still have callbacks at each `pc`).
* `UnloadEndsUnlessStarved`: `UnloadIsNotStuck` (nobody has `s_cacheMutex` while `DllMain`
  waits for a callback that wants it, so that only one without a thread can be stuck)
  and `UnloadGetsOn`.
* `EverythingEnds`: `NobodyWaitsInACircle` (with `OwnerInv`: whoever has the UI
  thread has `ArchiveLock` already) and `EverybodyGetsOn`.
* `LoadingEnds`: `LoadsOnlyGetOn`, beside `SpinnerIsHonest`.
* `LaunchEnds`: `LaunchesOnlyGetOn`.

**What remains of the violated properties.** For each of them a theorem says how
far it can fail, or why it does.

* `CompletedDownloadsHeal`: `ArchivesOutlive`, an archive that has its name is lost only
  if its model is there, its writing broke off, or a whole newer copy is staged. So
  what is never healed is a staged copy and what that replaced.
* `AliasesFollowSettings`: `AliasesAreOnlyLeftOver`, an installed voice that nobody is
  writing lacks none of the aliases it was last installed with, unless it is torn, and
  any others are left-overs that its language allows.
* `DefersToAnother`: `LaterPollsAreVain`, only the first look can get the mutex, since
  it leaves the launch with a handle of its own.

The assumptions are those named in the modules (`MaxUttAssumption` and the like).
Each says no more than what kind of value a constant has, that two sets of model
values are disjoint, or, in `LoadsAssumption`, that there are finitely many loads.
Where a theorem needs that `tts_speak` blocks, `SyncSpeak = TRUE` is in its
statement.

`DownloadsReportTruly` is about the rows of the store: one becomes "downloaded" without
a model only by the listing of a load.

**Model-checked only.** The liveness properties `SpeakReturns`, `UnloadEndsUnlessStarved`,
`EverythingEnds`, `LoadingEnds` and `LaunchEnds`: the prover has neither fairness nor
ENABLED. Every invariant and every action property of a passing run, and the
refinement of `SpeakContract`, is proved.

## 6. What is not modelled

Bookmarks, silence compensation and `BuildSSML` are unreachable: their flags are
never set. `FileCache`, `NetUtils` and `BlockingQueue` have no caller left.
`SherpaOnnxConfig` is superseded by the window. Language tables, in-memory data
keys, model discovery, preview, forwarder and packaging keep no state whose
interleaving matters. Within the modelled parts, the shared vocoder, the catalog,
a second process that downloads, `PromoteAllElevated`, the two keys of a token one by
one, and the window's side of the registration (`RunElevated` and its timeout) are left
out. In `SingleInstance`, a process has a window or none: that `EnumWindows`
(`Program.cs:108`) counts hidden windows and `MainWindowHandle` (line 73) does not is passed
over, and so is an exception of `new Mutex` (lines 40 and 96). In `Registration`, a
failing `GetRegModulePath` (`VoiceGardenSAPIAdapter.cpp:132`), which writes nothing, is left
out, and the registrar's and the fallback's writes of a key are one step. Most of `src/` is vendored (asio, OpenSSL, spdlog,
nlohmann/json) and not the program's own.

## 7. Plan

1. A second process in `ModelStore`, whose download `ArchiveLock` does not keep
   from the window's scans.
2. The keys of a token under `Speech` and `Speech_OneCore` as two in `Promotion`: what
   either kind of client sees when one of them is missing.
3. The window's calls of the registration: `RunElevated`, its timeout and what
   `IsRegistered` then says.
4. A composition of `VoiceCache` with `Promotion`: what SAPI enumerates while the
   window installs.
5. Credentials and engine lists as causes of staleness in `VoicesTab`.
