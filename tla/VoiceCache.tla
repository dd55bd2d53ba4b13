----------------------------- MODULE VoiceCache -----------------------------
(***************************************************************************)
(* The adapter DLL between DllMain attach and detach, as SAPI clients see  *)
(* it when they enumerate voices: CVoiceTokenEnumerator::FinalConstruct    *)
(* with its static token cache, the task that empties the cache, and the   *)
(* periodic log flush, all on the one g_taskScheduler (TaskScheduler.tla). *)
(*                                                                         *)
(* FinalConstruct holds s_cacheMutex throughout, so that it is one action  *)
(* up to its call of StartNewTask, whose steps then run with the mutex     *)
(* held.  The voices are those of downloaded Sherpa models; a voice that   *)
(* the UI has promoted to HKLM is left out.  Both change under the cache.  *)
(* An enumeration that finds tokens in the cache copies them and changes   *)
(* nothing.                                                                *)
(*                                                                         *)
(* DllMain runs with the loader lock of the process held, which a new pool *)
(* thread needs before it can run a callback.                              *)
(*                                                                         *)
(* Time is counted in ticks and Ttl of them are the 10000 ms of the code.  *)
(* A tick waits for the callbacks that are due, and for StartNewTask as    *)
(* long as it has not created its timer.                                   *)
(***************************************************************************)
EXTENDS TaskScheduler

CONSTANTS Models,    \* models on disk, one voice each
          Ttl,       \* lifetime of the cache, in ticks
          FlushTask, \* the log flush, the one periodic task
          NoTask     \* nobody is inside StartNewTask

ASSUME TtlAssumption == Ttl \in Nat \ {0}
ASSUME FlushAssumption == Tasks \ Once = {FlushTask}
ASSUME NoTaskAssumption == NoTask \notin Tasks

VARIABLES
    dll,         \* "attaching", "loaded", "unloading"
    starter,     \* the task the thread inside FinalConstruct is starting
    mutex,       \* is s_cacheMutex held across a call of StartNewTask?
    cached,      \* s_cachedTokens
    scheduled,   \* s_isCacheTaskScheduled
    left,        \* left[t]: ticks until the timer of t is due
    hklm,        \* models with a persistent token in HKLM
    age,         \* history: ticks since the oldest cached token was made
    since,       \* history: since[m], ticks since m was promoted
    faulted      \* history: has an enumeration failed half way?

cacheVars == <<dll, starter, mutex, cached, scheduled, left, hklm, age, since, faulted>>
vars == <<schedulerVars, cacheVars>>

TypeOK ==
    /\ SchedulerTypeOK
    /\ dll \in {"attaching", "loaded", "unloading"}
    /\ starter \in Tasks \union {NoTask}
    /\ mutex \in BOOLEAN
    /\ cached \subseteq Models
    /\ scheduled \in BOOLEAN
    /\ left \in [Tasks -> 0 .. Ttl]
    /\ hklm \subseteq Models
    /\ age \in 0 .. Ttl + 1
    /\ since \in [Models -> 0 .. Ttl + 1]
    /\ faulted \in BOOLEAN

Init ==
    /\ SchedulerInit
    /\ dll = "attaching"
    /\ starter = NoTask
    /\ mutex = FALSE
    /\ cached = {}
    /\ scheduled = FALSE
    /\ left = [t \in Tasks |-> 0]
    /\ hklm = {}
    /\ age = 0
    /\ since = [m \in Models |-> 0]
    /\ faulted = FALSE

-----------------------------------------------------------------------------
(* DLL_PROCESS_ATTACH: InitializeLogger. *)

\* LogFlushInterval is set: the flush task is started, due at once.
AttachStartsFlush ==
    /\ dll = "attaching"
    /\ BeginStart(FlushTask)
    /\ starter' = FlushTask
    /\ UNCHANGED <<dll, mutex, cached, scheduled, left, hklm, age, since, faulted>>

\* LogFlushInterval is not set, or StartNewTask has returned, or its
\* exception was swallowed.
Attached ==
    /\ dll = "attaching"
    /\ starter # NoTask => call[starter] \in {"returned", "threw"}
    /\ dll' = "loaded"
    /\ starter' = NoTask
    /\ UNCHANGED <<schedulerVars, mutex, cached, scheduled, left, hklm, age, since, faulted>>

-----------------------------------------------------------------------------
(* StartNewTask, for whoever is inside it. *)

StarterRuns ==
    /\ starter # NoTask
    /\ \/ CreateQueue(starter) \/ StartThrows(starter)
       \/ Register(starter) \/ RegisterThrows(starter)
    /\ UNCHANGED cacheVars

\* Mutant: the delay is given in the wrong unit.
StarterArmsLonger ==
    /\ starter # NoTask
    /\ ArmTimer(starter)
    /\ left' = [left EXCEPT ![starter] = IF starter \in Once THEN 10 * Ttl ELSE 0]
    /\ UNCHANGED <<dll, starter, mutex, cached, scheduled, hklm, age, since, faulted>>

StarterArms ==
    /\ starter # NoTask
    /\ ArmTimer(starter)
    /\ left' = [left EXCEPT ![starter] = IF starter \in Once THEN Ttl ELSE 0]
    /\ UNCHANGED <<dll, starter, mutex, cached, scheduled, hklm, age, since, faulted>>

-----------------------------------------------------------------------------
(* CVoiceTokenEnumerator::FinalConstruct. *)

\* The voices the registry and the disk give: none if Disable or NoSherpaVoices
\* is set, and any a filter or an exception leaves out are missing.
Enumerated == SUBSET (Models \ hklm)

\* The cache is empty and its expiry is already scheduled, since the last
\* enumeration found no voice: only the cache is filled.
EnumMissScheduled ==
    /\ dll = "loaded"
    /\ ~mutex
    /\ cached = {}
    /\ scheduled
    /\ cached' \in Enumerated
    /\ age' = 0
    /\ UNCHANGED <<schedulerVars, dll, starter, mutex, scheduled, left, hklm, since, faulted>>

\* Mutant: the flag is never raised, so every miss schedules another expiry.
EnumMissUnflagged(t) ==
    /\ dll = "loaded"
    /\ ~mutex
    /\ cached = {}
    /\ ~scheduled
    /\ cached' \in Enumerated
    /\ age' = 0
    /\ mutex' = TRUE
    /\ starter' = t
    /\ BeginStart(t)
    /\ UNCHANGED <<dll, scheduled, left, hklm, since, faulted>>

\* The cache is filled, the flag raised, and StartNewTask called.
EnumMiss(t) ==
    /\ dll = "loaded"
    /\ ~mutex
    /\ cached = {}
    /\ ~scheduled
    /\ cached' \in Enumerated
    /\ age' = 0
    /\ scheduled' = TRUE
    /\ mutex' = TRUE
    /\ starter' = t
    /\ BeginStart(t)
    /\ UNCHANGED <<dll, left, hklm, since, faulted>>

\* An exception while the tokens are moved into the cache: some are there,
\* and nothing was scheduled.
EnumBreaksOff ==
    /\ dll = "loaded"
    /\ ~mutex
    /\ cached = {}
    /\ cached' \in SUBSET (Models \ hklm)
    /\ age' = 0
    /\ faulted' = TRUE
    /\ UNCHANGED <<schedulerVars, dll, starter, mutex, scheduled, left, hklm, since>>

\* Mutant: FinalConstruct returns with s_cacheMutex locked.
EnumReturnsLocked ==
    /\ starter # NoTask
    /\ mutex
    /\ call[starter] = "returned"
    /\ starter' = NoTask
    /\ UNCHANGED <<schedulerVars, dll, mutex, cached, scheduled, left, hklm, age, since, faulted>>

EnumReturns ==
    /\ starter # NoTask
    /\ mutex
    /\ call[starter] = "returned"
    /\ mutex' = FALSE
    /\ starter' = NoTask
    /\ UNCHANGED <<schedulerVars, dll, cached, scheduled, left, hklm, age, since, faulted>>

\* StartNewTask has thrown: FinalConstruct reports the error.  The tokens and
\* the flag stay as they are.
EnumScheduleThrows ==
    /\ starter # NoTask
    /\ mutex
    /\ call[starter] = "threw"
    /\ mutex' = FALSE
    /\ starter' = NoTask
    /\ faulted' = TRUE
    /\ UNCHANGED <<schedulerVars, dll, cached, scheduled, left, hklm, age, since>>

-----------------------------------------------------------------------------
(* The callbacks. *)

\* A timer fires when it is due.
TimerFires(t) ==
    /\ left[t] = 0
    /\ Fire(t)
    /\ UNCHANGED cacheVars

\* DLL_THREAD_ATTACH, for every DLL of the process, needs the loader lock.
LoaderLocked == dll \in {"attaching", "unloading"}

TimerThreadStarts(t) ==
    /\ ~LoaderLocked
    /\ ThreadStarts(t)
    /\ UNCHANGED cacheVars

TimerErases(t) ==
    /\ EraseSelf(t)
    /\ UNCHANGED cacheVars

\* Mutant: the expiry leaves the flag raised.
ExpireUnflagged(t) ==
    /\ ~mutex
    /\ FunctionReturns(t)
    /\ cached' = {}
    /\ age' = 0
    /\ UNCHANGED <<dll, starter, mutex, scheduled, left, hklm, since, faulted>>

\* Mutant: the expiry lowers the flag and keeps the tokens.
ExpireKeepsTokens(t) ==
    /\ ~mutex
    /\ FunctionReturns(t)
    /\ scheduled' = FALSE
    /\ UNCHANGED <<dll, starter, mutex, cached, left, hklm, age, since, faulted>>

\* The expiry task takes s_cacheMutex and empties the cache.
Expire(t) ==
    /\ ~mutex
    /\ FunctionReturns(t)
    /\ cached' = {}
    /\ scheduled' = FALSE
    /\ age' = 0
    /\ UNCHANGED <<dll, starter, mutex, left, hklm, since, faulted>>

\* The mutex is unlocked before the block goes.
TimerEnds(t) ==
    /\ FinishOnce(t)
    /\ UNCHANGED cacheVars

Flush ==
    /\ FinishPeriod(FlushTask)
    /\ left' = [left EXCEPT ![FlushTask] = 1]
    /\ UNCHANGED <<dll, starter, mutex, cached, scheduled, hklm, age, since, faulted>>

-----------------------------------------------------------------------------
(* The world around the DLL. *)

\* The UI promotes the voice of a model, or takes it back.
Promote(m) ==
    /\ m \notin hklm
    /\ hklm' = hklm \union {m}
    /\ since' = [since EXCEPT ![m] = 0]
    /\ UNCHANGED <<schedulerVars, dll, starter, mutex, cached, scheduled, left, age, faulted>>

Unpromote(m) ==
    /\ m \in hklm
    /\ hklm' = hklm \ {m}
    /\ since' = [since EXCEPT ![m] = 0]
    /\ UNCHANGED <<schedulerVars, dll, starter, mutex, cached, scheduled, left, age, faulted>>

OneMore(n) == IF n > Ttl THEN n ELSE n + 1

\* No callback is due or running, and StartNewTask is not about to create a
\* timer, or to throw.  A thread that was preempted with the timer created, or
\* before it frees a block, stays behind.
Quiet ==
    /\ starter # NoTask => call[starter] \in {"armed", "returned"}
    /\ \A t \in Tasks :
        /\ timer[t] \notin {"starting", "running", "invoking"}
        /\ timer[t] = "armed" => left[t] > 0

Tick ==
    /\ dll # "unloading"
    /\ Quiet
    /\ left' = [t \in Tasks |-> IF timer[t] = "armed" THEN left[t] - 1 ELSE left[t]]
    /\ age' = IF cached = {} THEN 0 ELSE OneMore(age)
    /\ since' = [m \in Models |-> IF m \in hklm THEN OneMore(since[m]) ELSE 0]
    /\ UNCHANGED <<schedulerVars, dll, starter, mutex, cached, scheduled, hklm, faulted>>

\* DLL_PROCESS_DETACH, when no COM object is left.
Detach ==
    /\ dll = "loaded"
    /\ starter = NoTask
    /\ dll' = "unloading"
    /\ UNCHANGED <<schedulerVars, starter, mutex, cached, scheduled, left, hklm, age, since, faulted>>

Uninitialize ==
    /\ dll = "unloading"
    /\ NothingToStop \/ StopTimers \/ TimersStopped \/ FreeLeft
    /\ UNCHANGED cacheVars

-----------------------------------------------------------------------------
Starting == AttachStartsFlush \/ Attached \/ StarterRuns \/ StarterArms

Enumerating ==
    \/ EnumMissScheduled \/ EnumBreaksOff \/ EnumReturns \/ EnumScheduleThrows
    \/ \E t \in Once : EnumMiss(t)

CallbackSteps(t) ==
    TimerFires(t) \/ TimerThreadStarts(t) \/ TimerErases(t) \/ Expire(t) \/ TimerEnds(t)

Next ==
    \/ Starting
    \/ Enumerating
    \/ \E t \in Tasks : CallbackSteps(t)
    \/ Flush
    \/ \E m \in Models : Promote(m) \/ Unpromote(m)
    \/ Tick
    \/ Detach
    \/ Uninitialize

Spec == Init /\ [][Next]_vars

\* Callbacks that are due run, the flush among them, and DllMain goes on.
Fairness ==
    /\ \A t \in Tasks : WF_vars(CallbackSteps(t))
    /\ WF_vars(Flush)
    /\ WF_vars(Uninitialize)

FairSpec == Spec /\ Fairness
-----------------------------------------------------------------------------
(* Properties. *)

\* "cache the created tokens for a short period (10 seconds)": tokens live no
\* longer, however misses and expiries follow one another, unless an
\* enumeration has failed half way.
CacheExpiresUnlessFaulted ==
    cached # {} /\ ~faulted => age <= Ttl

\* A voice is enumerated beside its own HKLM token, which System.Speech does
\* not get over, for no more than 10 seconds after its promotion.
DuplicateIsRecent ==
    ~faulted => \A m \in cached \intersect hklm : since[m] <= Ttl

\* At most one expiry is pending, so that the cache is never emptied early
\* by a task of an earlier round.
OneExpiryPending ==
    \A s, t \in Once :
        /\ timer[s] \in {"armed", "starting", "running", "invoking"}
        /\ timer[t] \in {"armed", "starting", "running", "invoking"}
        => s = t

\* DllMain does not wait for ever for a callback, unless DeleteTimerQueueEx
\* waits for one that still has to get a thread, and that thread for the loader
\* lock DllMain holds.
UnloadEndsUnlessStarved ==
    dll = "unloading" ~> down = "down" \/ \E t \in Tasks : timer[t] = "starting"
=============================================================================
