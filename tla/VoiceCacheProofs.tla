-------------------------- MODULE VoiceCacheProofs --------------------------
(***************************************************************************)
(* Theorems about VoiceCache and the TaskScheduler in it, for any tasks,   *)
(* models and lifetime.                                                    *)
(*                                                                         *)
(* Whoever is inside StartNewTask is alone there, so that there is one     *)
(* timer queue; a block is in the deleters map exactly while nobody else   *)
(* is going to free it, unless its callback and its entry in the map have  *)
(* clashed.  The flag is raised exactly while one expiry is on its way,    *)
(* and that expiry bounds the age of what is cached.  The last part is the *)
(* safety half of UnloadEndsUnlessStarved.                                 *)
(***************************************************************************)
EXTENDS VoiceCache, TLAPS

Inside(t) == call[t] \in {"noQueue", "ready", "armed"}
Pending(t) == timer[t] \in {"armed", "starting", "running", "invoking"}

\* One thread at a time is inside StartNewTask, and none once the DLL goes.
StarterInv ==
    /\ \A t \in Tasks : Inside(t) => t = starter
    /\ mutex <=> starter \in Once
    /\ starter \in Once => dll = "loaded"
    /\ starter = FlushTask => dll = "attaching"
    /\ down # "up" => dll = "unloading"

\* All timers are in the one queue there is.
QueueInv ==
    /\ \A t \in Tasks :
         /\ call[t] = "noQueue" => queue = NoQueue
         /\ call[t] = "ready" => queue # NoQueue
         /\ down \in {"up", "stopping"} /\ timer[t] # "none" =>
              home[t] = queue /\ queue # NoQueue
         /\ down # "up" => timer[t] # "armed"
         /\ down \in {"freeing", "down"} => timer[t] \in {"none", "over"}

\* Only a task whose timer was created has one, and only a one-shot callback
\* takes its block over.
TimerInv ==
    \A t \in Tasks :
        /\ timer[t] # "none" => call[t] \in {"armed", "returned", "threw"}
        /\ call[t] \in {"armed", "returned"} => timer[t] # "none"
        /\ timer[t] \in {"invoking", "ending"} => t \in Once

\* Who is going to free a block, and who has.
BlockInv ==
    \A t \in Tasks \ spoiled :
        /\ call[t] \in {"none", "noQueue", "ready", "threw"} =>
             timer[t] = "none" /\ data[t] = "none" /\ t \notin deleters
        /\ call[t] = "armed" =>
             timer[t] \in {"armed", "starting", "running"} /\ data[t] = "live" /\ t \notin deleters
        /\ call[t] = "returned" =>
             /\ timer[t] \in {"armed", "starting", "running"} => t \in deleters
             /\ timer[t] \in {"invoking", "ending"} => t \notin deleters /\ data[t] = "live"
             /\ timer[t] = "over" /\ t \notin deleters => data[t] = "freed"
             /\ t \in deleters => data[t] = IF down = "down" THEN "freed" ELSE "live"

SchedulerInv == TypeOK /\ StarterInv /\ QueueInv /\ TimerInv /\ BlockInv

\* At most one expiry is being started or is pending, and only if the flag is
\* raised.
ExpiryInv ==
    /\ \A t \in Once : Inside(t) \/ Pending(t) => scheduled
    /\ \A s, t \in Once :
         (Inside(s) \/ Pending(s)) /\ (Inside(t) \/ Pending(t)) => s = t

\* The expiry on its way is due before what is cached is too old.
InTime(t) ==
    \/ starter = t /\ call[t] \in {"noQueue", "ready", "threw"} /\ age = 0
    \/ timer[t] = "armed" /\ age + left[t] <= Ttl
    \/ timer[t] \in {"starting", "running", "invoking"} /\ age <= Ttl

AgeInv ==
    ~faulted =>
        /\ cached # {} => scheduled /\ age <= Ttl
        /\ scheduled /\ down = "up" => \E t \in Once : InTime(t)

\* A token was made when its voice had not been promoted.
SinceInv == \A m \in cached \intersect hklm : since[m] <= age

CacheInv == SchedulerInv /\ ExpiryInv /\ AgeInv /\ SinceInv

\* What the assumptions say of the two kinds of tasks.
LEMMA TaskFacts ==
    /\ FlushTask \in Tasks /\ FlushTask \notin Once /\ Once \subseteq Tasks
    /\ \A t \in Tasks : t \in Once \/ t = FlushTask
    /\ NoTask \notin Tasks
    /\ Ttl \in Nat /\ Ttl > 0
BY OnceAssumption, FlushAssumption, NoTaskAssumption, TtlAssumption

-----------------------------------------------------------------------------
(* Types. *)

\* Every step keeps the types, given who may be inside StartNewTask.
LEMMA TypesKeep ==
    ASSUME TypeOK, StarterInv, Next
    PROVE  TypeOK'
<1> USE TaskFacts DEF TypeOK, SchedulerTypeOK, AtWork, NoQueue
<1>1. CASE AttachStartsFlush BY <1>1 DEF AttachStartsFlush, BeginStart
<1>2. CASE Attached BY <1>2 DEF Attached, schedulerVars
<1>3. CASE StarterRuns
  <2>1. CASE CreateQueue(starter) BY <1>3, <2>1 DEF StarterRuns, CreateQueue, cacheVars
  <2>2. CASE Register(starter) BY <1>3, <2>2 DEF StarterRuns, Register, cacheVars
  <2>3. CASE StartThrows(starter) BY <1>3, <2>3 DEF StarterRuns, StartThrows, cacheVars
  <2>4. CASE RegisterThrows(starter)
    BY <1>3, <2>4 DEF StarterRuns, RegisterThrows, Freed, cacheVars
  <2> QED BY <1>3, <2>1, <2>2, <2>3, <2>4 DEF StarterRuns
<1>4. CASE StarterArms BY <1>4 DEF StarterArms, ArmTimer
<1>5. CASE EnumMissScheduled BY <1>5 DEF EnumMissScheduled, Enumerated, schedulerVars
<1>6. CASE EnumBreaksOff BY <1>6 DEF EnumBreaksOff, schedulerVars
<1>7. CASE EnumReturns \/ EnumScheduleThrows
  BY <1>7 DEF EnumReturns, EnumScheduleThrows, schedulerVars
<1>8. ASSUME NEW t \in Once, EnumMiss(t) PROVE TypeOK'
  BY <1>8 DEF EnumMiss, BeginStart, Enumerated
<1>9. ASSUME NEW t \in Tasks, TimerFires(t) \/ TimerThreadStarts(t) PROVE TypeOK'
  BY <1>9 DEF TimerFires, Fire, TimerThreadStarts, ThreadStarts, cacheVars
<1>10. ASSUME NEW t \in Tasks, TimerErases(t) PROVE TypeOK'
  BY <1>10 DEF TimerErases, EraseSelf, cacheVars
<1>11. ASSUME NEW t \in Tasks, Expire(t) \/ TimerEnds(t) PROVE TypeOK'
  <2>1. CASE Expire(t)
    <3>1. scheduled' \in BOOLEAN BY <2>1 DEF Expire
    <3> QED BY <2>1, <3>1 DEF Expire, FunctionReturns
  <2>2. CASE TimerEnds(t)
    <3>1. Freed(data[t]) \in {"freed", "freedTwice"} BY DEF Freed
    <3>2. data' \in [Tasks -> {"none", "live", "freed", "freedTwice"}]
      BY <2>2, <3>1 DEF TimerEnds, FinishOnce
    <3> QED BY <2>2, <3>2 DEF TimerEnds, FinishOnce, cacheVars
  <2> QED BY <1>11, <2>1, <2>2
<1>12. CASE Flush BY <1>12 DEF Flush, FinishPeriod
<1>13. ASSUME NEW m \in Models, Promote(m) \/ Unpromote(m) PROVE TypeOK'
  BY <1>13 DEF Promote, Unpromote, schedulerVars
<1>14. CASE Tick
  <2>1. left' \in [Tasks -> 0 .. Ttl] BY <1>14 DEF Tick, Quiet
  <2>2. \A n \in 0 .. Ttl + 1 : OneMore(n) \in 0 .. Ttl + 1 BY DEF OneMore
  <2>3. age' \in 0 .. Ttl + 1 BY <1>14, <2>2 DEF Tick
  <2>4. since' \in [Models -> 0 .. Ttl + 1] BY <1>14, <2>2 DEF Tick
  <2> QED BY <1>14, <2>1, <2>3, <2>4 DEF Tick, schedulerVars
<1>15. CASE Detach BY <1>15 DEF Detach, schedulerVars
<1>16. CASE Uninitialize
  <2>1. CASE NothingToStop BY <1>16, <2>1 DEF Uninitialize, NothingToStop, cacheVars
  <2>2. CASE StopTimers BY <1>16, <2>2 DEF Uninitialize, StopTimers, cacheVars
  <2>3. CASE TimersStopped BY <1>16, <2>3 DEF Uninitialize, TimersStopped, cacheVars
  <2>4. CASE FreeLeft BY <1>16, <2>4 DEF Uninitialize, FreeLeft, Freed, cacheVars
  <2> QED BY <1>16, <2>1, <2>2, <2>3, <2>4 DEF Uninitialize
<1> QED
  BY <1>1, <1>2, <1>3, <1>4, <1>5, <1>6, <1>7, <1>8, <1>9, <1>10, <1>11, <1>12, <1>13, <1>14, <1>15,
     <1>16 DEF Next, Starting, Enumerating, CallbackSteps

-----------------------------------------------------------------------------
(* The scheduler. *)

\* A step that leaves the scheduler alone, and who is inside it.
LEMMA SchedulerUntouched ==
    ASSUME SchedulerInv, TypeOK', UNCHANGED <<schedulerVars, dll, starter, mutex, left>>
    PROVE  SchedulerInv'
BY DEF SchedulerInv, StarterInv, QueueInv, TimerInv, BlockInv, Inside, schedulerVars

\* StartNewTask, and how its callers enter and leave it.
LEMMA StartingKeeps ==
    ASSUME SchedulerInv, TypeOK',
           \/ Starting
           \/ \E t \in Once : EnumMiss(t)
           \/ EnumReturns \/ EnumScheduleThrows
    PROVE  SchedulerInv'
<1> USE TaskFacts DEF SchedulerInv, TypeOK, SchedulerTypeOK, AtWork, NoQueue, Inside,
                      StarterInv, QueueInv, TimerInv, BlockInv
<1>1. CASE AttachStartsFlush BY <1>1 DEF AttachStartsFlush, BeginStart
<1>2. CASE Attached BY <1>2 DEF Attached, schedulerVars
<1>3. CASE StarterRuns
  <2>0. starter \in Tasks /\ down = "up" BY <1>3 DEF StarterRuns
  <2>1. CASE CreateQueue(starter) BY <1>3, <2>0, <2>1 DEF StarterRuns, CreateQueue, cacheVars
  <2>2. CASE Register(starter) BY <1>3, <2>0, <2>2 DEF StarterRuns, Register, cacheVars
  <2>3. CASE StartThrows(starter) BY <1>3, <2>0, <2>3 DEF StarterRuns, StartThrows, cacheVars
  <2>4. CASE RegisterThrows(starter)
    BY <1>3, <2>0, <2>4 DEF StarterRuns, RegisterThrows, cacheVars
  <2> QED BY <1>3, <2>1, <2>2, <2>3, <2>4 DEF StarterRuns
<1>4. CASE StarterArms
  <2>0. starter \in Tasks /\ down = "up" BY <1>4 DEF StarterArms
  <2> QED BY <1>4, <2>0 DEF StarterArms, ArmTimer
<1>5. ASSUME NEW t \in Once, EnumMiss(t) PROVE SchedulerInv'
  <2>0. starter = NoTask /\ t \in Tasks /\ down = "up" BY <1>5 DEF EnumMiss
  <2> QED BY <1>5, <2>0 DEF EnumMiss, BeginStart
<1>6. CASE EnumReturns BY <1>6 DEF EnumReturns, schedulerVars
<1>7. CASE EnumScheduleThrows BY <1>7 DEF EnumScheduleThrows, schedulerVars
<1> QED BY <1>1, <1>2, <1>3, <1>4, <1>5, <1>6, <1>7 DEF Starting

\* The callbacks, and the passing of time.
LEMMA CallbacksKeep ==
    ASSUME SchedulerInv, TypeOK', (\E t \in Tasks : CallbackSteps(t)) \/ Flush \/ Tick
    PROVE  SchedulerInv'
<1> USE TaskFacts DEF SchedulerInv, TypeOK, SchedulerTypeOK, AtWork, NoQueue, Inside,
                      StarterInv, QueueInv, TimerInv, BlockInv
<1>1. ASSUME NEW t \in Tasks, TimerFires(t) \/ TimerThreadStarts(t) PROVE SchedulerInv'
  <2>1. /\ timer[t] \in {"armed", "starting"}
        /\ timer' = [timer EXCEPT ![t] = timer'[t]] /\ timer'[t] \in {"starting", "running"}
        /\ UNCHANGED <<queue, queues, call, home, data, deleters, down, spoiled, cacheVars>>
    BY <1>1 DEF TimerFires, Fire, TimerThreadStarts, ThreadStarts
  <2> QED BY <2>1 DEF cacheVars
<1>2. ASSUME NEW t \in Tasks, TimerErases(t) PROVE SchedulerInv'
  BY <1>2 DEF TimerErases, EraseSelf, cacheVars
<1>3. ASSUME NEW t \in Tasks, Expire(t) \/ TimerEnds(t) PROVE SchedulerInv'
  <2>1. CASE Expire(t)
    <3>1. timer[t] = "invoking" /\ t \in Once /\ ~mutex BY <2>1 DEF Expire, FunctionReturns
    <3>2. t # starter /\ ~Inside(t) BY <3>1
    <3> QED BY <2>1, <3>1, <3>2 DEF Expire, FunctionReturns
  <2>2. CASE TimerEnds(t)
    <3>1. timer[t] = "ending" /\ t \in Once /\ down \in {"up", "stopping"}
      BY <2>2 DEF TimerEnds, FinishOnce
    <3>2. t \notin spoiled =>
             data[t] = "live" /\ t \notin deleters /\ call[t] = "returned"
      BY <3>1
    <3> QED BY <2>2, <3>1, <3>2 DEF TimerEnds, FinishOnce, Freed, cacheVars
  <2> QED BY <1>3, <2>1, <2>2
<1>4. CASE Flush
  <2>1. timer[FlushTask] = "running" /\ timer'[FlushTask] = IF down = "up" THEN "armed" ELSE "over"
    BY <1>4 DEF Flush, FinishPeriod
  <2>2. \A t \in Tasks \ {FlushTask} : timer'[t] = timer[t] /\ left'[t] = left[t]
    BY <1>4 DEF Flush, FinishPeriod
  <2> QED BY <1>4, <2>1, <2>2 DEF Flush, FinishPeriod
<1>5. CASE Tick BY <1>5 DEF Tick, schedulerVars
<1> QED BY <1>1, <1>2, <1>3, <1>4, <1>5 DEF CallbackSteps

\* The unloading of the DLL.
LEMMA UnloadingKeeps ==
    ASSUME SchedulerInv, TypeOK', Detach \/ Uninitialize
    PROVE  SchedulerInv'
<1> USE TaskFacts DEF SchedulerInv, TypeOK, SchedulerTypeOK, AtWork, NoQueue, Inside,
                      StarterInv, QueueInv, TimerInv, BlockInv
<1>1. CASE Detach BY <1>1 DEF Detach, schedulerVars
<1>2. CASE Uninitialize /\ NothingToStop
  <2>1. \A t \in Tasks : timer[t] = "none" BY <1>2 DEF NothingToStop
  <2> QED BY <1>2, <2>1 DEF Uninitialize, NothingToStop, cacheVars
<1>3. CASE Uninitialize /\ StopTimers
  <2>0. \A t \in Tasks : ~Inside(t) BY <1>3 DEF Uninitialize
  <2>1. \A t \in Tasks :
           /\ timer[t] \notin {"armed", "starting"} => timer'[t] = timer[t]
           /\ timer[t] = "armed" => timer'[t] = "over"
           /\ timer[t] = "starting" => timer'[t] \in {"starting", "over"}
    BY <1>3 DEF StopTimers
  <2> QED BY <1>3, <2>0, <2>1 DEF Uninitialize, StopTimers, cacheVars
<1>4. CASE Uninitialize /\ TimersStopped BY <1>4 DEF Uninitialize, TimersStopped, cacheVars
<1>5. CASE Uninitialize /\ FreeLeft
  <2>1. \A t \in Tasks \ spoiled : data'[t] = IF t \in deleters THEN "freed" ELSE data[t]
    BY <1>5 DEF FreeLeft, Freed
  <2> QED BY <1>5, <2>1 DEF Uninitialize, FreeLeft, cacheVars
<1> QED BY <1>1, <1>2, <1>3, <1>4, <1>5 DEF Uninitialize

\* Every step.
LEMMA SchedulerKeeps ==
    ASSUME SchedulerInv, [Next]_vars
    PROVE  SchedulerInv'
<1>1. CASE Next
  <2>1. TypeOK' BY <1>1, TypesKeep DEF SchedulerInv
  <2>2. CASE \/ EnumMissScheduled \/ EnumBreaksOff
             \/ \E m \in Models : Promote(m) \/ Unpromote(m)
    BY <2>1, <2>2, SchedulerUntouched DEF EnumMissScheduled, EnumBreaksOff, Promote, Unpromote
  <2> QED
    BY <1>1, <2>1, <2>2, StartingKeeps, CallbacksKeep, UnloadingKeeps DEF Next, Enumerating
<1>2. CASE UNCHANGED vars
  BY <1>2 DEF vars, cacheVars, schedulerVars, SchedulerInv, TypeOK, SchedulerTypeOK, StarterInv,
              QueueInv, TimerInv, BlockInv, Inside
<1> QED BY <1>1, <1>2

-----------------------------------------------------------------------------
(* The expiry of the cache. *)

\* The flag and the one expiry.
LEMMA ExpiryKeeps ==
    ASSUME SchedulerInv, ExpiryInv, Next
    PROVE  ExpiryInv'
<1> USE TaskFacts DEF SchedulerInv, TypeOK, SchedulerTypeOK, AtWork, NoQueue, Inside, Pending,
                      StarterInv, TimerInv, ExpiryInv
<1>1. CASE AttachStartsFlush BY <1>1 DEF AttachStartsFlush, BeginStart
<1>2. CASE Attached \/ EnumMissScheduled \/ EnumBreaksOff \/ EnumReturns \/ EnumScheduleThrows
  BY <1>2 DEF Attached, EnumMissScheduled, EnumBreaksOff, EnumReturns, EnumScheduleThrows,
              schedulerVars
<1>3. CASE StarterRuns \/ StarterArms
  <2>1. starter \in Tasks BY <1>3 DEF StarterRuns, StarterArms
  <2>2. Inside(starter) BY <1>3 DEF StarterRuns, StarterArms, CreateQueue, Register, RegisterThrows, StartThrows, ArmTimer
  <2>3. scheduled' = scheduled BY <1>3 DEF StarterRuns, StarterArms, cacheVars
  <2>4. \A t \in Tasks \ {starter} : call'[t] = call[t] /\ timer'[t] = timer[t]
    BY <1>3, <2>1 DEF StarterRuns, StarterArms, CreateQueue, Register, RegisterThrows, StartThrows,
                      ArmTimer
  <2> QED BY <2>1, <2>2, <2>3, <2>4
<1>4. ASSUME NEW t \in Once, EnumMiss(t) PROVE ExpiryInv'
  BY <1>4 DEF EnumMiss, BeginStart
<1>5. ASSUME NEW t \in Tasks,
             TimerFires(t) \/ TimerThreadStarts(t) \/ TimerErases(t) \/ TimerEnds(t)
      PROVE  ExpiryInv'
  <2>1. /\ \A s \in Tasks : s # t => timer'[s] = timer[s]
        /\ timer'[t] \in {"starting", "running", "invoking"} => Pending(t)
        /\ timer'[t] \in {"starting", "running", "invoking", "over"}
        /\ UNCHANGED <<call, scheduled>>
    BY <1>5 DEF TimerFires, TimerThreadStarts, TimerErases, TimerEnds, Fire, ThreadStarts, EraseSelf,
                FinishOnce, cacheVars
  <2> QED BY <2>1
<1>6. ASSUME NEW t \in Tasks, Expire(t) PROVE ExpiryInv'
  <2>1. t \in Once /\ Pending(t) /\ ~mutex BY <1>6 DEF Expire, FunctionReturns
  <2>2. ~Inside(t) BY <2>1
  <2> QED BY <1>6, <2>1, <2>2 DEF Expire, FunctionReturns
<1>7. CASE Flush BY <1>7 DEF Flush, FinishPeriod
<1>8. ASSUME NEW m \in Models, Promote(m) \/ Unpromote(m) PROVE ExpiryInv'
  BY <1>8 DEF Promote, Unpromote, schedulerVars
<1>9. CASE Tick \/ Detach BY <1>9 DEF Tick, Detach, schedulerVars
<1>10. CASE Uninitialize
  <2>1. UNCHANGED <<call, scheduled>>
    BY <1>10 DEF Uninitialize, NothingToStop, StopTimers, TimersStopped, FreeLeft, cacheVars
  <2>2. \A t \in Tasks : timer'[t] \in {timer[t], "over"}
    BY <1>10 DEF Uninitialize, NothingToStop, StopTimers, TimersStopped, FreeLeft
  <2> QED BY <2>1, <2>2
<1> QED
  BY <1>1, <1>2, <1>3, <1>4, <1>5, <1>6, <1>7, <1>8, <1>9, <1>10
     DEF Next, Starting, Enumerating, CallbackSteps

\* The age of what is cached.
LEMMA AgeKeeps ==
    ASSUME SchedulerInv, ExpiryInv, AgeInv, Next
    PROVE  AgeInv'
<1> USE TaskFacts DEF SchedulerInv, TypeOK, SchedulerTypeOK, AtWork, NoQueue, AgeInv, InTime
<1>1. CASE AttachStartsFlush
  <2>1. \A t \in Once : InTime(t) => InTime(t)'
    BY <1>1 DEF AttachStartsFlush, BeginStart, StarterInv
  <2> QED BY <1>1, <2>1 DEF AttachStartsFlush, BeginStart
<1>2. CASE Attached
  <2>1. \A t \in Once : InTime(t) => InTime(t)' BY <1>2 DEF Attached, StarterInv, schedulerVars
  <2> QED BY <1>2, <2>1 DEF Attached, schedulerVars
<1>3. CASE StarterRuns
  <2>1. \A t \in Once : InTime(t) => InTime(t)'
    BY <1>3 DEF StarterRuns, CreateQueue, Register, RegisterThrows, StartThrows, cacheVars
  <2>2. UNCHANGED cacheVars /\ UNCHANGED down
    BY <1>3 DEF StarterRuns, CreateQueue, Register, RegisterThrows, StartThrows
  <2> QED BY <2>1, <2>2 DEF cacheVars
<1>4. CASE StarterArms
  <2>1. \A t \in Once : InTime(t) => InTime(t)'
    BY <1>4 DEF StarterArms, ArmTimer, TimerInv
  <2> QED BY <1>4, <2>1 DEF StarterArms, ArmTimer
<1>5. CASE EnumMissScheduled
  <2>1. \A t \in Once : InTime(t) => InTime(t)' BY <1>5 DEF EnumMissScheduled, schedulerVars
  <2> QED BY <1>5, <2>1 DEF EnumMissScheduled, schedulerVars
<1>6. CASE EnumBreaksOff BY <1>6 DEF EnumBreaksOff
<1>7. CASE EnumReturns
  <2>1. \A t \in Once : InTime(t) => InTime(t)' BY <1>7 DEF EnumReturns, schedulerVars
  <2> QED BY <1>7, <2>1 DEF EnumReturns, schedulerVars
<1>8. CASE EnumScheduleThrows BY <1>8 DEF EnumScheduleThrows
<1>9. ASSUME NEW t \in Once, EnumMiss(t) PROVE AgeInv'
  <2>1. InTime(t)' BY <1>9 DEF EnumMiss, BeginStart
  <2> QED BY <1>9, <2>1 DEF EnumMiss, BeginStart
<1>10. ASSUME NEW t \in Tasks,
              TimerFires(t) \/ TimerThreadStarts(t) \/ TimerErases(t) \/ TimerEnds(t)
       PROVE  AgeInv'
  <2>1. /\ \A s \in Tasks : s # t => timer'[s] = timer[s]
        /\ Pending(t) => timer'[t] \in {"starting", "running", "invoking"}
        /\ timer[t] \in {"armed", "starting", "running", "ending"}
        /\ timer[t] = "armed" => left[t] = 0
        /\ UNCHANGED <<call, down, cacheVars>>
    BY <1>10 DEF TimerFires, TimerThreadStarts, TimerErases, TimerEnds, Fire, ThreadStarts, EraseSelf,
                 FinishOnce, Pending
  <2>2. \A u \in Once : InTime(u) => InTime(u)' BY <2>1 DEF Pending, cacheVars
  <2> QED BY <2>1, <2>2 DEF cacheVars
<1>11. ASSUME NEW t \in Tasks, Expire(t) PROVE AgeInv'
  <2>1. cached' = {} /\ ~scheduled' BY <1>11 DEF Expire
  <2> QED BY <2>1
<1>12. CASE Flush
  <2>1. \A t \in Once : InTime(t) => InTime(t)' BY <1>12 DEF Flush, FinishPeriod
  <2> QED BY <1>12, <2>1 DEF Flush, FinishPeriod
<1>13. ASSUME NEW m \in Models, Promote(m) \/ Unpromote(m) PROVE AgeInv'
  <2>1. \A t \in Once : InTime(t) => InTime(t)' BY <1>13 DEF Promote, Unpromote, schedulerVars
  <2> QED BY <1>13, <2>1 DEF Promote, Unpromote, schedulerVars
<1>14. CASE Tick
  <2>1. \A t \in Tasks : timer[t] = "armed" => left[t] > 0 /\ left'[t] = left[t] - 1
    BY <1>14 DEF Tick, Quiet
  <2>2. /\ \A t \in Tasks : timer[t] \notin {"starting", "running", "invoking"}
        /\ \A t \in Tasks : starter = t => call[t] \in {"armed", "returned"}
    BY <1>14 DEF Tick, Quiet
  <2>3. age' \in Nat /\ age' <= age + 1 BY <1>14 DEF Tick, OneMore
  <2>4. \A t \in Once : InTime(t) => InTime(t)' /\ age' <= Ttl
    BY <1>14, <2>1, <2>2, <2>3 DEF Tick, schedulerVars
  <2>5. down = "up" BY <1>14 DEF Tick, StarterInv
  <2> QED BY <1>14, <2>4, <2>5 DEF Tick, schedulerVars
<1>15. CASE Detach
  <2>1. \A t \in Once : InTime(t) => InTime(t)' BY <1>15 DEF Detach, schedulerVars
  <2> QED BY <1>15, <2>1 DEF Detach, schedulerVars
<1>16. CASE Uninitialize
  <2>1. UNCHANGED cacheVars /\ down' # "up"
    BY <1>16 DEF Uninitialize, NothingToStop, StopTimers, TimersStopped, FreeLeft
  <2> QED BY <2>1 DEF cacheVars
<1> QED
  BY <1>1, <1>2, <1>3, <1>4, <1>5, <1>6, <1>7, <1>8, <1>9, <1>10, <1>11, <1>12, <1>13, <1>14, <1>15,
     <1>16 DEF Next, Starting, Enumerating, CallbackSteps

\* When what is cached was made.
LEMMA SinceKeeps ==
    ASSUME TypeOK, SinceInv, Next
    PROVE  SinceInv'
<1> USE TaskFacts DEF TypeOK, SinceInv
<1>1. CASE Starting
  <2>1. UNCHANGED <<cached, hklm, age, since>>
    BY <1>1 DEF Starting, AttachStartsFlush, Attached, StarterRuns, StarterArms, cacheVars
  <2> QED BY <2>1
<1>2. CASE EnumMissScheduled \/ EnumBreaksOff \/ \E t \in Once : EnumMiss(t)
  <2>1. cached' \intersect hklm' = {}
    BY <1>2 DEF EnumMissScheduled, EnumBreaksOff, EnumMiss, Enumerated
  <2> QED BY <2>1
<1>3. CASE EnumReturns \/ EnumScheduleThrows BY <1>3 DEF EnumReturns, EnumScheduleThrows
<1>4. CASE \E t \in Tasks : CallbackSteps(t)
  <2>1. cached' = {} \/ UNCHANGED <<cached, hklm, age, since>>
    BY <1>4 DEF CallbackSteps, TimerFires, TimerThreadStarts, TimerErases, Expire, TimerEnds, cacheVars
  <2> QED BY <2>1
<1>5. CASE Flush \/ Detach BY <1>5 DEF Flush, Detach
<1>6. ASSUME NEW m \in Models, Promote(m) \/ Unpromote(m) PROVE SinceInv'
  BY <1>6 DEF Promote, Unpromote
<1>7. CASE Tick
  <2>1. \A n, k \in 0 .. Ttl + 1 : n <= k => OneMore(n) <= OneMore(k) BY DEF OneMore
  <2> QED BY <1>7, <2>1 DEF Tick
<1>8. CASE Uninitialize BY <1>8 DEF Uninitialize, cacheVars
<1> QED BY <1>1, <1>2, <1>3, <1>4, <1>5, <1>6, <1>7, <1>8 DEF Next, Enumerating

-----------------------------------------------------------------------------
(* The invariant, and what follows. *)

\* Nothing is cached or scheduled when the DLL is loaded.
LEMMA InitHolds == Init => CacheInv
<1> SUFFICES ASSUME Init PROVE CacheInv OBVIOUS
<1> USE TaskFacts DEF Init, SchedulerInit, NoQueue
<1>1. TypeOK
  <2>1. SchedulerTypeOK BY DEF SchedulerTypeOK, AtWork
  <2>2. mutex \in BOOLEAN /\ scheduled \in BOOLEAN /\ faulted \in BOOLEAN OBVIOUS
  <2>3. left \in [Tasks -> 0 .. Ttl] /\ since \in [Models -> 0 .. Ttl + 1] OBVIOUS
  <2> QED BY <2>1, <2>2, <2>3 DEF TypeOK
<1>2. StarterInv
  <2>1. ~mutex /\ starter = NoTask /\ down = "up" OBVIOUS
  <2>2. \A t \in Tasks : ~Inside(t) BY DEF Inside
  <2> QED BY <2>1, <2>2 DEF StarterInv
<1>3. QueueInv BY DEF QueueInv
<1>4. TimerInv /\ BlockInv BY DEF TimerInv, BlockInv
<1>5. ExpiryInv BY DEF ExpiryInv, Inside, Pending
<1>6. AgeInv
  <2>1. cached = {} /\ ~scheduled BY DEF Init
  <2> QED BY <2>1 DEF AgeInv
<1>7. SinceInv BY DEF SinceInv
<1> QED BY <1>1, <1>2, <1>3, <1>4, <1>5, <1>6, <1>7 DEF CacheInv, SchedulerInv

\* Every step keeps the invariant.
LEMMA NextHolds == CacheInv /\ [Next]_vars => CacheInv'
<1> SUFFICES ASSUME CacheInv, [Next]_vars PROVE CacheInv' OBVIOUS
<1>1. SchedulerInv' BY SchedulerKeeps DEF CacheInv
<1>2. CASE Next
  BY <1>1, <1>2, ExpiryKeeps, AgeKeeps, SinceKeeps DEF CacheInv, SchedulerInv
<1>3. CASE UNCHANGED vars
  BY <1>1, <1>3 DEF vars, cacheVars, schedulerVars, CacheInv, ExpiryInv, AgeInv, SinceInv, Inside,
                    Pending, InTime
<1> QED BY <1>2, <1>3

\* The scheduler and the cache keep the invariant, whatever fails and fires.
THEOREM CacheInvAlways == Spec => []CacheInv
<1> QED BY InitHolds, NextHolds, PTL DEF Spec

\* Every variable keeps to its type.
THEOREM TypesHold == Spec => []TypeOK
<1>1. CacheInv => TypeOK BY DEF CacheInv, SchedulerInv
<1> QED BY <1>1, CacheInvAlways, PTL

\* Each parameter block is freed once, by its callback or by Uninitialize, and
\* none while its timer may still use it, unless StartNewTask failed or fell
\* behind its own timer before the block was in the deleters map.
THEOREM BlocksAreFreedOnce == Spec => []BlocksFreedOnceUnlessSpoiled
<1>1. CacheInv => BlocksFreedOnceUnlessSpoiled
  BY DEF CacheInv, SchedulerInv, TypeOK, SchedulerTypeOK, AtWork, QueueInv, TimerInv, BlockInv,
         BlocksFreedOnceUnlessSpoiled
<1> QED BY <1>1, CacheInvAlways, PTL

\* What is cached goes within its lifetime, unless an enumeration failed half way.
THEOREM CacheExpires == Spec => []CacheExpiresUnlessFaulted
<1>1. CacheInv => CacheExpiresUnlessFaulted
  BY DEF CacheInv, AgeInv, CacheExpiresUnlessFaulted
<1> QED BY <1>1, CacheInvAlways, PTL

\* A voice is listed twice only for the lifetime of the cache.
THEOREM DuplicatesAreRecent == Spec => []DuplicateIsRecent
<1>1. CacheInv => DuplicateIsRecent
  <2> SUFFICES ASSUME CacheInv, ~faulted, NEW m \in cached \intersect hklm
               PROVE  since[m] <= Ttl
      BY DEF DuplicateIsRecent
  <2>1. since[m] <= age /\ age <= Ttl BY DEF CacheInv, AgeInv, SinceInv
  <2>2. since[m] \in Nat /\ age \in Nat /\ Ttl \in Nat
    BY TaskFacts DEF CacheInv, SchedulerInv, TypeOK
  <2> QED BY <2>1, <2>2
<1> QED BY <1>1, CacheInvAlways, PTL

\* At most one expiry is pending.
THEOREM ExpiriesDoNotPile == Spec => []OneExpiryPending
<1>1. CacheInv => OneExpiryPending
  BY DEF CacheInv, ExpiryInv, Pending, OneExpiryPending
<1> QED BY <1>1, CacheInvAlways, PTL

-----------------------------------------------------------------------------
(* What UnloadEndsUnlessStarved rests on beside fairness: the callbacks    *)
(* Uninitialize waits for can go on, or are those the property excepts,    *)
(* and each of them only has so far to go.                                 *)

\* A callback is at work, and a one-shot that is about to empty the cache
\* gets s_cacheMutex.
CanGoOn(t) ==
    \/ timer[t] \in {"running", "ending"}
    \/ timer[t] = "invoking" /\ t \in Once /\ ~mutex

\* Its thread has yet to start, and cannot.
WaitsForLoaderLock(t) == timer[t] = "starting" /\ LoaderLocked

UnloadWaitsForTheLiving ==
    dll = "unloading" =>
        \A t \in Tasks : timer[t] \in AtWork => CanGoOn(t) \/ WaitsForLoaderLock(t)

\* The stations of a callback and of Uninitialize, in the order of the code;
\* a timer that was never created stays where it is.
CallbackStage ==
    [armed |-> 0, starting |-> 1, running |-> 2, invoking |-> 3, ending |-> 4, over |-> 5, none |-> 6]
DownStage == [up |-> 0, stopping |-> 1, freeing |-> 2, down |-> 3]

CallbackGetsOn(t) == timer'[t] = timer[t] \/ CallbackStage[timer[t]] < CallbackStage[timer'[t]]
DownGetsOn == down' = down \/ DownStage[down] < DownStage[down']

\* While DllMain waits for the callbacks, each that has a thread can go on:
\* nobody is inside FinalConstruct with s_cacheMutex.  A callback without a
\* thread waits for the loader lock, and so for DllMain itself.
THEOREM UnloadIsNotStuck == Spec => []UnloadWaitsForTheLiving
<1>1. CacheInv => UnloadWaitsForTheLiving
  <2> SUFFICES ASSUME CacheInv, dll = "unloading", NEW t \in Tasks, timer[t] \in AtWork
               PROVE  CanGoOn(t) \/ WaitsForLoaderLock(t)
      BY DEF UnloadWaitsForTheLiving
  <2>1. starter \notin Once /\ mutex \in BOOLEAN
    BY DEF CacheInv, SchedulerInv, TypeOK, StarterInv
  <2>2. ~mutex
    BY <2>1 DEF CacheInv, SchedulerInv, StarterInv
  <2>3. timer[t] = "invoking" => t \in Once
    BY DEF CacheInv, SchedulerInv, TimerInv
  <2> QED BY <2>2, <2>3 DEF CanGoOn, WaitsForLoaderLock, LoaderLocked, AtWork
<1> QED BY <1>1, CacheInvAlways, PTL

\* From the moment Uninitialize has stopped the timers no callback begins,
\* and those that run only get on; Uninitialize itself never goes back.
THEOREM UnloadGetsOn ==
    Spec => [][DownGetsOn /\ (down # "up" => \A t \in Tasks : CallbackGetsOn(t))]_vars
<1>1. ASSUME CacheInv, Next
      PROVE  DownGetsOn /\ (down # "up" => \A t \in Tasks : CallbackGetsOn(t))
  <2> USE TaskFacts DEF CacheInv, SchedulerInv, TypeOK, SchedulerTypeOK, AtWork, StarterInv, QueueInv,
                        Inside, CallbackGetsOn, DownGetsOn, CallbackStage, DownStage
  <2>1. CASE Starting
    <3>1. down' = down /\ down = "up"
      BY <1>1, <2>1 DEF Starting, AttachStartsFlush, Attached, StarterRuns, StarterArms, BeginStart,
                        CreateQueue, Register, RegisterThrows, StartThrows, ArmTimer, schedulerVars
    <3> QED BY <3>1
  <2>2. CASE Enumerating
    <3>1. down' = down /\ timer' = timer
      BY <2>2 DEF Enumerating, EnumMissScheduled, EnumBreaksOff, EnumReturns, EnumScheduleThrows,
                  EnumMiss, BeginStart, schedulerVars
    <3> QED BY <3>1
  <2>3. ASSUME NEW t \in Tasks, CallbackSteps(t)
        PROVE  DownGetsOn /\ (down # "up" => \A s \in Tasks : CallbackGetsOn(s))
    <3>1. CASE TimerFires(t) BY <1>1, <3>1 DEF TimerFires, Fire
    <3>2. CASE TimerErases(t) BY <1>1, <3>2 DEF TimerErases, EraseSelf
    <3>3. CASE Expire(t) BY <1>1, <3>3 DEF Expire, FunctionReturns
    <3>4. CASE TimerThreadStarts(t) BY <1>1, <3>4 DEF TimerThreadStarts, ThreadStarts
    <3>5. CASE TimerEnds(t) BY <1>1, <3>5 DEF TimerEnds, FinishOnce
    <3> QED BY <2>3, <3>1, <3>2, <3>3, <3>4, <3>5 DEF CallbackSteps
  <2>4. CASE Flush BY <1>1, <2>4 DEF Flush, FinishPeriod
  <2>5. ASSUME \/ \E m \in Models : Promote(m) \/ Unpromote(m)
               \/ Tick \/ Detach
        PROVE  down' = down /\ timer' = timer
    BY <2>5 DEF Promote, Unpromote, Tick, Detach, schedulerVars
  <2>6. CASE Uninitialize
    <3>1. CASE NothingToStop BY <3>1 DEF NothingToStop
    <3>2. CASE StopTimers BY <3>2 DEF StopTimers
    <3>3. CASE TimersStopped BY <3>3 DEF TimersStopped
    <3>4. CASE FreeLeft BY <3>4 DEF FreeLeft
    <3> QED BY <2>6, <3>1, <3>2, <3>3, <3>4 DEF Uninitialize
  <2> QED BY <1>1, <2>1, <2>2, <2>3, <2>4, <2>5, <2>6 DEF Next
<1>2. CacheInv /\ [Next]_vars
        => [DownGetsOn /\ (down # "up" => \A t \in Tasks : CallbackGetsOn(t))]_vars
  BY <1>1
<1> QED BY <1>2, CacheInvAlways, PTL DEF Spec
=============================================================================
