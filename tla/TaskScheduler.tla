--------------------------- MODULE TaskScheduler ---------------------------
(***************************************************************************)
(* TaskScheduler (TaskScheduler.h): background tasks on a Windows timer    *)
(* queue, so that the DLL can wait for them before it is unloaded.         *)
(*                                                                         *)
(* A task is one call of StartNewTask together with the parameter block it *)
(* allocates, its timer and the callback that runs on a pool thread.  The  *)
(* block of a one-shot task is freed by its own callback; the block of any *)
(* other task, and of a one-shot task that never ran, is freed by          *)
(* Uninitialize through the deleters map.  Which of the two frees a block  *)
(* is decided by the order of six steps of three threads.                  *)
(*                                                                         *)
(* The code gets that order wrong in two places, both between the creation *)
(* of the timer and the entry in the map: the entry may throw, so that the *)
(* block of a live timer is freed, and it may come after the callback took *)
(* the block over, so that Uninitialize frees it again.  Such a task is    *)
(* spoiled.  What its callback then does with a freed block is undefined;  *)
(* the model goes on as if the memory still held what it held.             *)
(*                                                                         *)
(* The timer queue is the operating system's: ArmTimer, Fire, ThreadStarts *)
(* and StopTimers say what CreateTimerQueueTimer, the thread pool and      *)
(* DeleteTimerQueueEx do.                                                  *)
(* This module has the state and the steps; a module that starts tasks     *)
(* composes them into a specification.                                     *)
(***************************************************************************)
EXTENDS Naturals, FiniteSets

CONSTANTS Tasks,   \* every call of StartNewTask
          Once     \* those with a zero period: the one-shot tasks

ASSUME OnceAssumption == Once \subseteq Tasks

NoQueue == 0

VARIABLES
    queue,       \* hTimerQueue: NoQueue or the number of a timer queue
    queues,      \* timer queues created so far
    call,        \* call[t]: how far StartNewTask(t) has come
    timer,       \* timer[t]: the timer of t and its callback
    home,        \* home[t]: the queue the timer of t was created in
    data,        \* data[t]: the parameter block of t
    deleters,    \* keys of the deleters map
    down,        \* Uninitialize: "up", "stopping", "freeing", "down"
    spoiled      \* history: tasks whose callback and entry in the map clashed

schedulerVars == <<queue, queues, call, timer, home, data, deleters, down, spoiled>>

\* The callback waits for a pool thread to start, or has one.
AtWork == {"starting", "running", "invoking", "ending"}

SchedulerTypeOK ==
    /\ queue \in Nat
    /\ queues \in Nat
    /\ call \in [Tasks -> {"none", "noQueue", "ready", "armed", "returned", "threw"}]
    /\ timer \in [Tasks -> {"none", "armed", "over"} \union AtWork]
    /\ home \in [Tasks -> Nat]
    /\ data \in [Tasks -> {"none", "live", "freed", "freedTwice"}]
    /\ deleters \subseteq Tasks
    /\ down \in {"up", "stopping", "freeing", "down"}
    /\ spoiled \subseteq Tasks

SchedulerInit ==
    /\ queue = NoQueue
    /\ queues = 0
    /\ call = [t \in Tasks |-> "none"]
    /\ timer = [t \in Tasks |-> "none"]
    /\ home = [t \in Tasks |-> NoQueue]
    /\ data = [t \in Tasks |-> "none"]
    /\ deleters = {}
    /\ down = "up"
    /\ spoiled = {}

\* What delete does to a parameter block.
Freed(block) == IF block = "live" THEN "freed" ELSE "freedTwice"

-----------------------------------------------------------------------------
(* StartNewTask, on the thread of its caller. *)

\* Initialize looks at hTimerQueue without a lock.
BeginStart(t) ==
    /\ call[t] = "none"
    /\ call' = [call EXCEPT ![t] = IF queue = NoQueue THEN "noQueue" ELSE "ready"]
    /\ UNCHANGED <<queue, queues, timer, home, data, deleters, down, spoiled>>

CreateQueue(t) ==
    /\ call[t] = "noQueue"
    /\ queues' = queues + 1
    /\ queue' = queues + 1
    /\ call' = [call EXCEPT ![t] = "ready"]
    /\ UNCHANGED <<timer, home, data, deleters, down, spoiled>>

\* The block is allocated and the timer created with a pointer to it.
ArmTimer(t) ==
    /\ call[t] = "ready"
    /\ data' = [data EXCEPT ![t] = "live"]
    /\ timer' = [timer EXCEPT ![t] = "armed"]
    /\ home' = [home EXCEPT ![t] = queue]
    /\ call' = [call EXCEPT ![t] = "armed"]
    /\ UNCHANGED <<queue, queues, deleters, down, spoiled>>

\* CreateTimerQueue, the allocation or CreateTimerQueueTimer fails before there
\* is a timer: StartNewTask throws, and a block that was allocated is freed.
StartThrows(t) ==
    /\ call[t] \in {"noQueue", "ready"}
    /\ call' = [call EXCEPT ![t] = "threw"]
    /\ UNCHANGED <<queue, queues, timer, home, data, deleters, down, spoiled>>

\* Mutant: the block is not registered with the deleters.
RegisterForgotten(t) ==
    /\ call[t] = "armed"
    /\ call' = [call EXCEPT ![t] = "returned"]
    /\ UNCHANGED <<queue, queues, timer, home, data, deleters, down, spoiled>>

\* Only now, under deleterMutex, is the block entered in the deleters map.
Register(t) ==
    /\ call[t] = "armed"
    /\ deleters' = deleters \union {t}
    /\ call' = [call EXCEPT ![t] = "returned"]
    /\ UNCHANGED <<queue, queues, timer, home, data, down, spoiled>>

\* The lock or emplace throws: unique_ptr frees the block, and its timer is left
\* as it is.
RegisterThrows(t) ==
    /\ call[t] = "armed"
    /\ data' = [data EXCEPT ![t] = Freed(@)]
    /\ spoiled' = spoiled \union {t}
    /\ call' = [call EXCEPT ![t] = "threw"]
    /\ UNCHANGED <<queue, queues, timer, home, deleters, down>>

-----------------------------------------------------------------------------
(* TimerQueueProc, on a thread of the pool. *)

\* The callback is given to a thread that waits for work, or to one the pool has
\* yet to start.
Fire(t) ==
    /\ timer[t] = "armed"
    /\ \E now \in {"starting", "running"} : timer' = [timer EXCEPT ![t] = now]
    /\ UNCHANGED <<queue, queues, call, home, data, deleters, down, spoiled>>

ThreadStarts(t) ==
    /\ timer[t] = "starting"
    /\ timer' = [timer EXCEPT ![t] = "running"]
    /\ UNCHANGED <<queue, queues, call, home, data, deleters, down, spoiled>>

\* Mutant: the callback frees its block and leaves it in the deleters map.
EraseSelfForgotten(t) ==
    /\ t \in Once
    /\ timer[t] = "running"
    /\ timer' = [timer EXCEPT ![t] = "invoking"]
    /\ UNCHANGED <<queue, queues, call, home, data, deleters, down, spoiled>>

\* A one-shot callback takes its block over, under deleterMutex.
EraseSelf(t) ==
    /\ t \in Once
    /\ timer[t] = "running"
    /\ deleters' = deleters \ {t}
    /\ spoiled' = IF t \in deleters THEN spoiled ELSE spoiled \union {t}
    /\ timer' = [timer EXCEPT ![t] = "invoking"]
    /\ UNCHANGED <<queue, queues, call, home, data, down>>

\* The function of a one-shot task has run, and what it locked is unlocked.
FunctionReturns(t) ==
    /\ timer[t] = "invoking"
    /\ timer' = [timer EXCEPT ![t] = "ending"]
    /\ UNCHANGED <<queue, queues, call, home, data, deleters, down, spoiled>>

\* unique_ptr frees the block of a one-shot task; the timer of a periodic one
\* waits for its next period.
FinishOnce(t) ==
    /\ timer[t] = "ending"
    /\ timer' = [timer EXCEPT ![t] = "over"]
    /\ data' = [data EXCEPT ![t] = Freed(@)]
    /\ UNCHANGED <<queue, queues, call, home, deleters, down, spoiled>>

FinishPeriod(t) ==
    /\ t \notin Once
    /\ timer[t] = "running"
    /\ timer' = [timer EXCEPT ![t] = IF down = "up" THEN "armed" ELSE "over"]
    /\ UNCHANGED <<queue, queues, call, home, data, deleters, down, spoiled>>

-----------------------------------------------------------------------------
(* Uninitialize(true), when the DLL is unloaded. *)

NothingToStop ==
    /\ down = "up"
    /\ queue = NoQueue
    /\ down' = "down"
    /\ UNCHANGED <<queue, queues, call, timer, home, data, deleters, spoiled>>

\* DeleteTimerQueueEx takes back the timers of this queue, and of the callbacks
\* that have no thread yet those it still can ...
StopTimers ==
    /\ down = "up"
    /\ queue # NoQueue
    /\ down' = "stopping"
    /\ \E late \in SUBSET {t \in Tasks : timer[t] = "starting"} :
           timer' = [t \in Tasks |->
                        IF timer[t] \in {"armed", "starting"} /\ home[t] = queue /\ t \notin late
                        THEN "over" ELSE timer[t]]
    /\ UNCHANGED <<queue, queues, call, home, data, deleters, spoiled>>

\* Mutant: Uninitialize does not wait for the callbacks.
TimersNotAwaited ==
    /\ down = "stopping"
    /\ queue' = NoQueue
    /\ down' = "freeing"
    /\ UNCHANGED <<queues, call, timer, home, data, deleters, spoiled>>

\* ... and returns once their callbacks have returned.
TimersStopped ==
    /\ down = "stopping"
    /\ \A t \in Tasks : home[t] = queue => timer[t] \notin AtWork
    /\ queue' = NoQueue
    /\ down' = "freeing"
    /\ UNCHANGED <<queues, call, timer, home, data, deleters, spoiled>>

\* Everything in the map is deleted; the map itself is not cleared.
FreeLeft ==
    /\ down = "freeing"
    /\ data' = [t \in Tasks |-> IF t \in deleters THEN Freed(data[t]) ELSE data[t]]
    /\ down' = "down"
    /\ UNCHANGED <<queue, queues, call, timer, home, deleters, spoiled>>

-----------------------------------------------------------------------------
\* Every parameter block is freed exactly once: none twice ("delete tuples that
\* haven't been deleted by callback functions"), none while a timer can still
\* fire or a callback works with it, and all of them by the time the scheduler
\* is down; by then nothing runs any more and the DLL can be unloaded.  Spoiled
\* tasks, see the header, have no such promise for their blocks.
BlocksFreedOnceUnlessSpoiled ==
    /\ \A t \in Tasks \ spoiled :
         /\ data[t] # "freedTwice"
         /\ timer[t] \in AtWork \union {"armed"} => data[t] = "live"
         /\ down = "down" => data[t] # "live"
    /\ down = "down" => \A t \in Tasks : timer[t] \in {"none", "over"}
=============================================================================
