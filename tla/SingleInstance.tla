--------------------------- MODULE SingleInstance ---------------------------
(***************************************************************************)
(* How a VoiceGarden.UI process becomes the one window: Program.Main and   *)
(* TryTakeOverFromWindowlessInstance (VoiceGarden.UI/Program.cs).          *)
(*                                                                         *)
(* The named mutex is only asked whether it existed.  It exists as long as *)
(* any process has a handle to it, and a handle is closed by Dispose or by *)
(* the end of the process.  A process with arguments is the command line,  *)
(* has no window and never opens the mutex, but has the same name.         *)
(*                                                                         *)
(* What the two tests for a window (EnumWindows and MainWindowHandle) find *)
(* is taken to be the same.  Kill ends a process a while after it returns. *)
(***************************************************************************)
EXTENDS Naturals

CONSTANTS Procs,      \* processes that can run at a time
          MaxPolls    \* how often a launch looks for the mutex to go: 50

ASSUME MaxPollsAssumption == MaxPolls \in Nat \ {0}

VARIABLES
    pc,       \* pc[p]: where process p is
    handle,   \* processes with a handle to the mutex
    win,      \* processes with a window
    old,      \* processes that have run for 30 seconds
    dying,    \* processes somebody has killed, which still run
    polls     \* polls[p]: how often p has looked

instance == <<pc, handle, win, old, dying, polls>>

\* A launch that has to wait is over in 10 seconds and never becomes old.
Launching == {"opening", "bringing", "takingOver", "polling", "deferring"}
Running == {p \in Procs : pc[p] \in Launching \union {"ui", "cli"}}
Uis == {p \in Procs : pc[p] = "ui"}

InstanceTypes ==
    /\ pc \in [Procs -> Launching \union {"absent", "ui", "cli"}]
    /\ handle \subseteq Procs /\ win \subseteq Procs
    /\ old \subseteq Procs /\ dying \subseteq Procs
    /\ polls \in [Procs -> 0 .. MaxPolls]

InstanceInit ==
    /\ pc = [p \in Procs |-> "absent"]
    /\ handle = {} /\ win = {} /\ old = {} /\ dying = {}
    /\ polls = [p \in Procs |-> 0]

Go(p, step) == pc' = [pc EXCEPT ![p] = step]

\* A process ends, and Windows closes its handles and its window.
Ends(p) ==
    /\ Go(p, "absent")
    /\ handle' = handle \ {p}
    /\ win' = win \ {p}
    /\ old' = old \ {p}
    /\ dying' = dying \ {p}
    /\ polls' = [polls EXCEPT ![p] = 0]
-----------------------------------------------------------------------------
Launch(p) ==
    /\ pc[p] = "absent"
    /\ Go(p, "opening")
    /\ UNCHANGED <<handle, win, old, dying, polls>>

LaunchCli(p) ==
    /\ pc[p] = "absent"
    /\ Go(p, "cli")
    /\ UNCHANGED <<handle, win, old, dying, polls>>

\* new Mutex(true, name, out createdNew): p gets a handle in any case.
Opens(p, created, otherwise) ==
    /\ handle' = handle \union {p}
    /\ Go(p, IF handle = {} THEN created ELSE otherwise)

OpenMutex(p) ==
    /\ pc[p] = "opening"
    /\ Opens(p, "ui", "bringing")
    /\ UNCHANGED <<win, old, dying, polls>>

\* BringExistingInstanceToFront found a window, and Main returns.
BringToFront(p) ==
    /\ pc[p] = "bringing"
    /\ win \ {p} # {}
    /\ Ends(p)

NothingToBring(p) ==
    /\ pc[p] = "bringing"
    /\ win \ {p} = {}
    /\ Go(p, "takingOver")
    /\ UNCHANGED <<handle, win, old, dying, polls>>

\* Processes without a window that have run for 30 seconds are killed, but
\* for those that refuse (of another user, or elevated), then p's own handle
\* is closed.
TakeOver(p, refusing) ==
    /\ pc[p] = "takingOver"
    /\ dying' = dying \union ((old \ win) \ (refusing \union {p}))
    /\ handle' = handle \ {p}
    /\ Go(p, "polling")
    /\ UNCHANGED <<win, old, polls>>

\* Mutant: the last round ends the loop like a success.
PollGivesIn(p) ==
    /\ pc[p] = "polling"
    /\ polls' = [polls EXCEPT ![p] = @ + 1]
    /\ Opens(p, "ui", IF polls[p] + 1 = MaxPolls THEN "ui" ELSE "polling")
    /\ UNCHANGED <<win, old, dying>>

\* Mutant: the rounds are not counted.
PollForever(p) ==
    /\ pc[p] = "polling"
    /\ Opens(p, "ui", "polling")
    /\ UNCHANGED <<win, old, dying, polls>>

\* One round of the loop.  The handle of a round that found the mutex in
\* existence is not closed: the next round opens another while it is open.
Poll(p) ==
    /\ pc[p] = "polling"
    /\ polls' = [polls EXCEPT ![p] = @ + 1]
    /\ Opens(p, "ui", IF polls[p] + 1 = MaxPolls THEN "deferring" ELSE "polling")
    /\ UNCHANGED <<win, old, dying>>

\* Another instance is brought to the front if it has a window; Main returns.
Defer(p) ==
    /\ pc[p] = "deferring"
    /\ Ends(p)

LaunchSteps(p) ==
    \/ OpenMutex(p) \/ BringToFront(p) \/ NothingToBring(p)
    \/ \E refusing \in SUBSET Procs : TakeOver(p, refusing)
    \/ Poll(p) \/ Defer(p)
-----------------------------------------------------------------------------
\* The window is closed and its process hangs.
LosesWindow(p) ==
    /\ pc[p] = "ui" /\ p \in win
    /\ win' = win \ {p}
    /\ UNCHANGED <<pc, handle, old, dying, polls>>

GrowsOld(p) ==
    /\ pc[p] \in {"ui", "cli"} /\ p \notin old
    /\ old' = old \union {p}
    /\ UNCHANGED <<pc, handle, win, dying, polls>>

Dies(p) == p \in dying /\ Ends(p)
-----------------------------------------------------------------------------
(* Properties. *)

\* One process at a time runs the window, however launches, take-overs and
\* deaths interleave: "Prevent multiple instances of the GUI".
AtMostOneUi == \A p, q \in Uis : p = q

\* A launch ends: it becomes the window or gives way.
LaunchEnds == \A p \in Procs : pc[p] \in Launching ~> pc[p] \in {"ui", "absent"}

\* "Someone else (a healthy instance) owns it now - defer to it": a launch
\* that gives up the wait has not been waiting for its own handle.
DefersToAnother == \A p \in Procs : pc[p] = "deferring" => handle \ {p} # {}
=============================================================================
