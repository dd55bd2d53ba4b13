------------------------------ MODULE VoicesTab ------------------------------
(***************************************************************************)
(* The Voices tab of VoiceGarden.UI: the list of voices, how it is loaded, *)
(* and when it is loaded again (VoicesViewModel.cs, MainViewModel.cs,      *)
(* EnginesViewModel.cs).                                                   *)
(*                                                                         *)
(* Everything here runs on the UI thread, but every await gives the thread *)
(* away: a load awaits one fetch per engine and then the registry, and the *)
(* commands that install and remove voices await UAC prompts.  Other       *)
(* handlers run in between.  Two fields coordinate them: IsLoading, which  *)
(* only LoadVoices tests and all of them reset, and IsStale.               *)
(***************************************************************************)
EXTENDS Naturals, FiniteSets

CONSTANTS Engines,   \* engines of the Engines tab
          Loads,     \* bound: loads that can be under way at once
          Commands,  \* the other commands that set IsLoading
          Counting,  \* those that recount the list even if they fail
          NoLoad

ASSUME CountingAssumption == Counting \subseteq Commands
ASSUME NoLoadAssumption == NoLoad \notin Loads
ASSUME LoadsAssumption == IsFiniteSet(Loads)

VARIABLES
    selected,    \* SelectedEngines()
    stale,       \* IsStale
    loading,     \* IsLoading
    empty,       \* TotalCount = 0, as of the last UpdateCounts
    rows,        \* rows[e]: how often e's voices are in AllVoices
    snapshot,    \* snapshot[l]: the engines load l is for
    todo,        \* todo[l]: those it has not fetched yet
    active,      \* loads under way
    latest,      \* the load LoadVoicesCommand takes for the running one
    busy,        \* commands under way
    loadedFor,   \* history: the selection of the last load that finished
    dirty,       \* history: loads during which the selection has changed
    mixed,       \* history: has a command ended during this load?
    disturbed    \* history: was the last load that finished dirty or mixed?

loadVars == <<snapshot, todo, active, latest>>
history == <<loadedFor, dirty, mixed, disturbed>>
vars == <<selected, stale, loading, empty, rows, loadVars, busy, history>>

TypeOK ==
    /\ selected \subseteq Engines
    /\ stale \in BOOLEAN /\ loading \in BOOLEAN /\ empty \in BOOLEAN
    /\ rows \in [Engines -> 0 .. Cardinality(Loads)]
    /\ snapshot \in [Loads -> SUBSET Engines]
    /\ todo \in [Loads -> SUBSET Engines]
    /\ active \subseteq Loads
    /\ latest \in active \union {NoLoad}
    /\ busy \subseteq Commands
    /\ loadedFor \subseteq Engines
    /\ dirty \subseteq Loads
    /\ mixed \in BOOLEAN /\ disturbed \in BOOLEAN

Init ==
    /\ selected \in SUBSET Engines
    /\ stale = TRUE
    /\ loading = FALSE
    /\ empty = TRUE
    /\ rows = [e \in Engines |-> 0]
    /\ snapshot = [l \in Loads |-> {}]
    /\ todo = [l \in Loads |-> {}]
    /\ active = {}
    /\ latest = NoLoad
    /\ busy = {}
    /\ loadedFor = {}
    /\ dirty = {}
    /\ mixed = FALSE
    /\ disturbed = FALSE

NoRows == \A e \in Engines : rows[e] = 0

-----------------------------------------------------------------------------
(* LoadVoices. *)

\* The Load button is disabled while the command runs.  Showing the tab
\* executes the command whether it runs or not, if the list seems to need it.
LoadRequested == latest = NoLoad \/ empty \/ stale

\* Mutant: LoadVoices raises IsLoading before it looks at the selection.
LoadNoEnginesSpinning ==
    /\ LoadRequested
    /\ ~loading
    /\ selected = {}
    /\ loading' = TRUE
    /\ latest' = NoLoad
    /\ UNCHANGED <<selected, stale, empty, rows, snapshot, todo, active, busy, history>>

\* Nothing is selected: only a banner is shown, over the old list.
LoadNoEngines ==
    /\ LoadRequested
    /\ ~loading
    /\ selected = {}
    /\ latest' = NoLoad
    /\ UNCHANGED <<selected, stale, loading, empty, rows, snapshot, todo, active, busy, history>>

\* Up to the first await: the selection is copied and the list cleared.
StartLoad(l) ==
    /\ l \notin active
    /\ snapshot' = [snapshot EXCEPT ![l] = selected]
    /\ todo' = [todo EXCEPT ![l] = selected]
    /\ active' = active \union {l}
    /\ latest' = l
    /\ loading' = TRUE
    /\ mixed' = (mixed /\ active # {})
    /\ UNCHANGED <<selected, stale, empty, busy, loadedFor, dirty, disturbed>>

\* Mutant: the list is not cleared.
LoadVoicesAppends(l) ==
    /\ LoadRequested
    /\ ~loading
    /\ selected # {}
    /\ StartLoad(l)
    /\ UNCHANGED rows

\* Mutant: LoadVoices does not test IsLoading.
LoadVoicesUnguarded(l) ==
    /\ LoadRequested
    /\ selected # {}
    /\ StartLoad(l)
    /\ rows' = [e \in Engines |-> 0]

LoadVoices(l) ==
    /\ LoadRequested
    /\ ~loading
    /\ selected # {}
    /\ StartLoad(l)
    /\ rows' = [e \in Engines |-> 0]

\* LoadSherpaEntries or FetchCloudVoices is back with the voices of e, or has
\* failed or found no key, which is noted and skipped.
Fetched(l, e) ==
    /\ l \in active
    /\ e \in todo[l]
    /\ todo' = [todo EXCEPT ![l] = @ \ {e}]
    /\ \/ rows' = [rows EXCEPT ![e] = @ + 1]
       \/ UNCHANGED rows
    /\ UNCHANGED <<selected, stale, loading, empty, snapshot, active, latest, busy, history>>

EndLoad(l) ==
    /\ l \in active
    /\ todo[l] = {}
    /\ active' = active \ {l}
    /\ latest' = IF latest = l THEN NoLoad ELSE latest
    /\ snapshot' = [snapshot EXCEPT ![l] = {}]
    /\ dirty' = dirty \ {l}

\* RefreshInstalledStatus is back: the list is counted and taken as current.
LoadDone(l) ==
    /\ EndLoad(l)
    /\ empty' = NoRows
    /\ stale' = FALSE
    /\ loading' = FALSE
    /\ loadedFor' = snapshot[l]
    /\ disturbed' = (l \in dirty \/ mixed)
    /\ UNCHANGED <<selected, rows, todo, busy, mixed>>

\* Mutant: IsLoading is reset on the normal way out only.
LoadThrowsSpinning(l) ==
    /\ EndLoad(l)
    /\ UNCHANGED <<selected, stale, loading, empty, rows, todo, busy, loadedFor, mixed, disturbed>>

\* RefreshInstalledStatus throws: the finally block resets IsLoading.
LoadThrows(l) ==
    /\ EndLoad(l)
    /\ loading' = FALSE
    /\ UNCHANGED <<selected, stale, empty, rows, todo, busy, loadedFor, mixed, disturbed>>

-----------------------------------------------------------------------------
(* The other commands and the Engines tab. *)

\* Promote, PromoteSelected and UnpromoteSelected need a row, and raise
\* IsLoading without looking at it.
CommandBegins(c) ==
    /\ c \notin busy
    /\ ~NoRows
    /\ busy' = busy \union {c}
    /\ loading' = TRUE
    /\ UNCHANGED <<selected, stale, empty, rows, loadVars, history>>

\* They reset it at the end, and recount whatever list there is then.
CommandEnds(c) ==
    /\ c \in busy
    /\ busy' = busy \ {c}
    /\ loading' = FALSE
    /\ mixed' = (mixed \/ active # {})
    /\ \/ empty' = NoRows
       \/ c \notin Counting /\ UNCHANGED empty
    /\ UNCHANGED <<selected, stale, rows, loadVars, loadedFor, dirty, disturbed>>

\* SelectAll, SelectNone and RefreshInstalled recount the list, too.
Recount ==
    /\ empty' = NoRows
    /\ UNCHANGED <<selected, stale, loading, rows, loadVars, busy, history>>

\* Mutant: the Voices tab is not told of a changed selection.
SelectionChangesUnmarked(e) ==
    /\ selected' = IF e \in selected THEN selected \ {e} ELSE selected \union {e}
    /\ dirty' = active
    /\ UNCHANGED <<stale, loading, empty, rows, loadVars, busy, loadedFor, mixed, disturbed>>

\* An engine is ticked or unticked: OnEngineSelectionChanged marks the list.
SelectionChanges(e) ==
    /\ selected' = IF e \in selected THEN selected \ {e} ELSE selected \union {e}
    /\ stale' = TRUE
    /\ dirty' = active
    /\ UNCHANGED <<loading, empty, rows, loadVars, busy, loadedFor, mixed, disturbed>>

-----------------------------------------------------------------------------
LoadSteps(l) == (\E e \in Engines : Fetched(l, e)) \/ LoadDone(l) \/ LoadThrows(l)

Next ==
    \/ LoadNoEngines
    \/ \E l \in Loads : LoadVoices(l) \/ LoadSteps(l)
    \/ \E c \in Commands : CommandBegins(c) \/ CommandEnds(c)
    \/ Recount
    \/ \E e \in Engines : SelectionChanges(e)

Spec == Init /\ [][Next]_vars

\* Fetches come back, which is up to the wrapper's GetVoices, and UAC prompts
\* are answered.
Fairness ==
    /\ \A l \in Loads : WF_vars(LoadSteps(l))
    /\ \A c \in Commands : WF_vars(CommandEnds(c))

FairSpec == Spec /\ Fairness
-----------------------------------------------------------------------------
(* Properties. *)

\* The progress ring, which also keeps Load from working, never turns while
\* nothing is under way that would stop it: every way out of every command
\* resets IsLoading, however they overlap.
NoIdleSpinner == loading => active # {} \/ busy # {}

\* No voice is listed twice, unless the end of another command has let a
\* second load in beside the first.
ListIsOneLoad == mixed \/ \A e \in Engines : rows[e] <= 1

Reflects ==
    /\ loadedFor = selected
    /\ \A e \in Engines : rows[e] > 0 => e \in selected

\* "True when the loaded list no longer reflects the engine selection": a
\* list that is neither stale nor being loaded is that of the selection,
\* unless the selection changed, or another load came in, during the load.
ReflectsUnlessDisturbed ==
    ~stale /\ active = {} /\ ~disturbed => Reflects

\* Loading comes to an end, whatever else goes on.
LoadingEnds == loading ~> ~loading
=============================================================================
