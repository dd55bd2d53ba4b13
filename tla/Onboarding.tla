----------------------------- MODULE Onboarding -----------------------------
(***************************************************************************)
(* The window of a VoiceGarden.UI process, the dialog it opens the first   *)
(* time and the analytics flag that dialog and the Advanced tab set:       *)
(* OnFrameworkInitializationCompleted (App.axaml.cs), the answers of       *)
(* OnboardingWindowViewModel.cs and AnalyticsEnabled (MainViewModel.cs).   *)
(*                                                                         *)
(* The registry marks the dialog as shown before it is answered.  Its      *)
(* Closed handler runs when the user answers or closes it, and does not    *)
(* when the process is killed.                                             *)
(***************************************************************************)
EXTENDS SingleInstance

VARIABLES
    marked,     \* registry: the dialog of this version has been shown
    enabled,    \* registry: AnalyticsEnabled
    box,        \* the check box of the Advanced tab
    dialog,     \* processes with the dialog open
    agreed,     \* history: the answer the user gave last was yes
    declined    \* history: he has declined in a dialog what was enabled

consent == <<marked, enabled, box, dialog, agreed, declined>>

ConsentTypes ==
    /\ marked \in BOOLEAN /\ enabled \in BOOLEAN /\ box \in BOOLEAN
    /\ dialog \subseteq win
    /\ agreed \in BOOLEAN /\ declined \in BOOLEAN

\* A new user, or one who enabled analytics under an earlier version.
ConsentInit ==
    /\ marked = FALSE
    /\ enabled \in BOOLEAN
    /\ agreed = enabled
    /\ box = FALSE
    /\ dialog = {}
    /\ declined = FALSE

\* The view model reads the flag, the window is shown, then the dialog.
ShowsWindow(p) ==
    /\ pc[p] = "ui" /\ p \notin win
    /\ win' = win \union {p}
    /\ box' = enabled
    /\ marked' = TRUE
    /\ dialog' = IF marked THEN dialog ELSE {p}
    /\ UNCHANGED <<pc, handle, old, dying, polls, enabled, agreed, declined>>

\* Mutant: the Closed handler takes the end of the dialog for consent.
AnswersIgnored(p, yes) ==
    /\ p \in dialog
    /\ dialog' = {}
    /\ enabled' = TRUE
    /\ agreed' = yes
    /\ declined' = (declined \/ (enabled /\ ~yes))
    /\ UNCHANGED <<instance, marked, box>>

\* Accept, Decline, or the dialog is closed, which is Decline.
Answers(p, yes) ==
    /\ p \in dialog
    /\ dialog' = {}
    /\ enabled' = (enabled \/ yes)
    /\ agreed' = yes
    /\ declined' = (declined \/ (enabled /\ ~yes))
    /\ UNCHANGED <<instance, marked, box>>

\* The check box, which cannot be reached while the dialog is open.
TogglesAnalytics(p) ==
    /\ p \in win \ dialog
    /\ box' = ~box
    /\ enabled' = ~box
    /\ agreed' = ~box
    /\ declined' = FALSE
    /\ UNCHANGED <<instance, marked, dialog>>

\* Mutant: the dialog outlives its window.
OtherStepsKeepDialog(step) == step /\ UNCHANGED consent

\* Whatever else happens to the processes; a window takes its dialog along.
OtherSteps(step) == step /\ dialog' = dialog \intersect win'
                         /\ UNCHANGED <<marked, enabled, box, agreed, declined>>

\* Analytics are on only if the user's last word was yes - unless he declined
\* in a dialog what was on already, which the Closed handler passes over.
TracksOnlyWithConsent == enabled /\ ~declined => agreed
=============================================================================
