-------------------------------- MODULE Setup --------------------------------
(***************************************************************************)
(* setup.exe (SetupLauncher/Program.cs), which closes the applications and *)
(* runs msiexec, among the processes of Onboarding and SingleInstance.     *)
(*                                                                         *)
(* msiexec is external: it replaces or removes the files if no application *)
(* runs, and otherwise fails or leaves a mixture, as the comment in Main   *)
(* says.  It may also fail for reasons of its own.  A killed process may   *)
(* outlive the 1.5 seconds that CloseAppProcesses sleeps.  There is one    *)
(* setup at a time, which is run once.                                     *)
(***************************************************************************)
EXTENDS Onboarding

VARIABLES
    setup,      \* where setup.exe is
    quiet,      \* --silent
    uninstall,  \* --uninstall
    targets,    \* processes CloseAppProcesses has still to close
    files,      \* the installed files: "none", "whole", "mixed"
    rc,         \* what setup.exe has returned
    unseen      \* history: setup went on, and an application ran that was
                \*   started after the last look or that nobody looked for

launcher == <<setup, quiet, uninstall, targets, files, rc, unseen>>
vars == <<instance, consent, launcher>>

\* Exit codes; "failed" stands for all others.
Codes == {"none", "ok", "reboot", "failed", "notInstalled", "cancelled"}

TypeOK ==
    /\ InstanceTypes /\ ConsentTypes
    /\ setup \in {"idle", "looking", "asking", "closing", "elevating", "installing",
                  "launching", "over"}
    /\ quiet \in BOOLEAN /\ uninstall \in BOOLEAN
    /\ targets \subseteq Procs
    /\ files \in {"none", "whole", "mixed"}
    /\ rc \in Codes
    /\ unseen \in BOOLEAN

Init ==
    /\ InstanceInit /\ ConsentInit
    /\ setup = "idle"
    /\ quiet = FALSE /\ uninstall = FALSE
    /\ targets = {}
    /\ files \in {"none", "whole"}
    /\ rc = "none"
    /\ unseen = FALSE

Options == <<quiet, uninstall>>
processes == <<instance, consent>>
-----------------------------------------------------------------------------
(* setup.exe. *)

SetupStarts ==
    /\ setup = "idle"
    /\ quiet' \in BOOLEAN /\ uninstall' \in BOOLEAN
    /\ IF uninstall' /\ files = "none"
         THEN setup' = "over" /\ rc' = "notInstalled"
         ELSE setup' = "looking" /\ UNCHANGED rc
    /\ UNCHANGED <<processes, targets, files, unseen>>

\* EnsureAppsClosed looks whether anything runs ...
Looks ==
    /\ setup = "looking"
    /\ setup' = IF Running = {} THEN "elevating" ELSE IF quiet THEN "closing" ELSE "asking"
    /\ targets' = IF quiet THEN Running ELSE {}
    /\ UNCHANGED <<processes, Options, files, rc, unseen>>

\* ... asks ...
Declines ==
    /\ setup = "asking"
    /\ setup' = "over"
    /\ rc' = "cancelled"
    /\ UNCHANGED <<processes, Options, targets, files, unseen>>

Agrees ==
    /\ setup = "asking"
    /\ setup' = "closing"
    /\ targets' = Running
    /\ UNCHANGED <<processes, Options, files, rc, unseen>>

\* ... and closes one after the other: WM_CLOSE, which ends an instance ...
CloseNicely(p) ==
    /\ setup = "closing" /\ p \in targets \intersect win
    /\ targets' = targets \ {p}
    /\ OtherSteps(Ends(p))
    /\ UNCHANGED <<setup, Options, files, rc, unseen>>

\* ... or Kill, which may fail.  The process may have gone by itself.
CloseByForce(p, works) ==
    /\ setup = "closing" /\ p \in targets
    /\ targets' = targets \ {p}
    /\ dying' = IF works /\ p \in Running THEN dying \union {p} ELSE dying
    /\ UNCHANGED <<pc, handle, win, old, polls, consent, setup, Options, files, rc, unseen>>

\* Mutant: an interactive setup does not look again either.
ClosedUnchecked ==
    /\ setup = "closing" /\ targets = {}
    /\ setup' = "elevating"
    /\ unseen' = (unseen \/ (quiet /\ Running # {}))
    /\ UNCHANGED <<processes, Options, targets, files, rc>>

\* After the sleep an interactive setup looks again; a silent one goes on.
Closed ==
    /\ setup = "closing" /\ targets = {}
    /\ IF quiet \/ Running = {}
         THEN setup' = "elevating" /\ UNCHANGED rc
         ELSE setup' = "over" /\ rc' = "cancelled"
    /\ unseen' = (unseen \/ (quiet /\ Running # {}))
    /\ UNCHANGED <<processes, Options, targets, files>>

\* RunMsiexec asks for elevation.
ElevationRefused ==
    /\ setup = "elevating"
    /\ setup' = "over"
    /\ rc' = "cancelled"
    /\ UNCHANGED <<processes, Options, targets, files, unseen>>

Elevated ==
    /\ setup = "elevating"
    /\ setup' = "installing"
    /\ UNCHANGED <<processes, Options, targets, files, rc, unseen>>

\* What msiexec leaves and returns.
MsiEnds(result, code) ==
    /\ setup = "installing"
    /\ files' = result
    /\ rc' = code
    /\ setup' = IF code = "ok" /\ ~uninstall /\ ~quiet THEN "launching" ELSE "over"
    /\ UNCHANGED <<processes, Options, targets, unseen>>

MsiSucceeds ==
    /\ Running = {}
    /\ MsiEnds(IF uninstall THEN "none" ELSE "whole", "ok")

MsiFails == MsiEnds(files, "failed")

MsiMeetsLockedFiles ==
    /\ Running # {}
    /\ \E code \in {"ok", "reboot"} : MsiEnds("mixed", code)

\* TryLaunchInstalledInstaller, unless as many processes run as the bound allows.
LaunchesWindow ==
    /\ setup = "launching"
    /\ setup' = "over"
    /\ \/ \E p \in Procs : OtherSteps(Launch(p))
       \/ Running = Procs /\ UNCHANGED processes
    /\ UNCHANGED <<Options, targets, files, rc, unseen>>

SetupSteps ==
    \/ Looks \/ Declines \/ Agrees
    \/ \E p \in Procs : CloseNicely(p) \/ \E works \in BOOLEAN : CloseByForce(p, works)
    \/ Closed \/ ElevationRefused \/ Elevated
    \/ MsiSucceeds \/ MsiFails \/ MsiMeetsLockedFiles
    \/ LaunchesWindow
-----------------------------------------------------------------------------
(* The processes. *)

\* The last look is behind once setup asks for elevation.
UserLaunches(p) ==
    /\ files # "none"
    /\ OtherSteps(Launch(p) \/ LaunchCli(p))
    /\ unseen' = (unseen \/ setup \in {"elevating", "installing"})
    /\ UNCHANGED <<setup, Options, targets, files, rc>>

\* The process goes on, is closed by the user, or comes to its end.
ProcessSteps(p) ==
    /\ \/ OtherSteps(LaunchSteps(p))
       \/ OtherSteps(LosesWindow(p))
       \/ OtherSteps(GrowsOld(p))
       \/ OtherSteps(Dies(p))
       \/ pc[p] \in {"ui", "cli"} /\ OtherSteps(Ends(p))
       \/ ShowsWindow(p)
       \/ \E yes \in BOOLEAN : Answers(p, yes)
       \/ TogglesAnalytics(p)
    /\ UNCHANGED launcher

Next ==
    \/ SetupStarts \/ SetupSteps
    \/ \E p \in Procs : UserLaunches(p) \/ ProcessSteps(p)

Spec == Init /\ [][Next]_vars

\* A launch goes on, a killed process dies, and a setup that was started goes
\* on: its prompts are answered and msiexec ends.
Fairness ==
    /\ \A p \in Procs : WF_vars(OtherSteps(LaunchSteps(p)) /\ UNCHANGED launcher)
    /\ \A p \in Procs : WF_vars(OtherSteps(Dies(p)) /\ UNCHANGED launcher)
    /\ WF_vars(SetupSteps)

FairSpec == Spec /\ Fairness
-----------------------------------------------------------------------------
(* Properties. *)

\* Once somebody has agreed to close the applications, a mixture of old and
\* new files comes about only if one was started after the last look: "a
\* running instance keeps them locked and the MSI fails or leaves a half-mixed
\* install".  A silent setup promises this only if all it closed had gone.
MixedOnlyIfRaced == files = "mixed" => unseen
=============================================================================
