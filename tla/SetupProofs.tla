---------------------------- MODULE SetupProofs -----------------------------
(***************************************************************************)
(* Theorems about Setup, for any number of processes: one window at a      *)
(* time, no mixture of files that nobody is to blame for, consent.         *)
(*                                                                         *)
(* What makes the window unique is the handle: a process runs the window   *)
(* only while it has one, and becomes the window only if nobody had any.   *)
(* For setup it is that from its last look to the end of msiexec either    *)
(* nothing runs, or somebody has seen to it that something does.  The last *)
(* parts say that launches only get on, and which look can succeed.        *)
(***************************************************************************)
EXTENDS Setup, TLAPS

\* How often a launch has looked, where it is: never more than it may.
PollsInv ==
    \A p \in Procs :
        /\ pc[p] \in {"absent", "opening", "bringing", "takingOver"} => polls[p] = 0
        /\ pc[p] = "polling" => polls[p] < MaxPolls

UiInv ==
    /\ \A p \in Procs : pc[p] = "ui" => p \in handle
    /\ AtMostOneUi

InstInv == InstanceTypes /\ PollsInv /\ UiInv

\* What happens to the processes in one step.
InstanceStep(p) ==
    \/ Launch(p) \/ LaunchCli(p) \/ LaunchSteps(p)
    \/ LosesWindow(p) \/ GrowsOld(p) \/ Ends(p) \/ ShowsWindow(p)

\* The end of a process, by itself or by force.
LEMMA EndsKeepsInst ==
    ASSUME NEW p \in Procs, InstInv, Ends(p)
    PROVE  InstInv'
BY MaxPollsAssumption
   DEF InstInv, InstanceTypes, PollsInv, UiInv, AtMostOneUi, Uis, Ends, Go, Launching

\* Looking for the mutex: whoever opens it first gets the window.
LEMMA OpensKeepsInst ==
    ASSUME NEW p \in Procs, InstInv, OpenMutex(p) \/ Poll(p)
    PROVE  InstInv'
<1> USE MaxPollsAssumption DEF InstInv, InstanceTypes, Opens, Go, Launching
<1>1. CASE OpenMutex(p)
  <2>1. InstanceTypes' BY <1>1 DEF OpenMutex
  <2>2. PollsInv' BY <1>1 DEF OpenMutex, PollsInv
  <2>3. UiInv' BY <1>1 DEF OpenMutex, UiInv, AtMostOneUi, Uis
  <2> QED BY <2>1, <2>2, <2>3
<1>2. CASE Poll(p)
  <2>0. polls[p] \in Nat /\ polls[p] < MaxPolls BY <1>2 DEF Poll, PollsInv
  <2>1. InstanceTypes' BY <1>2, <2>0 DEF Poll
  <2>2. PollsInv' BY <1>2, <2>0 DEF Poll, PollsInv
  <2>3. UiInv' BY <1>2 DEF Poll, UiInv, AtMostOneUi, Uis
  <2> QED BY <2>1, <2>2, <2>3
<1> QED BY <1>1, <1>2

\* Every step of a process.
LEMMA StepKeepsInst ==
    ASSUME NEW p \in Procs, InstInv, InstanceStep(p)
    PROVE  InstInv'
<1> USE MaxPollsAssumption DEF InstInv, InstanceTypes, Go, Launching, PollsInv, UiInv,
                               AtMostOneUi, Uis
<1>1. CASE Launch(p) \/ LaunchCli(p) BY <1>1 DEF Launch, LaunchCli
<1>2. CASE OpenMutex(p) \/ Poll(p) BY <1>2, OpensKeepsInst
<1>3. CASE NothingToBring(p) BY <1>3 DEF NothingToBring
<1>4. ASSUME NEW refusing \in SUBSET Procs, TakeOver(p, refusing) PROVE InstInv'
  BY <1>4 DEF TakeOver
<1>5. CASE BringToFront(p) \/ Defer(p) \/ Ends(p)
  BY <1>5, EndsKeepsInst DEF BringToFront, Defer
<1>6. CASE LosesWindow(p) \/ GrowsOld(p) \/ ShowsWindow(p)
  BY <1>6 DEF LosesWindow, GrowsOld, ShowsWindow
<1> QED BY <1>1, <1>2, <1>3, <1>4, <1>5, <1>6 DEF InstanceStep, LaunchSteps

-----------------------------------------------------------------------------
(* Setup, and consent. *)

\* Between the last look and the end of msiexec an application that runs was
\* not seen, and a mixture of files had one.
SeenInv ==
    /\ setup \in {"elevating", "installing"} /\ Running # {} => unseen
    /\ MixedOnlyIfRaced

SetupTypes ==
    /\ setup \in {"idle", "looking", "asking", "closing", "elevating", "installing",
                  "launching", "over"}
    /\ quiet \in BOOLEAN /\ uninstall \in BOOLEAN
    /\ targets \subseteq Procs
    /\ files \in {"none", "whole", "mixed"}
    /\ rc \in Codes
    /\ unseen \in BOOLEAN

SetupInv ==
    /\ InstInv /\ ConsentTypes /\ SetupTypes
    /\ TracksOnlyWithConsent
    /\ SeenInv

\* A step of setup itself that leaves the processes as they are.
SetupAlone ==
    \/ SetupStarts \/ Looks \/ Declines \/ Agrees \/ Closed
    \/ ElevationRefused \/ Elevated
    \/ MsiSucceeds \/ MsiFails \/ MsiMeetsLockedFiles

\* At first nothing runs, and setup has not been started.
LEMMA SetupInvInit == Init => SetupInv
<1> SUFFICES ASSUME Init PROVE SetupInv OBVIOUS
<1>1. InstInv
  BY MaxPollsAssumption DEF Init, InstanceInit, InstInv, InstanceTypes, PollsInv, UiInv,
                            AtMostOneUi, Uis, Launching
<1>2. ConsentTypes /\ TracksOnlyWithConsent
  BY Zenon DEF Init, InstanceInit, ConsentInit, ConsentTypes, TracksOnlyWithConsent
<1>3. SetupTypes /\ SeenInv
  BY DEF Init, SetupTypes, SeenInv, MixedOnlyIfRaced, Codes
<1> QED BY <1>1, <1>2, <1>3 DEF SetupInv

\* Setup's own steps: it goes on only if nothing runs, or ignores what does.
LEMMA SetupAloneKeeps ==
    ASSUME SetupInv, SetupAlone
    PROVE  SetupInv'
<1>1. UNCHANGED <<instance, consent>>
  BY DEF SetupAlone, SetupStarts, Looks, Declines, Agrees, Closed, ElevationRefused, Elevated,
         MsiSucceeds, MsiFails, MsiMeetsLockedFiles, MsiEnds, processes
<1>2. InstInv' /\ ConsentTypes' /\ TracksOnlyWithConsent' /\ Running' = Running
  BY <1>1 DEF SetupInv, InstInv, InstanceTypes, PollsInv, UiInv, AtMostOneUi, Uis, instance,
              consent, ConsentTypes, TracksOnlyWithConsent, Running
<1>3. Running \subseteq Procs BY DEF Running
<1>4. SetupTypes'
  BY <1>3 DEF SetupInv, SetupTypes, Codes, SetupAlone, SetupStarts, Looks, Declines, Agrees,
         Closed, ElevationRefused, Elevated, MsiSucceeds, MsiFails, MsiMeetsLockedFiles, MsiEnds,
         Options
<1>5. SeenInv'
  <2> USE <1>2 DEF SetupInv, SetupTypes, SeenInv, MixedOnlyIfRaced
  <2>1. CASE SetupStarts \/ Looks \/ Declines \/ Agrees \/ ElevationRefused \/ Elevated
    BY <2>1 DEF SetupStarts, Looks, Declines, Agrees, ElevationRefused, Elevated, Options
  <2>2. CASE Closed BY <2>2 DEF Closed, Options
  <2>3. CASE MsiSucceeds \/ MsiFails \/ MsiMeetsLockedFiles
    BY <2>3 DEF MsiSucceeds, MsiFails, MsiMeetsLockedFiles, MsiEnds, Options
  <2> QED BY <2>1, <2>2, <2>3 DEF SetupAlone
<1> QED BY <1>2, <1>4, <1>5 DEF SetupInv

\* A step of a process, in which the dialog goes with its window.
LEMMA ProcessKeeps ==
    ASSUME NEW p \in Procs, SetupInv, OtherSteps(InstanceStep(p)),
           UNCHANGED <<setup, quiet, uninstall, files, rc>>,
           targets' \subseteq targets, unseen' \in BOOLEAN, unseen => unseen',
           Running' \subseteq Running \/ setup \notin {"elevating", "installing"} \/ unseen'
    PROVE  SetupInv'
<1>1. InstInv' BY StepKeepsInst DEF OtherSteps, SetupInv
<1>2. ConsentTypes' /\ TracksOnlyWithConsent'
  BY DEF OtherSteps, SetupInv, ConsentTypes, TracksOnlyWithConsent
<1>3. SetupTypes' BY DEF SetupInv, SetupTypes
<1>4. SeenInv' BY DEF SetupInv, SeenInv, MixedOnlyIfRaced
<1> QED BY <1>1, <1>2, <1>3, <1>4 DEF SetupInv

\* Only launches make more processes run.
LEMMA OnlyLaunchesAdd ==
    ASSUME NEW p \in Procs, SetupInv,
           \/ LaunchSteps(p) \/ LosesWindow(p) \/ GrowsOld(p) \/ Ends(p)
    PROVE  Running' \subseteq Running
<1> USE DEF SetupInv, InstInv, InstanceTypes, Running, Launching, Go, Opens
<1>1. CASE Ends(p) \/ BringToFront(p) \/ Defer(p) BY <1>1 DEF Ends, BringToFront, Defer
<1>2. CASE OpenMutex(p) \/ Poll(p) \/ NothingToBring(p)
  BY <1>2 DEF OpenMutex, Poll, NothingToBring
<1>3. ASSUME NEW refusing \in SUBSET Procs, TakeOver(p, refusing) PROVE Running' \subseteq Running
  BY <1>3 DEF TakeOver
<1>4. CASE LosesWindow(p) \/ GrowsOld(p) BY <1>4 DEF LosesWindow, GrowsOld
<1> QED BY <1>1, <1>2, <1>3, <1>4 DEF LaunchSteps

\* Setup closes a process by force; it runs until it dies.
LEMMA CloseByForceKeeps ==
    ASSUME NEW p \in Procs, NEW works \in BOOLEAN, SetupInv, CloseByForce(p, works)
    PROVE  SetupInv'
<1>1. InstInv' /\ Running' = Running
  BY DEF CloseByForce, SetupInv, InstInv, InstanceTypes, PollsInv, UiInv, AtMostOneUi, Uis, Running
<1>2. ConsentTypes' /\ TracksOnlyWithConsent'
  BY DEF CloseByForce, SetupInv, ConsentTypes, TracksOnlyWithConsent, consent
<1>3. SetupTypes' BY DEF CloseByForce, SetupInv, SetupTypes, Options
<1>4. SeenInv' BY <1>1 DEF CloseByForce, SetupInv, SeenInv, MixedOnlyIfRaced, Options
<1> QED BY <1>1, <1>2, <1>3, <1>4 DEF SetupInv

\* A process goes on by itself.
LEMMA ProcessStepsKeep ==
    ASSUME NEW p \in Procs, SetupInv, ProcessSteps(p)
    PROVE  SetupInv'
<1>0. UNCHANGED launcher BY DEF ProcessSteps
<1> USE <1>0 DEF launcher
<1>b. unseen \in BOOLEAN BY DEF SetupInv, SetupTypes
<1>1. CASE OtherSteps(LaunchSteps(p) \/ LosesWindow(p) \/ GrowsOld(p) \/ Ends(p))
  <2>1. OtherSteps(InstanceStep(p)) BY <1>1 DEF OtherSteps, InstanceStep
  <2>2. Running' \subseteq Running BY <1>1, OnlyLaunchesAdd DEF OtherSteps
  <2> QED BY <1>b, <2>1, <2>2, ProcessKeeps
<1>2. CASE ShowsWindow(p)
  <2>1. InstInv' BY <1>2, StepKeepsInst DEF InstanceStep, SetupInv
  <2>2. ConsentTypes'
    BY <1>2 DEF ShowsWindow, SetupInv, InstInv, InstanceTypes, ConsentTypes
  <2>3. TracksOnlyWithConsent' /\ Running' = Running
    BY <1>2 DEF ShowsWindow, SetupInv, TracksOnlyWithConsent, Running
  <2>4. SetupTypes' /\ SeenInv' BY <2>3 DEF SetupInv, SetupTypes, SeenInv, MixedOnlyIfRaced
  <2> QED BY <2>1, <2>2, <2>3, <2>4 DEF SetupInv
<1>3. ASSUME \/ \E yes \in BOOLEAN : Answers(p, yes)
             \/ TogglesAnalytics(p)
      PROVE  SetupInv'
  <2>1. UNCHANGED instance BY <1>3 DEF Answers, TogglesAnalytics
  <2>2. InstInv' /\ Running' = Running
    BY <2>1 DEF instance, SetupInv, InstInv, InstanceTypes, PollsInv, UiInv, AtMostOneUi, Uis, Running
  <2>3. CASE TogglesAnalytics(p)
    <3>1. ConsentTypes'
      BY <2>1, <2>3 DEF instance, TogglesAnalytics, SetupInv, ConsentTypes
    <3>2. TracksOnlyWithConsent' BY <2>3 DEF TogglesAnalytics, TracksOnlyWithConsent
    <3> QED BY <2>2, <3>1, <3>2 DEF SetupInv, SetupTypes, SeenInv, MixedOnlyIfRaced
  <2>4. ASSUME NEW yes \in BOOLEAN, Answers(p, yes) PROVE SetupInv'
    <3>1. ConsentTypes'
      BY <2>1, <2>4 DEF instance, Answers, SetupInv, ConsentTypes
    <3>2. TracksOnlyWithConsent'
      BY <2>4 DEF Answers, SetupInv, ConsentTypes, TracksOnlyWithConsent
    <3> QED BY <2>2, <3>1, <3>2 DEF SetupInv, SetupTypes, SeenInv, MixedOnlyIfRaced
  <2> QED BY <1>3, <2>3, <2>4
<1>4. \/ OtherSteps(LaunchSteps(p)) \/ OtherSteps(LosesWindow(p)) \/ OtherSteps(GrowsOld(p))
      \/ OtherSteps(Dies(p)) \/ OtherSteps(Ends(p))
      => OtherSteps(LaunchSteps(p) \/ LosesWindow(p) \/ GrowsOld(p) \/ Ends(p))
  BY DEF OtherSteps, Dies
<1> QED BY <1>1, <1>2, <1>3, <1>4 DEF ProcessSteps

\* Every step, of setup, of the user and of the processes, keeps the invariant.
LEMMA SetupInvNext == SetupInv /\ [Next]_vars => SetupInv'
<1> SUFFICES ASSUME SetupInv, [Next]_vars PROVE SetupInv'
    OBVIOUS
<1>b. unseen \in BOOLEAN BY DEF SetupInv, SetupTypes
<1>1. CASE SetupAlone BY <1>1, SetupAloneKeeps
<1>2. ASSUME NEW p \in Procs, CloseNicely(p) PROVE SetupInv'
  <2>1. OtherSteps(Ends(p)) /\ setup = "closing" /\ UNCHANGED <<setup, Options, files, rc, unseen>>
        /\ targets' \subseteq targets
    BY <1>2 DEF CloseNicely
  <2>2. OtherSteps(InstanceStep(p)) BY <2>1 DEF OtherSteps, InstanceStep
  <2> QED BY <1>b, <2>1, <2>2, ProcessKeeps DEF Options
<1>3. ASSUME NEW p \in Procs, NEW works \in BOOLEAN, CloseByForce(p, works) PROVE SetupInv'
  BY <1>3, CloseByForceKeeps
<1>4. CASE LaunchesWindow
  <2>1. unseen' = unseen /\ setup' = "over" /\ SetupTypes'
    BY <1>4 DEF LaunchesWindow, SetupInv, SetupTypes, Options
  <2>2. SeenInv' BY <1>4, <2>1 DEF SetupInv, SeenInv, MixedOnlyIfRaced, LaunchesWindow
  <2>3. ASSUME NEW p \in Procs, OtherSteps(Launch(p)) PROVE SetupInv'
    <3>1. InstInv' BY <2>3, StepKeepsInst DEF OtherSteps, SetupInv, InstanceStep
    <3>2. ConsentTypes' /\ TracksOnlyWithConsent'
      BY <2>3 DEF OtherSteps, SetupInv, ConsentTypes, TracksOnlyWithConsent
    <3> QED BY <2>1, <2>2, <3>1, <3>2 DEF SetupInv
  <2>4. CASE UNCHANGED processes
    <3>1. InstInv' /\ ConsentTypes' /\ TracksOnlyWithConsent'
      BY <2>4 DEF processes, instance, consent, SetupInv, InstInv, InstanceTypes, PollsInv, UiInv,
                  AtMostOneUi, Uis, ConsentTypes, TracksOnlyWithConsent
    <3> QED BY <2>1, <2>2, <3>1 DEF SetupInv
  <2> QED BY <1>4, <2>3, <2>4 DEF LaunchesWindow
<1>5. ASSUME NEW p \in Procs, UserLaunches(p) PROVE SetupInv'
  <2>1. OtherSteps(InstanceStep(p)) BY <1>5 DEF UserLaunches, OtherSteps, InstanceStep
  <2>2. /\ UNCHANGED <<setup, quiet, uninstall, files, rc, targets>>
        /\ unseen' = (unseen \/ setup \in {"elevating", "installing"})
    BY <1>5 DEF UserLaunches, Options
  <2> QED BY <1>b, <2>1, <2>2, ProcessKeeps
<1>6. ASSUME NEW p \in Procs, ProcessSteps(p) PROVE SetupInv'
  BY <1>6, ProcessStepsKeep
<1>7. CASE UNCHANGED vars
  BY <1>7 DEF vars, launcher, instance, consent, SetupInv, InstInv, InstanceTypes, PollsInv, UiInv,
              AtMostOneUi, Uis, ConsentTypes, SetupTypes, TracksOnlyWithConsent, SeenInv,
              MixedOnlyIfRaced, Running
<1> QED BY <1>1, <1>2, <1>3, <1>4, <1>5, <1>6, <1>7 DEF Next, SetupSteps, SetupAlone
-----------------------------------------------------------------------------
(* The theorems. *)

\* The invariant holds for ever, whoever is launched, killed or asked.
THEOREM SetupInvAlways == Spec => []SetupInv
BY SetupInvInit, SetupInvNext, PTL DEF Spec

\* However many launches, take-overs, deaths and setups there are, every
\* variable has its type; no launch looks for the mutex more often than it may.
THEOREM TypesHold == Spec => []TypeOK
<1>1. SetupInv => TypeOK BY DEF SetupInv, InstInv, SetupTypes, TypeOK
<1> QED BY <1>1, SetupInvAlways, PTL

\* At most one process runs the window.
THEOREM OneWindow == Spec => []AtMostOneUi
<1>1. SetupInv => AtMostOneUi BY DEF SetupInv, InstInv, UiInv
<1> QED BY <1>1, SetupInvAlways, PTL

\* Analytics are on only with the user's consent.
THEOREM ConsentIsAsked == Spec => []TracksOnlyWithConsent
<1>1. SetupInv => TracksOnlyWithConsent BY DEF SetupInv
<1> QED BY <1>1, SetupInvAlways, PTL

\* A mixture of files means that an application ran which setup did not see.
THEOREM MixturesAreRaces == Spec => []MixedOnlyIfRaced
<1>1. SetupInv => MixedOnlyIfRaced BY DEF SetupInv, SeenInv
<1> QED BY <1>1, SetupInvAlways, PTL

-----------------------------------------------------------------------------
(* What LaunchEnds rests on beside fairness: a launch has only so far to   *)
(* go, whatever the other processes, the user and setup do meanwhile.      *)

\* The stations of Program.Main, in the order of the code.
LaunchStage ==
    [opening |-> 0, bringing |-> 1, takingOver |-> 2, polling |-> 3, deferring |-> 4,
     ui |-> 5, absent |-> 6]

LaunchGetsOn(p) ==
    \/ pc'[p] = pc[p] /\ polls'[p] = polls[p]
    \/ pc[p] = "polling" /\ pc'[p] = "polling" /\ polls'[p] = polls[p] + 1 /\ polls'[p] < MaxPolls
    \/ LaunchStage[pc[p]] < LaunchStage[pc'[p]]

\* A launch never goes back, and polls no more often than it may.
LaunchesGetOn == \A p \in Procs : pc[p] \in Launching => LaunchGetsOn(p)

\* Every step of a process.
LEMMA StepGetsOn ==
    ASSUME NEW q \in Procs, InstInv, InstanceStep(q)
    PROVE  LaunchesGetOn
<1> USE MaxPollsAssumption DEF InstInv, InstanceTypes, PollsInv, Go, Launching, LaunchesGetOn,
                               LaunchGetsOn, LaunchStage
<1>1. CASE Launch(q) \/ LaunchCli(q) BY <1>1 DEF Launch, LaunchCli
<1>2. CASE OpenMutex(q) BY <1>2 DEF OpenMutex, Opens
<1>3. CASE Poll(q)
  <2>1. polls[q] \in Nat /\ polls[q] < MaxPolls BY <1>3 DEF Poll
  <2>2. polls'[q] = polls[q] + 1 BY <1>3 DEF Poll
  <2>3. pc'[q] \in {"ui", "deferring"} \/ (pc'[q] = "polling" /\ polls'[q] < MaxPolls)
    BY <1>3, <2>1, <2>2 DEF Poll, Opens
  <2>4. \A p \in Procs \ {q} : pc'[p] = pc[p] /\ polls'[p] = polls[p]
    BY <1>3 DEF Poll, Opens
  <2> QED BY <1>3, <2>2, <2>3, <2>4 DEF Poll
<1>4. CASE NothingToBring(q) BY <1>4 DEF NothingToBring
<1>5. ASSUME NEW refusing \in SUBSET Procs, TakeOver(q, refusing) PROVE LaunchesGetOn
  BY <1>5 DEF TakeOver
<1>6. CASE BringToFront(q) \/ Defer(q) \/ Ends(q)
  BY <1>6 DEF BringToFront, Defer, Ends
<1>7. CASE LosesWindow(q) \/ GrowsOld(q) \/ ShowsWindow(q)
  BY <1>7 DEF LosesWindow, GrowsOld, ShowsWindow
<1> QED BY <1>1, <1>2, <1>3, <1>4, <1>5, <1>6, <1>7 DEF InstanceStep, LaunchSteps

\* A step of Next is one of a process, or leaves the launches as they are.
LEMMA StepsOfNext ==
    ASSUME [Next]_vars
    PROVE  (\E q \in Procs : InstanceStep(q)) \/ UNCHANGED <<pc, polls, handle>>
<1> USE DEF instance, processes, OtherSteps, InstanceStep
<1>1. CASE SetupAlone
  BY <1>1 DEF SetupAlone, SetupStarts, Looks, Declines, Agrees, Closed, ElevationRefused,
              Elevated, MsiSucceeds, MsiFails, MsiMeetsLockedFiles, MsiEnds
<1>2. CASE LaunchesWindow BY <1>2 DEF LaunchesWindow
<1>3. ASSUME NEW p \in Procs,
             CloseNicely(p) \/ (\E works \in BOOLEAN : CloseByForce(p, works)) \/ UserLaunches(p)
      PROVE  (\E q \in Procs : InstanceStep(q)) \/ UNCHANGED <<pc, polls, handle>>
  BY <1>3 DEF CloseNicely, CloseByForce, UserLaunches
<1>4. ASSUME NEW p \in Procs, ProcessSteps(p)
      PROVE  (\E q \in Procs : InstanceStep(q)) \/ UNCHANGED <<pc, polls, handle>>
  BY <1>4 DEF ProcessSteps, Dies, Answers, TogglesAnalytics
<1>5. CASE UNCHANGED vars BY <1>5 DEF vars
<1> QED BY <1>1, <1>2, <1>3, <1>4, <1>5 DEF Next, SetupSteps, SetupAlone

\* Whatever happens, a launch that goes on gets nearer to its end.
THEOREM LaunchesOnlyGetOn == Spec => [][LaunchesGetOn]_vars
<1>1. ASSUME SetupInv, [Next]_vars PROVE LaunchesGetOn
  <2>1. ASSUME NEW q \in Procs, InstanceStep(q) PROVE LaunchesGetOn
    BY <1>1, <2>1, StepGetsOn DEF SetupInv
  <2>2. ASSUME UNCHANGED <<pc, polls, handle>> PROVE LaunchesGetOn
    BY <2>2 DEF LaunchesGetOn, LaunchGetsOn
  <2> QED BY <1>1, <2>1, <2>2, StepsOfNext
<1>2. SetupInv /\ [Next]_vars => [LaunchesGetOn]_vars BY <1>1
<1> QED BY <1>2, SetupInvAlways, PTL DEF Spec

-----------------------------------------------------------------------------
(* The loop of TryTakeOverFromWindowlessInstance. *)

\* From its first look on, a launch that polls has a handle itself: each
\* round opens the next handle before the last one could be closed.
HandleInv == \A p \in Procs : pc[p] = "polling" /\ polls[p] > 0 => p \in handle

\* A launch takes over in its first round, or not at all.
OnlyTheFirstPollWins ==
    \A p \in Procs : pc[p] = "polling" /\ pc'[p] = "ui" => polls[p] = 0

\* Every step of a process.
LEMMA StepKeepsHandle ==
    ASSUME NEW q \in Procs, InstInv, HandleInv, InstanceStep(q)
    PROVE  HandleInv' /\ OnlyTheFirstPollWins
<1> USE MaxPollsAssumption DEF InstInv, InstanceTypes, PollsInv, HandleInv, OnlyTheFirstPollWins,
                               Go, Launching
<1>1. CASE Launch(q) \/ LaunchCli(q) BY <1>1 DEF Launch, LaunchCli
<1>2. CASE OpenMutex(q) BY <1>2 DEF OpenMutex, Opens
<1>3. CASE Poll(q)
  <2>1. q \in handle' /\ handle \subseteq handle' BY <1>3 DEF Poll, Opens
  <2>2. \A p \in Procs \ {q} : pc'[p] = pc[p] /\ polls'[p] = polls[p] BY <1>3 DEF Poll, Opens
  <2>3. pc[q] = "polling" /\ pc'[q] = "ui" => handle = {}
    BY <1>3 DEF Poll, Opens
  <2>4. polls[q] \in Nat OBVIOUS
  <2>5. HandleInv' BY <2>1, <2>2
  <2>6. OnlyTheFirstPollWins BY <2>2, <2>3, <2>4
  <2> QED BY <2>5, <2>6
<1>4. CASE NothingToBring(q) BY <1>4 DEF NothingToBring
<1>5. ASSUME NEW refusing \in SUBSET Procs, TakeOver(q, refusing)
      PROVE  HandleInv' /\ OnlyTheFirstPollWins
  BY <1>5 DEF TakeOver
<1>6. CASE BringToFront(q) \/ Defer(q) \/ Ends(q)
  BY <1>6 DEF BringToFront, Defer, Ends
<1>7. CASE LosesWindow(q) \/ GrowsOld(q) \/ ShowsWindow(q)
  BY <1>7 DEF LosesWindow, GrowsOld, ShowsWindow
<1> QED BY <1>1, <1>2, <1>3, <1>4, <1>5, <1>6, <1>7 DEF InstanceStep, LaunchSteps

\* Why run takeover finds a launch that defers to nobody: after the first of
\* its looks a launch waits for its own handle to go, so that none of the
\* others, however many there are, lets it take over.
THEOREM LaterPollsAreVain == Spec => [][OnlyTheFirstPollWins]_vars
<1>1. Init => HandleInv
  BY DEF Init, InstanceInit, HandleInv
<1>2. ASSUME SetupInv, HandleInv, [Next]_vars PROVE HandleInv' /\ OnlyTheFirstPollWins
  <2>1. ASSUME NEW q \in Procs, InstanceStep(q) PROVE HandleInv' /\ OnlyTheFirstPollWins
    BY <1>2, <2>1, StepKeepsHandle DEF SetupInv
  <2>2. ASSUME UNCHANGED <<pc, polls, handle>> PROVE HandleInv' /\ OnlyTheFirstPollWins
    BY <1>2, <2>2 DEF HandleInv, OnlyTheFirstPollWins
  <2> QED BY <1>2, <2>1, <2>2, StepsOfNext
<1>3. SetupInv /\ HandleInv /\ [Next]_vars => HandleInv' BY <1>2
<1>4. SetupInv /\ HandleInv /\ [Next]_vars => [OnlyTheFirstPollWins]_vars BY <1>2
<1> QED BY <1>1, <1>3, <1>4, SetupInvAlways, PTL DEF Spec
=============================================================================
