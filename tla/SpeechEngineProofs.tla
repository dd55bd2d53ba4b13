------------------------- MODULE SpeechEngineProofs -------------------------
(***************************************************************************)
(* Theorems of SpeechEngine, for every number of Speak calls.              *)
(*                                                                         *)
(* The first part needs nothing of the wrapper: whichever way tts_speak    *)
(* behaves, the mutex discipline of Speak, of its scope guard and of the   *)
(* callbacks keeps every site alive while it is used (SiteIsHeld), every   *)
(* reference is given back (ReferencesAreBalanced) and the engine keeps    *)
(* the SpeakContract (EngineKeepsTheContract).                             *)
(*                                                                         *)
(* The second part assumes a blocking tts_speak, and shows that this       *)
(* assumption is all it takes for events never to be mixed up.             *)
(*                                                                         *)
(* The third part is the safety half of SpeakReturns: no circle of threads *)
(* that wait, and no way back.                                             *)
(***************************************************************************)
EXTENDS SpeechEngine, TLAPS

-----------------------------------------------------------------------------
(* The inductive invariant of the locking and of the reference counting. *)

\* The SAPI thread owns the mutex exactly inside its two critical sections,
\* and a job owns it only while one of its callbacks runs.
LockInv ==
    /\ mutex = Sapi <=> pc \in {"storing", "clearing"}
    /\ \A u \in Utt : mutex = u => cb[u] # "none"

\* What a callback saw is still what m_pOutputSite holds, because the
\* callback has not given the mutex back.
SeenInv ==
    \A u \in Utt : seen[u] # None => mutex = u /\ seen[u] = site

\* m_pOutputSite is the site of the current call from its assignment on.
SiteInv ==
    /\ pc # "idle" => cur \in Utt
    /\ site = IF pc \in {"idle", "storing"} THEN None ELSE cur

\* Exactly one reference, on the current call's site, from AddRef to Release.
RefsInv ==
    refs = [s \in Utt |-> IF s = cur /\ pc \notin {"idle", "clearing"} THEN 1 ELSE 0]

HoldInv == TypeOK /\ LockInv /\ SeenInv /\ SiteInv /\ RefsInv

\* No utterance is mistaken for a null site, a free mutex or the SAPI thread,
\* and a call below the bound has a number.
LEMMA UttFacts ==
    /\ None \notin Utt /\ Torn \notin Utt /\ Gone \notin Utt
    /\ Free \notin Utt /\ Sapi \notin Utt /\ Free # Sapi
    /\ Torn # None /\ Gone # None /\ Torn # Gone
    /\ \A c \in 0 .. MaxUtt : c < MaxUtt => c + 1 \in Utt /\ c + 1 \in 0 .. MaxUtt
    /\ \A u \in Utt : u \in Nat /\ u \in 0 .. MaxUtt /\ u > 0
BY MaxUttAssumption DEF Utt, None, Torn, Gone, Free, Sapi

\* Before the voice is set, nobody holds the mutex or a site.
LEMMA HoldInvInit == Init => HoldInv
BY UttFacts, MaxUttAssumption
   DEF Init, HoldInv, TypeOK, LockInv, SeenInv, SiteInv, RefsInv, CallbackKinds

\* The inductive step, for the steps of the SAPI thread.
LEMMA HoldInvSapi ==
    ASSUME HoldInv,
           \/ SetObjectToken \/ SpeakRejected \/ SpeakAddRef
           \/ SpeakSteps \/ DestroyMap \/ DestroyWrapper
    PROVE  HoldInv'
<1> USE UttFacts, MaxUttAssumption
        DEF HoldInv, TypeOK, LockInv, SeenInv, SiteInv, RefsInv,
            engineVars, siteVars, wrapperVars
<1>1. CASE SetObjectToken  BY <1>1 DEF SetObjectToken
<1>2. CASE SpeakRejected  BY <1>2 DEF SpeakRejected
<1>3. CASE SpeakAddRef  BY <1>3 DEF SpeakAddRef
<1>4. CASE SpeakStoreSite  BY <1>4 DEF SpeakStoreSite
<1>5. CASE SpeakSentinelEmpty  BY <1>5 DEF SpeakSentinelEmpty
<1>6. CASE SpeakClearMap  BY <1>6 DEF SpeakClearMap
<1>7. CASE SpeakFillMap  BY <1>7 DEF SpeakFillMap
<1>8. CASE SpeakNothingToSay  BY <1>8 DEF SpeakNothingToSay
<1>9. CASE SpeakThrows  BY <1>9 DEF SpeakThrows
<1>10. CASE SpeakStartsJob  BY <1>10 DEF SpeakStartsJob
<1>11. CASE SpeakJobFails  BY <1>11 DEF SpeakJobFails
<1>12. CASE SpeakJobOver  BY <1>12 DEF SpeakJobOver
<1>13. CASE SpeakReleaseSite  BY <1>13 DEF SpeakReleaseSite
<1>14. CASE SpeakClearSite  BY <1>14 DEF SpeakClearSite
<1>15. CASE DestroyMap  BY <1>15 DEF DestroyMap
<1>16. CASE DestroyWrapper  BY <1>16 DEF DestroyWrapper
<1> QED
    BY <1>1, <1>2, <1>3, <1>4, <1>5, <1>6, <1>7, <1>8, <1>9, <1>10, <1>11,
       <1>12, <1>13, <1>14, <1>15, <1>16 DEF SpeakSteps

\* The inductive step, for the steps of a job and its callbacks.
LEMMA HoldInvWrapper ==
    ASSUME HoldInv, NEW u \in Utt,
           WrapperBegins(u) \/ WrapperEnds(u) \/ JobEnds(u)
    PROVE  HoldInv'
<1> USE UttFacts, MaxUttAssumption
        DEF HoldInv, TypeOK, LockInv, SeenInv, SiteInv, RefsInv,
            engineVars, siteVars, wrapperVars, CallbackKinds
<1>1. CASE OnAudio(u)  BY <1>1 DEF OnAudio, CallbackUnderLock
<1>2. CASE OnViseme(u)  BY <1>2 DEF OnViseme, CallbackUnderLock
<1>3. CASE OnBoundaryTranslate(u)  BY <1>3 DEF OnBoundaryTranslate
<1>4. CASE OnBoundaryLock(u)  BY <1>4 DEF OnBoundaryLock
<1>5. CASE Deliver(u)  BY <1>5 DEF Deliver, CallbackReturns
<1>6. CASE DeliveryRefused(u)  BY <1>6 DEF DeliveryRefused, CallbackReturns
<1>7. CASE DropCallback(u)  BY <1>7 DEF DropCallback, CallbackReturns
<1>8. CASE JobEnds(u)  BY <1>8 DEF JobEnds
<1> QED
    BY <1>1, <1>2, <1>3, <1>4, <1>5, <1>6, <1>7, <1>8 DEF WrapperBegins, WrapperEnds

\* The invariant is inductive.
LEMMA HoldInvNext == HoldInv /\ [Next]_vars => HoldInv'
<1> SUFFICES ASSUME HoldInv, [Next]_vars PROVE HoldInv'
    OBVIOUS
<1>1. CASE UNCHANGED vars
    BY <1>1 DEF vars, HoldInv, TypeOK, LockInv, SeenInv, SiteInv, RefsInv
<1>2. CASE Next
    BY <1>2, HoldInvSapi, HoldInvWrapper DEF Next
<1> QED
    BY <1>1, <1>2

\* The locking and the reference counting are right whatever the wrapper does.
THEOREM HoldInvAlways == Spec => []HoldInv
<1>1. Init => HoldInv  BY HoldInvInit
<1>2. HoldInv /\ [Next]_vars => HoldInv'  BY HoldInvNext
<1> QED
    BY <1>1, <1>2, PTL DEF Spec

\* Every variable of the engine keeps its type.
THEOREM TypesHold == Spec => []TypeOK
<1>1. HoldInv => TypeOK  BY DEF HoldInv
<1> QED
    BY <1>1, HoldInvAlways, PTL

\* No callback ever uses an output site that Speak has released.
THEOREM SiteIsHeld == Spec => []SiteHeldWhileUsed
<1>1. HoldInv => SiteHeldWhileUsed
  <2> SUFFICES ASSUME HoldInv, NEW u \in Utt, seen[u] # None
               PROVE  refs[seen[u]] > 0
      BY DEF SiteHeldWhileUsed
  <2>1. mutex = u /\ seen[u] = site /\ site # None
      BY DEF HoldInv, SeenInv
  <2>2. pc \notin {"idle", "storing", "clearing"}
      BY <2>1, UttFacts DEF HoldInv, LockInv, SiteInv
  <2>3. seen[u] = cur /\ cur \in Utt
      BY <2>1, <2>2 DEF HoldInv, SiteInv
  <2> QED
      BY <2>2, <2>3 DEF HoldInv, RefsInv
<1> QED
    BY <1>1, HoldInvAlways, PTL

\* Between two Speak calls the engine holds no site, however the last one left.
THEOREM ReferencesAreBalanced == Spec => []NothingHeldWhenIdle
<1>1. HoldInv => NothingHeldWhenIdle
    BY DEF HoldInv, SiteInv, RefsInv, NothingHeldWhenIdle
<1> QED
    BY <1>1, HoldInvAlways, PTL

-----------------------------------------------------------------------------
(* The engine implements the contract it has with SAPI. *)

\* Only an utterance's own Speak call holds its site, so what the contract
\* calls the phase of a site can be read off pc and cur.
LEMMA PhaseOf ==
    ASSUME HoldInv, NEW s \in Utt
    PROVE  /\ Phase[s] = "open" <=> s = cur /\ pc \notin {"idle", "clearing"}
           /\ Phase[s] = "new" <=> s > cur
           /\ Phase[s] \in {"new", "open", "closed"}
<1>1. Phase[s] = IF refs[s] > 0 THEN "open" ELSE IF s > cur THEN "new" ELSE "closed"
    BY DEF Phase
<1>2. refs[s] > 0 <=> s = cur /\ pc \notin {"idle", "clearing"}
    BY DEF HoldInv, RefsInv
<1>3. s \in Nat /\ cur \in Nat
    BY UttFacts, MaxUttAssumption DEF HoldInv, TypeOK
<1> QED
    BY <1>1, <1>2, <1>3

\* Every site is new to the contract at first, and has heard nothing.
LEMMA ContractInit == Init => Contract!Init
BY UttFacts DEF Init, Contract!Init, Phase

\* A step of the engine is a step of the contract, or changes nothing of it.
LEMMA ContractNext == HoldInv /\ HoldInv' /\ [Next]_vars => [Contract!Next]_<<Phase, heard>>
<1> SUFFICES ASSUME HoldInv, HoldInv', [Next]_vars
             PROVE  [Contract!Next]_<<Phase, heard>>
    OBVIOUS
<1>1. ASSUME UNCHANGED <<refs, cur, heard>>
      PROVE  UNCHANGED <<Phase, heard>>
    BY <1>1 DEF Phase
<1>2. CASE SpeakRejected
  <2> DEFINE s == cur + 1
  <2>1. s \in Utt /\ cur' = s /\ UNCHANGED <<refs, heard>>
      BY <1>2, UttFacts DEF SpeakRejected, HoldInv, TypeOK, siteVars, wrapperVars
  <2>2. \A t \in Utt : refs[t] = 0
      BY <1>2 DEF SpeakRejected, HoldInv, RefsInv
  <2>3. cur \in Nat /\ \A t \in Utt : t \in Nat
      BY UttFacts, MaxUttAssumption DEF HoldInv, TypeOK
  <2>4. Phase[s] = "new"
      BY <2>1, <2>2, <2>3 DEF Phase
  <2>5. Phase' = [Phase EXCEPT ![s] = "closed"]
    <3>1. \A t \in Utt : Phase'[t] = IF t = s THEN "closed" ELSE Phase[t]
        BY <2>1, <2>2, <2>3 DEF Phase
    <3> QED
        BY <3>1 DEF Phase
  <2>6. Contract!Refuse(s)
      BY <2>1, <2>4, <2>5 DEF Contract!Refuse
  <2> QED
      BY <2>1, <2>6 DEF Contract!Next
<1>3. CASE SpeakAddRef
  <2> DEFINE s == cur + 1
  <2>1. s \in Utt /\ cur' = s /\ heard' = heard /\ refs' = [refs EXCEPT ![s] = @ + 1]
      BY <1>3, UttFacts DEF SpeakAddRef, HoldInv, TypeOK, wrapperVars
  <2>2. \A t \in Utt : refs[t] = 0 /\ refs'[t] = IF t = s THEN 1 ELSE 0
      BY <1>3, <2>1 DEF SpeakAddRef, HoldInv, RefsInv
  <2>3. cur \in Nat /\ \A t \in Utt : t \in Nat
      BY UttFacts, MaxUttAssumption DEF HoldInv, TypeOK
  <2>4. Phase[s] = "new" /\ \A t \in Utt : Phase[t] # "open"
      BY <2>1, <2>2, <2>3 DEF Phase
  <2>5. Phase' = [Phase EXCEPT ![s] = "open"]
    <3>1. \A t \in Utt : Phase'[t] = IF t = s THEN "open" ELSE Phase[t]
        BY <2>1, <2>2, <2>3 DEF Phase
    <3> QED
        BY <3>1 DEF Phase
  <2>6. Contract!Open(s)
      BY <2>1, <2>4, <2>5 DEF Contract!Open
  <2> QED
      BY <2>1, <2>6 DEF Contract!Next
<1>4. CASE SpeakReleaseSite
  <2>1. cur \in Utt /\ UNCHANGED <<cur, heard>>
      BY <1>4 DEF SpeakReleaseSite, HoldInv, SiteInv, engineVars, wrapperVars
  <2>2. \A t \in Utt : (refs[t] = IF t = cur THEN 1 ELSE 0) /\ refs'[t] = 0
      BY <1>4 DEF SpeakReleaseSite, HoldInv, RefsInv
  <2>3. cur \in Nat /\ \A t \in Utt : t \in Nat
      BY UttFacts, MaxUttAssumption DEF HoldInv, TypeOK
  <2>4. Phase[cur] = "open"
      BY <2>1, <2>2 DEF Phase
  <2>5. Phase' = [Phase EXCEPT ![cur] = "closed"]
    <3>1. \A t \in Utt : Phase'[t] = IF t = cur THEN "closed" ELSE Phase[t]
        BY <2>1, <2>2, <2>3 DEF Phase
    <3> QED
        BY <3>1 DEF Phase
  <2>6. Contract!Close(cur)
      BY <2>1, <2>4, <2>5 DEF Contract!Close
  <2> QED
      BY <2>1, <2>6 DEF Contract!Next
<1>5. ASSUME NEW u \in Utt, Deliver(u)
      PROVE  Contract!Next
  <2> DEFINE s == seen[u]
  <2>1. s = site /\ s # None /\ mutex = u
      BY <1>5 DEF Deliver, HoldInv, SeenInv
  <2>2. pc \notin {"idle", "storing", "clearing"} /\ s = cur /\ s \in Utt
      BY <2>1, UttFacts DEF HoldInv, LockInv, SiteInv
  <2>3. Phase[s] = "open"
      BY <2>2, PhaseOf
  <2>4. heard' = [heard EXCEPT ![s] = @ \union {u}] /\ UNCHANGED Phase
      BY <1>5 DEF Deliver, CallbackReturns, engineVars, Phase
  <2> QED
      BY <2>2, <2>3, <2>4 DEF Contract!Next, Contract!Hear
<1>6. CASE SetObjectToken \/ DestroyMap \/ DestroyWrapper
    BY <1>1, <1>6 DEF SetObjectToken, DestroyMap, DestroyWrapper, siteVars, wrapperVars
<1>7. CASE SpeakSteps /\ ~ SpeakReleaseSite
  <2> USE DEF engineVars, siteVars, wrapperVars
  <2>1. UNCHANGED <<refs, cur, heard>>
      BY <1>7 DEF SpeakSteps, SpeakStoreSite, SpeakSentinelEmpty, SpeakClearMap,
         SpeakFillMap, SpeakNothingToSay, SpeakThrows, SpeakStartsJob,
         SpeakJobFails, SpeakJobOver, SpeakClearSite
  <2> QED
      BY <1>1, <2>1
<1>8. ASSUME NEW u \in Utt,
             WrapperBegins(u) \/ WrapperEnds(u) \/ JobEnds(u), ~ Deliver(u)
      PROVE  UNCHANGED <<Phase, heard>>
  <2>1. UNCHANGED <<refs, cur, heard>>
      BY <1>8 DEF WrapperBegins, WrapperEnds, JobEnds, OnAudio, OnViseme,
         CallbackUnderLock, OnBoundaryTranslate, OnBoundaryLock, DeliveryRefused,
         DropCallback, CallbackReturns, engineVars, siteVars
  <2> QED
      BY <1>1, <2>1
<1>9. CASE UNCHANGED vars
    BY <1>1, <1>9 DEF vars
<1> QED
    BY <1>2, <1>3, <1>4, <1>5, <1>6, <1>7, <1>8, <1>9 DEF Next

\* Whatever the wrapper does, a site hears only between the AddRef and the
\* Release of its own Speak call, and at most one site is open at a time.
THEOREM EngineKeepsTheContract == Spec => ContractSpec
<1>1. Init => Contract!Init
    BY ContractInit
<1>2. HoldInv /\ HoldInv' /\ [Next]_vars => [Contract!Next]_<<Phase, heard>>
    BY ContractNext
<1> QED
    BY <1>1, <1>2, HoldInvAlways, PTL DEF Spec, ContractSpec, Contract!Spec, Contract!vars

-----------------------------------------------------------------------------
(* What the contract says to a client of SAPI, in terms of the engine.     *)

\* At most one site is open.
OneSiteOpen == \A s, t \in Utt : Phase[s] = "open" /\ Phase[t] = "open" => s = t

\* A site that was closed is not opened again, and hears nothing any more.
ClosedStaysSilent ==
    \A s \in Utt : Phase[s] = "closed" => Phase'[s] = "closed" /\ heard'[s] = heard[s]

\* However Speak calls, early returns and late callbacks follow one another,
\* the engine never speaks to two sites.
THEOREM SitesTakeTurns == Spec => []OneSiteOpen
<1>1. HoldInv => OneSiteOpen
    BY PhaseOf DEF OneSiteOpen
<1> QED
    BY <1>1, HoldInvAlways, PTL

\* Once Speak has given its site back, not even a callback that comes late,
\* of a job that outlives the call, reaches it.
THEOREM ClosedSitesStaySilent == Spec => [][ClosedStaysSilent]_vars
<1>1. ASSUME HoldInv, HoldInv', [Next]_vars PROVE ClosedStaysSilent
    <2>1. [Contract!Next]_<<Phase, heard>>
        BY <1>1, ContractNext
    <2>2. Phase \in [Utt -> {"new", "open", "closed"}]
        BY <1>1, PhaseOf DEF Phase
    <2>3. heard \in [Utt -> SUBSET Utt]
        BY <1>1 DEF HoldInv, TypeOK
    <2>4. ASSUME NEW s \in Utt, Phase[s] = "closed"
          PROVE  Phase'[s] = "closed" /\ heard'[s] = heard[s]
        <3> HIDE DEF Phase
        <3> QED
            BY <2>1, <2>2, <2>3, <2>4
               DEF Contract!Next, Contract!Refuse, Contract!Open, Contract!Close, Contract!Hear
    <2> QED
        BY <2>4 DEF ClosedStaysSilent
<1>2. HoldInv /\ HoldInv' /\ [Next]_vars => [ClosedStaysSilent]_vars
    BY <1>1
<1> QED
    BY <1>2, HoldInvAlways, PTL DEF Spec

-----------------------------------------------------------------------------
(* What a blocking tts_speak buys. *)

\* Jobs run only while their own Speak call waits for them, callbacks run
\* only for running jobs, and what they read belongs to that call.
SyncInv ==
    /\ \A u \in Utt : job[u] = "running" => pc = "synth" /\ u = cur
    /\ \A u \in Utt : cb[u] # "none" => job[u] = "running"
    /\ \A u \in Utt : mutex = u => seen[u] = site
    /\ \A u \in Utt : text[u] \in {None, u} /\ (cb[u] = "boundary" => text[u] = u)
    /\ pc \in {"built", "synth"} => map = cur
    /\ \A s \in Utt : heard[s] \subseteq {s}
    /\ lost = {}

OwnInv == HoldInv /\ SyncInv

\* Before the voice is set, there is no job.
LEMMA OwnInvInit == Init => OwnInv
<1>1. Init => HoldInv  BY HoldInvInit
<1>2. Init => SyncInv  BY UttFacts DEF Init, SyncInv
<1> QED  BY <1>1, <1>2 DEF OwnInv

\* If tts_speak blocks: the inductive step, for the steps of the SAPI thread.
LEMMA SyncInvSapi ==
    ASSUME SyncSpeak = TRUE, HoldInv, SyncInv,
           \/ SetObjectToken \/ SpeakRejected \/ SpeakAddRef
           \/ SpeakSteps \/ DestroyMap \/ DestroyWrapper
    PROVE  SyncInv'
<1> USE UttFacts DEF HoldInv, TypeOK, LockInv, SiteInv, SyncInv,
                     engineVars, siteVars, wrapperVars
<1>1. CASE SetObjectToken  BY <1>1 DEF SetObjectToken
<1>2. CASE SpeakRejected  BY <1>2 DEF SpeakRejected
<1>3. CASE SpeakAddRef  BY <1>3 DEF SpeakAddRef
<1>4. CASE SpeakStoreSite  BY <1>4 DEF SpeakStoreSite
<1>5. CASE SpeakSentinelEmpty  BY <1>5 DEF SpeakSentinelEmpty
<1>6. CASE SpeakClearMap  BY <1>6 DEF SpeakClearMap
<1>7. CASE SpeakFillMap  BY <1>7 DEF SpeakFillMap
<1>8. CASE SpeakNothingToSay  BY <1>8 DEF SpeakNothingToSay
<1>9. CASE SpeakThrows  BY <1>9 DEF SpeakThrows
<1>10. CASE SpeakStartsJob  BY <1>10 DEF SpeakStartsJob
<1>11. CASE SpeakJobFails  BY <1>11 DEF SpeakJobFails
<1>12. CASE SpeakJobOver  BY <1>12 DEF SpeakJobOver
<1>13. CASE SpeakReleaseSite  BY <1>13 DEF SpeakReleaseSite
<1>14. CASE SpeakClearSite  BY <1>14 DEF SpeakClearSite
<1>15. CASE DestroyMap  BY <1>15 DEF DestroyMap
<1>16. CASE DestroyWrapper  BY <1>16 DEF DestroyWrapper
<1> QED
    BY <1>1, <1>2, <1>3, <1>4, <1>5, <1>6, <1>7, <1>8, <1>9, <1>10, <1>11,
       <1>12, <1>13, <1>14, <1>15, <1>16 DEF SpeakSteps

\* If tts_speak blocks: the inductive step, for a job and its callbacks.
LEMMA SyncInvWrapper ==
    ASSUME HoldInv, SyncInv, NEW u \in Utt,
           WrapperBegins(u) \/ WrapperEnds(u) \/ JobEnds(u)
    PROVE  SyncInv'
<1> USE UttFacts DEF HoldInv, TypeOK, LockInv, SiteInv, SyncInv,
                     engineVars, siteVars, wrapperVars, CallbackKinds
<1>1. CASE OnAudio(u)  BY <1>1 DEF OnAudio, CallbackUnderLock
<1>2. CASE OnViseme(u)  BY <1>2 DEF OnViseme, CallbackUnderLock
<1>3. CASE OnBoundaryTranslate(u)  BY <1>3 DEF OnBoundaryTranslate
<1>4. CASE OnBoundaryLock(u)  BY <1>4 DEF OnBoundaryLock
<1>5. CASE Deliver(u)
  <2>1. seen[u] = u
      BY <1>5 DEF Deliver
  <2> QED
      BY <1>5, <2>1 DEF Deliver, CallbackReturns
<1>6. CASE DeliveryRefused(u)  BY <1>6 DEF DeliveryRefused, CallbackReturns
<1>7. CASE DropCallback(u)  BY <1>7 DEF DropCallback, CallbackReturns
<1>8. CASE JobEnds(u)  BY <1>8 DEF JobEnds
<1> QED
    BY <1>1, <1>2, <1>3, <1>4, <1>5, <1>6, <1>7, <1>8 DEF WrapperBegins, WrapperEnds

\* If tts_speak blocks, both invariants together are inductive.
LEMMA OwnInvNext ==
    ASSUME SyncSpeak = TRUE
    PROVE  OwnInv /\ [Next]_vars => OwnInv'
<1> SUFFICES ASSUME OwnInv, [Next]_vars PROVE OwnInv'
    OBVIOUS
<1>1. HoldInv'
    BY HoldInvNext DEF OwnInv
<1>2. CASE Next
  <2>1. SyncInv'
      BY <1>2, SyncInvSapi, SyncInvWrapper DEF Next, OwnInv
  <2> QED
      BY <1>1, <2>1 DEF OwnInv
<1>3. CASE UNCHANGED vars
    BY <1>1, <1>3 DEF OwnInv, SyncInv, vars
<1> QED
    BY <1>2, <1>3

\* If tts_speak blocks until the synthesis is over, both hold for ever.
THEOREM OwnInvAlways ==
    ASSUME SyncSpeak = TRUE
    PROVE  Spec => []OwnInv
<1>1. Init => OwnInv  BY OwnInvInit
<1>2. OwnInv /\ [Next]_vars => OwnInv'  BY OwnInvNext
<1> QED
    BY <1>1, <1>2, PTL DEF Spec

\* If tts_speak blocks, audio, visemes and boundaries reach only the site of
\* the call that asked for them.
THEOREM EventsAreOwn ==
    ASSUME SyncSpeak = TRUE
    PROVE  Spec => []EventsReachTheirOwnSite
<1>1. OwnInv => EventsReachTheirOwnSite
    BY UttFacts DEF OwnInv, SyncInv, EventsReachTheirOwnSite
<1> QED
    BY <1>1, OwnInvAlways, PTL

\* If tts_speak blocks, boundaries are translated with the offsets of their
\* own text.
THEOREM BoundariesAreOwn ==
    ASSUME SyncSpeak = TRUE
    PROVE  Spec => []BoundariesUseTheirOwnText
<1>1. OwnInv => BoundariesUseTheirOwnText
    BY UttFacts DEF OwnInv, SyncInv, BoundariesUseTheirOwnText
<1> QED
    BY <1>1, OwnInvAlways, PTL

\* If tts_speak blocks, no callback reads a map that was destroyed.
THEOREM MapOutlives ==
    ASSUME SyncSpeak = TRUE
    PROVE  Spec => []MapOutlivesItsReaders
<1>1. OwnInv => MapOutlivesItsReaders
    BY UttFacts DEF OwnInv, SyncInv, MapOutlivesItsReaders
<1> QED
    BY <1>1, OwnInvAlways, PTL

\* If tts_speak blocks, nothing comes too late to find its site.
THEOREM NothingIsLost ==
    ASSUME SyncSpeak = TRUE
    PROVE  Spec => []NothingLost
<1>1. OwnInv => NothingLost
    BY UttFacts DEF OwnInv, SyncInv, NothingLost
<1> QED
    BY <1>1, OwnInvAlways, PTL

-----------------------------------------------------------------------------
(* What SpeakReturns rests on beside fairness, whichever way tts_speak     *)
(* behaves: no circle of threads waiting for each other, and no way back.  *)

Threads == Utt \union {Sapi}

\* Who waits for whom: the mutex, between calls, in the scope guard and in
\* the callbacks; the job of a tts_speak that blocks; and tts_destroy for the
\* callbacks that still run.
WaitsFor(a, b) ==
    \/ a = Sapi /\ pc = "idle" /\ life = "ready" /\ mutex = b
    \/ a = Sapi /\ pc = "idle" /\ life = "mapGone" /\ b \in Utt /\ cb[b] # "none"
    \/ a = Sapi /\ pc = "synth" /\ b = cur /\ job[cur] = "running"
    \/ a = Sapi /\ pc = "unwinding" /\ mutex = b
    \/ a \in Utt /\ job[a] = "running" /\ cb[a] \in {"none", "boundary"} /\ mutex = b /\ b # a

\* Of any threads, one waits for none of the others.
NoCircle == \A S \in SUBSET Threads : S # {} => \E a \in S : \A b \in S : ~WaitsFor(a, b)

\* A Speak call that cannot step now waits for one of the wrapper's threads.
SpeakWaitsForSomebody ==
    pc \in {"synth", "unwinding"} =>
        \/ pc = "synth" /\ job[cur] = "done"
        \/ pc = "unwinding" /\ mutex = Free
        \/ \E u \in Utt : WaitsFor(Sapi, u)

\* The stations of a Speak call and of a job, in the order of the code.
Stage ==
    [storing |-> 1, guarded |-> 2, building |-> 3, built |-> 4, synth |-> 5,
     unwinding |-> 6, clearing |-> 7, idle |-> 8]
JobStage == [none |-> 0, running |-> 1, done |-> 2]

SpeakGetsOn == pc' = pc \/ (Stage[pc] < Stage[pc'] /\ cur' = cur)
JobGetsOn(u) == job'[u] = job[u] \/ JobStage[job[u]] < JobStage[job'[u]]

\* A job is started once, by the call it belongs to, and a call that waits
\* for a job has started one.
JobInv ==
    /\ life \in {"mapGone", "dead"} => pc = "idle"
    /\ \A u \in Utt : cb[u] # "none" => job[u] = "running"
    /\ \A u \in Utt : u > cur => job[u] = "none"
    /\ pc \in {"storing", "guarded", "building", "built"} => job[cur] = "none"
    /\ pc = "synth" => job[cur] # "none"

\* The inductive step, and that no step leads back.
LEMMA JobInvNext ==
    ASSUME HoldInv, JobInv, [Next]_vars
    PROVE  /\ JobInv'
           /\ pc # "idle" => SpeakGetsOn
           /\ \A u \in Utt : JobGetsOn(u)
<1> USE UttFacts DEF HoldInv, TypeOK, LockInv, SiteInv, JobInv, SpeakGetsOn, JobGetsOn,
                     Stage, JobStage, engineVars, siteVars, wrapperVars
<1>1. CASE SetObjectToken  BY <1>1 DEF SetObjectToken
<1>2. CASE SpeakRejected  BY <1>2 DEF SpeakRejected
<1>3. CASE SpeakAddRef  BY <1>3 DEF SpeakAddRef
<1>4. CASE SpeakStoreSite  BY <1>4 DEF SpeakStoreSite
<1>5. CASE SpeakSentinelEmpty  BY <1>5 DEF SpeakSentinelEmpty
<1>6. CASE SpeakClearMap  BY <1>6 DEF SpeakClearMap
<1>7. CASE SpeakFillMap  BY <1>7 DEF SpeakFillMap
<1>8. CASE SpeakNothingToSay  BY <1>8 DEF SpeakNothingToSay
<1>9. CASE SpeakThrows  BY <1>9 DEF SpeakThrows
<1>10. CASE SpeakStartsJob  BY <1>10 DEF SpeakStartsJob
<1>11. CASE SpeakJobFails  BY <1>11 DEF SpeakJobFails
<1>12. CASE SpeakJobOver  BY <1>12 DEF SpeakJobOver
<1>13. CASE SpeakReleaseSite  BY <1>13 DEF SpeakReleaseSite
<1>14. CASE SpeakClearSite  BY <1>14 DEF SpeakClearSite
<1>15. CASE DestroyMap  BY <1>15 DEF DestroyMap
<1>16. CASE DestroyWrapper  BY <1>16 DEF DestroyWrapper
<1>17. ASSUME NEW u \in Utt, OnAudio(u) \/ OnViseme(u)
       PROVE  JobInv' /\ pc' = pc /\ job' = job
    BY <1>17 DEF OnAudio, OnViseme, CallbackUnderLock
<1>18. ASSUME NEW u \in Utt, OnBoundaryTranslate(u) \/ OnBoundaryLock(u)
       PROVE  JobInv' /\ pc' = pc /\ job' = job
    BY <1>18 DEF OnBoundaryTranslate, OnBoundaryLock
<1>19. ASSUME NEW u \in Utt, Deliver(u) \/ DeliveryRefused(u) \/ DropCallback(u)
       PROVE  JobInv' /\ pc' = pc /\ job' = job
    BY <1>19 DEF Deliver, DeliveryRefused, DropCallback, CallbackReturns
<1>20. ASSUME NEW u \in Utt, JobEnds(u)
       PROVE  JobInv' /\ pc' = pc /\ \A v \in Utt : JobGetsOn(v)
    BY <1>20 DEF JobEnds
<1>21. CASE UNCHANGED vars
    BY <1>21 DEF vars
<1> QED
    BY <1>1, <1>2, <1>3, <1>4, <1>5, <1>6, <1>7, <1>8, <1>9, <1>10, <1>11,
       <1>12, <1>13, <1>14, <1>15, <1>16, <1>17, <1>18, <1>19, <1>20, <1>21
       DEF Next, SpeakSteps, WrapperBegins, WrapperEnds

\* The invariant holds for ever, whichever way tts_speak behaves.
LEMMA JobInvAlways == Spec => []JobInv
<1>1. Init => JobInv
    BY UttFacts DEF Init, JobInv
<1>2. HoldInv /\ JobInv /\ [Next]_vars => JobInv'
    BY JobInvNext
<1> QED
    BY <1>1, <1>2, HoldInvAlways, PTL DEF Spec

\* The SAPI thread, the jobs and their callbacks never wait in a circle: a
\* Speak call that waits for its job does not hold the mutex the job's
\* callbacks need, and neither does the engine that is being destroyed.
THEOREM NobodyWaitsInACircle == Spec => []NoCircle
<1>1. HoldInv /\ JobInv => NoCircle
    <2> SUFFICES ASSUME HoldInv, JobInv, NEW S \in SUBSET Threads, S # {},
                        \A a \in S : \E b \in S : WaitsFor(a, b)
                 PROVE  FALSE
        BY DEF NoCircle
    <2> USE UttFacts DEF WaitsFor, HoldInv, TypeOK, LockInv, JobInv, Threads
    <2>1. mutex \notin S
        <3>1. CASE mutex = Sapi
            BY <3>1
        <3>2. CASE mutex \in Utt
            BY <3>2
        <3> QED
            BY <3>1, <3>2
    <2>2. \A u \in Utt : u \notin S
        BY <2>1
    <2>3. S = {Sapi}
        BY <2>2
    <2> QED
        BY <2>1, <2>2, <2>3 DEF SiteInv
<1> QED
    BY <1>1, HoldInvAlways, JobInvAlways, PTL

\* What keeps a Speak call from going on is always a thread of the wrapper,
\* which does not wait for it in turn: never a mutex that nobody holds.
THEOREM SpeakIsNotStuck == Spec => []SpeakWaitsForSomebody
<1>1. HoldInv /\ JobInv => SpeakWaitsForSomebody
    BY UttFacts DEF HoldInv, TypeOK, LockInv, SiteInv, JobInv, SpeakWaitsForSomebody, WaitsFor
<1> QED
    BY <1>1, HoldInvAlways, JobInvAlways, PTL

\* A Speak call only ever gets on, by at most seven steps of its own, and a
\* job, once it is over, is never begun again.
THEOREM NoWayBack ==
    Spec => [][(pc # "idle" => SpeakGetsOn) /\ \A u \in Utt : JobGetsOn(u)]_vars
<1>1. HoldInv /\ JobInv /\ [Next]_vars
        => [(pc # "idle" => SpeakGetsOn) /\ \A u \in Utt : JobGetsOn(u)]_vars
    BY JobInvNext
<1> QED
    BY <1>1, HoldInvAlways, JobInvAlways, PTL DEF Spec
=============================================================================
