---------------------------- MODULE SpeechEngine ----------------------------
(***************************************************************************)
(* CTTSEngine (TTSEngine.cpp): one SAPI voice object from SetObjectToken   *)
(* to its destruction, the Speak calls of the SAPI thread, and the audio,  *)
(* boundary and viseme callbacks of rust-tts-wrapper (tts_wrapper.dll).    *)
(*                                                                         *)
(* Two kinds of threads meet here.  The SAPI thread runs Speak, one call   *)
(* at a time.  Each tts_speak call starts a synthesis job in the wrapper,  *)
(* which calls back on a thread of its own.  They share m_pOutputSite,     *)
(* guarded by m_outputSiteMutex, and m_plainToSapiMap, guarded by nothing. *)
(*                                                                         *)
(* The wrapper is not part of the repository.  SyncSpeak says which of its *)
(* two documented behaviours tts_speak has: TRUE when it returns only once *)
(* the job is over, FALSE when it returns at once and the job runs on.     *)
(*                                                                         *)
(* An utterance is the number of its Speak call, and stands for the call's *)
(* output site, for its text and for its synthesis job.                    *)
(***************************************************************************)
EXTENDS Integers

CONSTANTS MaxUtt,      \* bound: Speak calls made on the engine
          SyncSpeak    \* does tts_speak block until the synthesis is over?

ASSUME MaxUttAssumption == MaxUtt \in Nat
ASSUME SyncSpeakAssumption == SyncSpeak \in BOOLEAN

Utt == 1 .. MaxUtt

\* Values beside utterances: a null site or an empty map; a map that is being
\* rebuilt; a map whose vector has been destroyed; the mutex when it is free;
\* the SAPI thread as the owner of the mutex.
None == 0
Torn == -1
Gone == -2
Free == 0
Sapi == -1

CallbackKinds == {"audio", "viseme", "boundary"}

VARIABLES
    life,      \* the engine object: "new", "ready", "mapGone", "dead"
    pc,        \* where the SAPI thread is inside Speak
    cur,       \* the utterance of the current or last Speak call
    mutex,     \* owner of m_outputSiteMutex
    site,      \* m_pOutputSite
    refs,      \* refs[s]: references the engine holds on site s
    map,       \* the utterance m_plainToSapiMap was built for
    job,       \* job[u]: "none", "running", "done"
    cb,        \* cb[u]: the callback job u is executing, or "none"
    seen,      \* seen[u]: the site a callback of u found under the mutex
    text,      \* text[u]: the map a boundary callback of u translated with
    heard,     \* history: heard[s], the jobs whose callbacks reached site s
    lost       \* history: the jobs that had a callback find no site

vars == <<life, pc, cur, mutex, site, refs, map, job, cb, seen, text, heard, lost>>

engineVars == <<life, cur, map>>
siteVars == <<mutex, site, refs>>
wrapperVars == <<job, cb, seen, text, heard, lost>>

TypeOK ==
    /\ life \in {"new", "ready", "mapGone", "dead"}
    /\ pc \in {"idle", "storing", "guarded", "building", "built", "synth",
               "unwinding", "clearing"}
    /\ cur \in 0 .. MaxUtt
    /\ mutex \in {Free, Sapi} \union Utt
    /\ site \in {None} \union Utt
    /\ refs \in [Utt -> Nat]
    /\ map \in {None, Torn, Gone} \union Utt
    /\ job \in [Utt -> {"none", "running", "done"}]
    /\ cb \in [Utt -> {"none"} \union CallbackKinds]
    /\ seen \in [Utt -> {None} \union Utt]
    /\ text \in [Utt -> {None, Torn, Gone} \union Utt]
    /\ heard \in [Utt -> SUBSET Utt]
    /\ lost \subseteq Utt

Init ==
    /\ life = "new"
    /\ pc = "idle"
    /\ cur = 0
    /\ mutex = Free
    /\ site = None
    /\ refs = [s \in Utt |-> 0]
    /\ map = None
    /\ job = [u \in Utt |-> "none"]
    /\ cb = [u \in Utt |-> "none"]
    /\ seen = [u \in Utt |-> None]
    /\ text = [u \in Utt |-> None]
    /\ heard = [s \in Utt |-> {}]
    /\ lost = {}

-----------------------------------------------------------------------------
(* The SAPI thread. *)

\* SetObjectToken creates the wrapper engine and registers the callbacks.
\* When it fails m_rustTts stays null, which is where the object already is.
SetObjectToken ==
    /\ life = "new"
    /\ life' = "ready"
    /\ UNCHANGED <<pc, cur, map, siteVars, wrapperVars>>

\* Speak returns E_INVALIDARG for a null site or text list and
\* SPERR_UNINITIALIZED without an engine, before it touches any state.
SpeakRejected ==
    /\ life \in {"new", "ready"}
    /\ pc = "idle"
    /\ cur < MaxUtt
    /\ cur' = cur + 1
    /\ UNCHANGED <<life, pc, map, siteVars, wrapperVars>>

\* The site is stored under the mutex: AddRef, then the assignment.
SpeakAddRef ==
    /\ life = "ready"
    /\ pc = "idle"
    /\ cur < MaxUtt
    /\ mutex = Free
    /\ mutex' = Sapi
    /\ cur' = cur + 1
    /\ refs' = [refs EXCEPT ![cur + 1] = @ + 1]
    /\ pc' = "storing"
    /\ UNCHANGED <<life, site, map, wrapperVars>>

SpeakStoreSite ==
    /\ pc = "storing"
    /\ site' = cur
    /\ mutex' = Free
    /\ pc' = "guarded"
    /\ UNCHANGED <<engineVars, refs, wrapperVars>>

\* Mutant: the early return of an empty sentinel skips the scope guard.
SpeakSentinelEmptyLeaks ==
    /\ pc = "guarded"
    /\ pc' = "idle"
    /\ UNCHANGED <<engineVars, siteVars, wrapperVars>>

\* A sentinel without payload leaves Speak before the map is touched.
SpeakSentinelEmpty ==
    /\ pc = "guarded"
    /\ pc' = "unwinding"
    /\ UNCHANGED <<engineVars, siteVars, wrapperVars>>

\* ExtractSherpaPlainTextWithMap and the sentinel branch both clear the map
\* and refill it element by element, without the mutex.
SpeakClearMap ==
    /\ pc = "guarded"
    /\ map' = Torn
    /\ pc' = "building"
    /\ UNCHANGED <<life, cur, siteVars, wrapperVars>>

\* Mutant: the offset map is cleared for the new text and never refilled.
SpeakFillMapForgotten ==
    /\ pc = "building"
    /\ pc' = "built"
    /\ UNCHANGED <<engineVars, siteVars, wrapperVars>>

SpeakFillMap ==
    /\ pc = "building"
    /\ map' = cur
    /\ pc' = "built"
    /\ UNCHANGED <<life, cur, siteVars, wrapperVars>>

\* Nothing to say: the map stays empty and nothing is synthesized.
SpeakNothingToSay ==
    /\ pc = "building"
    /\ map' = None
    /\ pc' = "unwinding"
    /\ UNCHANGED <<life, cur, siteVars, wrapperVars>>

\* An allocation throws while the text is taken over; the map keeps whatever
\* it had, and the scope guard still runs.
SpeakThrows ==
    /\ pc \in {"guarded", "building"}
    /\ pc' = "unwinding"
    /\ UNCHANGED <<engineVars, siteVars, wrapperVars>>

\* tts_speak or tts_speak_ssml accepts the text.
SpeakStartsJob ==
    /\ pc = "built"
    /\ job' = [job EXCEPT ![cur] = "running"]
    /\ pc' = IF SyncSpeak THEN "synth" ELSE "unwinding"
    /\ UNCHANGED <<engineVars, siteVars, cb, seen, text, heard, lost>>

\* The conversion of the text throws, or the wrapper reports a failure, which
\* Speak logs before it returns S_OK all the same.
SpeakJobFails ==
    /\ pc = "built"
    /\ pc' = "unwinding"
    /\ UNCHANGED <<engineVars, siteVars, wrapperVars>>

\* Mutant: the call returns without waiting for the synthesis.
SpeakJobNotAwaited ==
    /\ pc = "synth"
    /\ pc' = "unwinding"
    /\ UNCHANGED <<engineVars, siteVars, wrapperVars>>

\* A blocking tts_speak returns once its job is over.
SpeakJobOver ==
    /\ pc = "synth"
    /\ job[cur] = "done"
    /\ pc' = "unwinding"
    /\ UNCHANGED <<engineVars, siteVars, wrapperVars>>

\* Mutant: the scope guard releases the site without taking the mutex.
SpeakReleaseSiteUnlocked ==
    /\ pc = "unwinding"
    /\ mutex' = Sapi
    /\ refs' = [refs EXCEPT ![site] = @ - 1]
    /\ pc' = "clearing"
    /\ UNCHANGED <<engineVars, site, wrapperVars>>

\* Mutant: the site is released twice.
SpeakReleaseSiteTwice ==
    /\ pc = "unwinding"
    /\ mutex = Free
    /\ mutex' = Sapi
    /\ refs' = [refs EXCEPT ![site] = @ - 2]
    /\ pc' = "clearing"
    /\ UNCHANGED <<engineVars, site, wrapperVars>>

\* The scope guard, under the mutex: Release, then the null assignment.
SpeakReleaseSite ==
    /\ pc = "unwinding"
    /\ mutex = Free
    /\ mutex' = Sapi
    /\ refs' = [refs EXCEPT ![site] = @ - 1]
    /\ pc' = "clearing"
    /\ UNCHANGED <<engineVars, site, wrapperVars>>

SpeakClearSite ==
    /\ pc = "clearing"
    /\ site' = None
    /\ mutex' = Free
    /\ pc' = "idle"
    /\ UNCHANGED <<engineVars, refs, wrapperVars>>

\* The last reference on the engine goes.  Members are destroyed in reverse
\* order of declaration: m_plainToSapiMap before m_rustTts.
DestroyMap ==
    /\ life \in {"new", "ready"}
    /\ pc = "idle"
    /\ life' = "mapGone"
    /\ map' = Gone
    /\ UNCHANGED <<pc, cur, siteVars, wrapperVars>>

\* ~Engine calls tts_destroy, taken to stop the jobs and to wait for a
\* callback that is running.
DestroyWrapper ==
    /\ life = "mapGone"
    /\ \A u \in Utt : cb[u] = "none"
    /\ life' = "dead"
    /\ job' = [u \in Utt |-> IF job[u] = "running" THEN "done" ELSE job[u]]
    /\ UNCHANGED <<pc, cur, map, siteVars, cb, seen, text, heard, lost>>

-----------------------------------------------------------------------------
(* The wrapper's threads, one per job. *)

\* The audio and the viseme callback take the mutex first and look for the
\* site under it.
CallbackUnderLock(u, kind) ==
    /\ job[u] = "running"
    /\ cb[u] = "none"
    /\ mutex = Free
    /\ mutex' = u
    /\ cb' = [cb EXCEPT ![u] = kind]
    /\ seen' = [seen EXCEPT ![u] = site]
    /\ UNCHANGED <<engineVars, pc, site, refs, job, text, heard, lost>>

OnAudio(u) == CallbackUnderLock(u, "audio")

\* Mutant: the viseme callback looks for the site without the mutex.
OnVisemeUnlocked(u) ==
    /\ job[u] = "running"
    /\ cb[u] = "none"
    /\ mutex' = u
    /\ cb' = [cb EXCEPT ![u] = "viseme"]
    /\ seen' = [seen EXCEPT ![u] = site]
    /\ UNCHANGED <<engineVars, pc, site, refs, job, text, heard, lost>>

OnViseme(u) == CallbackUnderLock(u, "viseme")

\* The boundary callback translates its offset before it takes the mutex.
\* (An event without a valid offset returns at once and changes nothing.)
OnBoundaryTranslate(u) ==
    /\ job[u] = "running"
    /\ cb[u] = "none"
    /\ cb' = [cb EXCEPT ![u] = "boundary"]
    /\ text' = [text EXCEPT ![u] = map]
    /\ UNCHANGED <<engineVars, pc, siteVars, job, seen, heard, lost>>

OnBoundaryLock(u) ==
    /\ cb[u] = "boundary"
    /\ mutex = Free
    /\ mutex' = u
    /\ seen' = [seen EXCEPT ![u] = site]
    /\ UNCHANGED <<engineVars, pc, site, refs, job, cb, text, heard, lost>>

CallbackReturns(u) ==
    /\ mutex' = Free
    /\ cb' = [cb EXCEPT ![u] = "none"]
    /\ seen' = [seen EXCEPT ![u] = None]
    /\ text' = [text EXCEPT ![u] = None]
    /\ UNCHANGED <<engineVars, pc, site, refs, job>>

\* Write or AddEvents on the site the callback found.
Deliver(u) ==
    /\ mutex = u
    /\ seen[u] # None
    /\ heard' = [heard EXCEPT ![seen[u]] = @ \union {u}]
    /\ CallbackReturns(u)
    /\ UNCHANGED lost

\* Mutant: the callback returns early and leaves the mutex locked.
DeliveryRefusedLocked(u) ==
    /\ mutex = u
    /\ seen[u] # None
    /\ cb' = [cb EXCEPT ![u] = "none"]
    /\ seen' = [seen EXCEPT ![u] = None]
    /\ text' = [text EXCEPT ![u] = None]
    /\ UNCHANGED <<engineVars, pc, siteVars, job, heard, lost>>

\* The site refuses the data; the callback ignores the failure.
DeliveryRefused(u) ==
    /\ mutex = u
    /\ seen[u] # None
    /\ CallbackReturns(u)
    /\ UNCHANGED <<heard, lost>>

\* There is no site: the callback returns and what it brought is gone.
DropCallback(u) ==
    /\ mutex = u
    /\ cb[u] # "none"
    /\ seen[u] = None
    /\ lost' = lost \union {u}
    /\ CallbackReturns(u)
    /\ UNCHANGED heard

JobEnds(u) ==
    /\ job[u] = "running"
    /\ cb[u] = "none"
    /\ job' = [job EXCEPT ![u] = "done"]
    /\ UNCHANGED <<engineVars, pc, siteVars, cb, seen, text, heard, lost>>

-----------------------------------------------------------------------------
SpeakSteps ==
    \/ SpeakStoreSite \/ SpeakSentinelEmpty \/ SpeakClearMap \/ SpeakFillMap
    \/ SpeakNothingToSay \/ SpeakThrows \/ SpeakStartsJob \/ SpeakJobFails
    \/ SpeakJobOver \/ SpeakReleaseSite \/ SpeakClearSite

WrapperBegins(u) == OnAudio(u) \/ OnViseme(u) \/ OnBoundaryTranslate(u)

WrapperEnds(u) ==
    OnBoundaryLock(u) \/ Deliver(u) \/ DeliveryRefused(u) \/ DropCallback(u)

Next ==
    \/ SetObjectToken \/ SpeakRejected \/ SpeakAddRef
    \/ SpeakSteps
    \/ DestroyMap \/ DestroyWrapper
    \/ \E u \in Utt : WrapperBegins(u) \/ WrapperEnds(u) \/ JobEnds(u)

Spec == Init /\ [][Next]_vars

\* The SAPI thread keeps running inside Speak and gets the mutex that is
\* free again and again; a callback that started finishes; and a synthesis
\* job, whatever it calls back in the meantime, comes to an end.
Fairness ==
    /\ SF_vars(SpeakSteps)
    /\ \A u \in Utt : SF_vars(WrapperEnds(u)) /\ SF_vars(JobEnds(u))

FairSpec == Spec /\ Fairness
-----------------------------------------------------------------------------
(* Properties. *)

\* m_outputSiteMutex is what keeps a callback from using a site that Speak's
\* scope guard has released: whenever a callback is between its look at
\* m_pOutputSite and its Write or AddEvents, the engine still holds the
\* reference on that site.
SiteHeldWhileUsed ==
    \A u \in Utt : seen[u] # None => refs[seen[u]] > 0

\* AddRef and Release balance on every way out of Speak, the early returns
\* and the exceptions included: between two calls the engine holds no site
\* and m_pOutputSite is null.
NothingHeldWhenIdle ==
    pc = "idle" => site = None /\ \A s \in Utt : refs[s] = 0

\* An audio buffer, viseme or boundary is only ever given to the site of the
\* Speak call that asked for it.
EventsReachTheirOwnSite ==
    \A s \in Utt : heard[s] \subseteq {s}

\* A boundary is translated with the offsets of the text it was synthesized
\* from, never with those of another utterance or with a map that is half
\* rebuilt ("prevents race condition where boundary events from a previous
\* Speak() are processed against new text").
BoundariesUseTheirOwnText ==
    \A u \in Utt : cb[u] = "boundary" => text[u] \in {u, Gone}

\* m_plainToSapiMap is declared after m_rustTts and so destroyed before the
\* wrapper engine is stopped: no boundary callback may read it in between.
MapOutlivesItsReaders ==
    \A u \in Utt : text[u] # Gone

\* When Speak has returned, everything its synthesis produced has been
\* offered to the site: no callback ever comes too late to find one.
NothingLost == lost = {}

\* Every Speak call that took its site gives control back to SAPI.
SpeakReturns == pc # "idle" ~> pc = "idle"

\* The engine keeps the SpeakContract: a site hears only between the AddRef
\* and the Release of its own Speak call.
Phase ==
    [s \in Utt |-> IF refs[s] > 0 THEN "open" ELSE IF s > cur THEN "new" ELSE "closed"]

Contract == INSTANCE SpeakContract WITH
    Sites <- Utt, Deliveries <- Utt, phase <- Phase

ContractSpec == Contract!Spec
=============================================================================
