-------------------------- MODULE VoiceInitProofs ---------------------------
(***************************************************************************)
(* Theorems about VoiceInit, for any number of threads.  Its three parts   *)
(* have an invariant each, and no part disturbs another's.                 *)
(***************************************************************************)
EXTENDS VoiceInit, TLAPS

-----------------------------------------------------------------------------
(* Registration. *)

\* How far a call has come, as long as nothing has spoilt it: a key is there
\* from its first write on, and gone once ATL has deleted it.
ProgressInv ==
    ~spoilt =>
        /\ call = "none" => left = 0 /\ keys \in {{}, Keys}
        /\ call # "none" /\ act = "write" =>
             /\ left <= 5 => "engine" \in keys
             /\ left <= 4 => "enumerator" \in keys
             /\ left <= 3 => "hook" \in keys
        /\ call # "none" /\ act = "delete" =>
             /\ left <= 2 => "engine" \notin keys
             /\ left <= 1 => "enumerator" \notin keys
             /\ left <= 0 => "hook" \notin keys

RegistrationInv == RegistrationTypes /\ ProgressInv

\* Every step of a call.
LEMMA RegistrationKeeps ==
    ASSUME RegistrationInv, RegistrationSteps
    PROVE  RegistrationInv'
<1> USE DEF RegistrationInv, RegistrationTypes, ProgressInv, Twice, Keys
<1>1. ASSUME NEW what \in {"DllRegisterServer", "DllInstall", "DllUnregisterServer"}, Calls(what)
      PROVE  RegistrationInv'
  BY <1>1 DEF Calls
<1>2. CASE Does
  <2>1. RegistrationTypes' BY <1>2 DEF Does, NextKey
  <2>2. left \in {1, 2, 3, 4, 5, 6} BY <1>2 DEF Does
  <2>3. ProgressInv' BY <1>2, <2>2 DEF Does, NextKey
  <2> QED BY <2>1, <2>3
<1>3. CASE FailsUnseen BY <1>3 DEF FailsUnseen, Checked
<1>4. CASE Fails
  <2>1. CASE Undoes
    <3>1. /\ keys' = keys /\ call' = "DllInstall"
          /\ act' = "delete" /\ left' = 6 /\ result' = "failed" /\ spoilt' = FALSE
      BY <1>4, <2>1 DEF Fails, Undoes
    <3>2. spoilt' \in BOOLEAN BY <3>1
    <3>3. RegistrationTypes' BY <3>1, <3>2
    <3>4. ProgressInv' BY <3>1
    <3> QED BY <3>3, <3>4
  <2>2. CASE ~Undoes
    <3>1. /\ UNCHANGED <<keys, call, act>>
          /\ left' = 0 /\ result' = "failed" /\ spoilt' = TRUE
      BY <1>4, <2>2 DEF Fails
    <3> QED BY <3>1
  <2> QED BY <2>1, <2>2
<1> QED BY <1>1, <1>2, <1>3, <1>4 DEF RegistrationSteps

\* A call that is over has done all or nothing.
LEMMA WholeAtTheEnd == RegistrationInv => RegistrationIsWhole
<1> SUFFICES ASSUME RegistrationInv, left = 0, ~spoilt PROVE keys \in {{}, Keys}
    BY DEF RegistrationIsWhole
<1>1. CASE call = "none" BY <1>1 DEF RegistrationInv, ProgressInv
<1>2. CASE call # "none" /\ act = "write"
  <2>1. Keys \subseteq keys /\ keys \subseteq Keys
    BY <1>2 DEF RegistrationInv, RegistrationTypes, ProgressInv, Keys
  <2> QED BY <2>1
<1>3. CASE call # "none" /\ act = "delete"
  <2>1. keys \subseteq Keys /\ \A k \in Keys : k \notin keys
    BY <1>3 DEF RegistrationInv, RegistrationTypes, ProgressInv, Keys
  <2>2. keys = {} BY <2>1
  <2> QED BY <2>2
<1> QED BY <1>1, <1>2, <1>3 DEF RegistrationInv, RegistrationTypes

-----------------------------------------------------------------------------
(* The loader. *)

\* Where a thread may see the DLL half resolved, and where it relies on it.
Middle == {"loading", "create", "stop", "ending"}
Past == {"testing2", "calling", "ready"} \union Migrating

\* As long as no two threads were in Initialize at a time: one that loads is
\* alone with it, and what the others rely on is there.
SequentialInv ==
    ~raced =>
        /\ \A t, u \in Threads :
             /\ at[t] \in Initializing /\ at[u] \in Initializing => t = u
             /\ ~(at[t] \in Middle /\ at[u] \in Past)
        /\ \A t \in Threads :
             /\ at[t] \in Past => module
             /\ at[t] = "loading" => ~module
             /\ at[t] \in {"create", "stop", "ending"} => module
             /\ at[t] = "stop" => t \in failing \/ "create" \in funcs
             /\ at[t] = "ending" => t \in failing \/ funcs = Functions
        /\ module /\ (\A t \in Threads : at[t] \notin Middle) => funcs = Functions

LoaderInv ==
    /\ LoaderTypes
    /\ module => loads > 0
    /\ SequentialInv

\* Every step of Initialize and of the calls after it.
LEMMA LoaderKeeps ==
    ASSUME NEW t \in Threads, LoaderInv, Begins(t) \/ LoaderSteps(t)
    PROVE  LoaderInv'
<1> USE MaxLoadsAssumption DEF LoaderInv, LoaderTypes, Goes, Initializing, Migrating
<1>1. LoaderTypes' /\ (module' => loads' > 0)
  <2>1. CASE Begins(t) BY <2>1 DEF Begins
  <2>2. CASE Tests(t) \/ Misses(t)
    <3>1. CASE Misses(t) BY <3>1 DEF Misses
    <3>2. CASE Tests(t) /\ module BY <3>2 DEF Tests
    <3>3. CASE Tests(t) /\ ~module BY <3>3 DEF Tests
    <3> QED BY <2>2, <3>1, <3>2, <3>3
  <2>7. CASE Loads(t)
    <3>1. CASE dll = "missing" BY <2>7, <3>1 DEF Loads
    <3>2. CASE dll # "missing"
      <4>1. loads + 1 \in 0 .. MaxLoads /\ loads + 1 > 0 BY <2>7 DEF Loads
      <4> QED BY <2>7, <3>2, <4>1 DEF Loads
    <3> QED BY <3>1, <3>2
  <2>3. CASE Resolves(t) BY <2>3 DEF Resolves, Functions
  <2>4. CASE Ends(t)
    <3>1. module => loads - 1 \in 0 .. MaxLoads OBVIOUS
    <3>2. /\ at' \in [Threads -> Initializing \union Migrating
                                   \union {"idle", "testing2", "calling", "ready"}]
          /\ failing' \subseteq Threads /\ UNCHANGED <<dll, funcs, raced>>
      BY <2>4 DEF Ends
    <3>3. loads' \in 0 .. MaxLoads /\ module' \in BOOLEAN /\ (module' => loads' > 0)
      <4>1. CASE t \in failing BY <2>4, <3>1, <4>1 DEF Ends
      <4>2. CASE t \notin failing BY <2>4, <4>2 DEF Ends
      <4> QED BY <4>1, <4>2
    <3> QED BY <3>2, <3>3
  <2>5. CASE TestsAgain(t) \/ Releases(t) BY <2>5 DEF TestsAgain, Releases
  <2>6. ASSUME NEW works \in BOOLEAN, Creates(t, works) PROVE LoaderTypes' /\ (module' => loads' > 0)
    BY <2>6 DEF Creates
  <2> QED BY <2>1, <2>2, <2>3, <2>4, <2>5, <2>6, <2>7 DEF LoaderSteps
<1>2. SequentialInv'
  <2> USE DEF SequentialInv, Middle, Past
  <2>1. CASE Begins(t) BY <2>1 DEF Begins
  <2>2. CASE Tests(t) BY <2>2 DEF Tests
  <2>3. CASE Misses(t) BY <2>3 DEF Misses
  <2>4. CASE Loads(t)
    <3>1. CASE dll = "missing" BY <2>4, <3>1 DEF Loads
    <3>2. CASE dll # "missing" BY <2>4, <3>2 DEF Loads
    <3> QED BY <3>1, <3>2
  <2>5. CASE Resolves(t) BY <2>5 DEF Resolves, Functions
  <2>6. CASE Ends(t)
    <3>1. CASE t \in failing BY <2>6, <3>1 DEF Ends
    <3>2. CASE t \notin failing BY <2>6, <3>2 DEF Ends
    <3> QED BY <3>1, <3>2
  <2>7. CASE TestsAgain(t) \/ Releases(t) BY <2>7 DEF TestsAgain, Releases
  <2>8. ASSUME NEW works \in BOOLEAN, Creates(t, works) PROVE SequentialInv'
    BY <2>8 DEF Creates
  <2> QED BY <2>1, <2>2, <2>3, <2>4, <2>5, <2>6, <2>7, <2>8 DEF LoaderSteps
<1> QED BY <1>1, <1>2

\* A step of the migration is no step of the loader.
LEMMA LoaderUntouched ==
    ASSUME NEW t \in Threads, LoaderInv, MigrationSteps(t),
           UNCHANGED <<dll, module, loads, funcs, failing, raced>>
    PROVE  LoaderInv'
<1>1. /\ at[t] \in Migrating
      /\ \E to \in Migrating \union {"calling"} : at' = [at EXCEPT ![t] = to]
  BY DEF MigrationSteps, ReadsPath, Looks, LooksForLegacy, Renames, CannotRename, Rewrites, Goes,
         Migrating
<1> QED BY <1>1 DEF LoaderInv, LoaderTypes, SequentialInv, Middle, Past, Initializing, Migrating
-----------------------------------------------------------------------------
(* The migration. *)

\* The model is whole under one of its names.
WholeInv ==
    /\ dir["legacy"] \in {"whole", "none"}
    /\ dir["legacy"] = "none" => dir["canonical"] = "whole"

\* Nobody says canonical before there is a directory of that name.
CanonicalInv ==
    /\ path = "canonical" => dir["canonical"] # "none"
    /\ \A t \in Threads :
         id[t] = "canonical" \/ at[t] = "rewriting" => dir["canonical"] # "none"

\* What a voice has seen that nobody disturbed still is so, up to its call.
UndisturbedInv ==
    \A t \in Threads \ disturbed :
        /\ at[t] \in {"looking2", "renaming"} => dir["canonical"] = "none"
        /\ at[t] = "calling" /\ id[t] = "legacy" => dir["legacy"] = "whole"

MigrationInv == MigrationTypes /\ WholeInv /\ CanonicalInv /\ UndisturbedInv

\* A move finds the model under its old name only, and leaves it whole under
\* the new one.
LEMMA MoveFacts ==
    ASSUME MigrationInv, NEW others \in SUBSET Threads, Moves(others)
    PROVE  /\ dir["canonical"] = "none"
           /\ dir' \in [Ids -> {"none", "partial", "whole"}]
           /\ dir'["legacy"] = "none" /\ dir'["canonical"] = "whole"
           /\ disturbed \subseteq disturbed' /\ disturbed' \subseteq Threads
           /\ \A u \in others : at[u] \in Migrating \union {"calling"} => u \in disturbed'
<1> USE DEF MigrationInv, MigrationTypes, Ids
<1>1. "legacy" \in Installed /\ "canonical" \notin Installed BY DEF Moves
<1>2. dir["legacy"] = "whole" /\ dir["canonical"] = "none"
  BY <1>1 DEF Installed, WholeInv
<1> QED BY <1>2 DEF Moves

\* Every step of a voice's migration.
LEMMA MigrationKeeps ==
    ASSUME NEW t \in Threads, LoaderTypes, MigrationInv, MigrationSteps(t)
    PROVE  MigrationInv'
<1> USE DEF MigrationInv, MigrationTypes, WholeInv, CanonicalInv, UndisturbedInv, Goes, LoaderTypes
<1>0. Ids = {"legacy", "canonical"} BY DEF Ids
<1>1. CASE ReadsPath(t)
  <2>1. CASE path = "legacy" BY <1>1, <2>1 DEF ReadsPath
  <2>2. CASE path = "canonical" BY <1>1, <2>2 DEF ReadsPath
  <2> QED BY <2>1, <2>2, <1>0
<1>2. CASE Looks(t)
  <2>1. CASE "canonical" \in Installed BY <1>2, <2>1 DEF Looks, migration, Installed
  <2>2. CASE "canonical" \notin Installed BY <1>0, <1>2, <2>2 DEF Looks, migration, Installed
  <2> QED BY <2>1, <2>2
<1>3. CASE LooksForLegacy(t)
  <2>1. CASE "legacy" \in Installed BY <1>3, <2>1 DEF LooksForLegacy, migration
  <2>2. CASE "legacy" \notin Installed
    BY <1>0, <1>3, <2>2 DEF LooksForLegacy, migration, Installed
  <2> QED BY <2>1, <2>2
<1>4. CASE Renames(t)
  <2>1. Threads \ {t} \in SUBSET Threads /\ Moves(Threads \ {t}) BY <1>4 DEF Renames
  <2>2. /\ dir' \in [Ids -> {"none", "partial", "whole"}]
        /\ dir'["legacy"] = "none" /\ dir'["canonical"] = "whole"
        /\ disturbed \subseteq disturbed' /\ disturbed' \subseteq Threads
        /\ \A u \in Threads \ {t} : at[u] \in Migrating \union {"calling"} => u \in disturbed'
    BY <2>1, MoveFacts
  <2> QED BY <1>4, <2>2 DEF Renames, Migrating
<1>5. CASE CannotRename(t) BY <1>0, <1>5 DEF CannotRename, migration
<1>6. ASSUME NEW allowed \in BOOLEAN, Rewrites(t, allowed) PROVE MigrationInv'
  <2>1. path' \in {path, "canonical"} BY <1>6 DEF Rewrites
  <2> QED BY <1>0, <1>6, <2>1 DEF Rewrites
<1> QED BY <1>1, <1>2, <1>3, <1>4, <1>5, <1>6 DEF MigrationSteps

\* The steps of the window.
LEMMA WindowKeeps ==
    ASSUME LoaderTypes, MigrationInv, WindowSteps
    PROVE  MigrationInv'
<1> USE DEF MigrationInv, MigrationTypes, WholeInv, CanonicalInv, UndisturbedInv, LoaderTypes
<1>0. Ids = {"legacy", "canonical"} BY DEF Ids
<1>1. UNCHANGED at BY DEF WindowSteps, loader
<1>2. CASE ScanLooks BY <1>1, <1>2 DEF ScanLooks
<1>3. CASE ScanMoves
  <2>1. CASE Moves(Threads)
    <3>1. /\ dir' \in [Ids -> {"none", "partial", "whole"}]
          /\ dir'["legacy"] = "none" /\ dir'["canonical"] = "whole"
          /\ disturbed' \subseteq Threads
          /\ \A u \in Threads : at[u] \in Migrating \union {"calling"} => u \in disturbed'
      BY <2>1, MoveFacts
    <3> QED BY <1>1, <1>3, <3>1 DEF ScanMoves, Migrating
  <2>2. CASE UNCHANGED <<dir, disturbed>> BY <1>1, <1>3, <2>2 DEF ScanMoves
  <2> QED BY <1>3, <2>1, <2>2 DEF ScanMoves
<1>4. ASSUME NEW content \in {"partial", "whole"}, Downloads(content) PROVE MigrationInv'
  <2>1. /\ dir' \in [Ids -> {"none", "partial", "whole"}]
        /\ dir'["legacy"] = dir["legacy"] /\ dir'["canonical"] = content
        /\ dir["canonical"] # "whole"
    BY <1>0, <1>4 DEF Downloads
  <2>2. /\ disturbed' \subseteq Threads /\ UNCHANGED <<path, id, scan>>
        /\ \A u \in Threads : at[u] \in Migrating \union {"calling"} => u \in disturbed'
    BY <1>4 DEF Downloads
  <2> QED BY <1>1, <2>1, <2>2 DEF Migrating
<1> QED BY <1>2, <1>3, <1>4 DEF WindowSteps

\* A step of the loader disturbs nobody.
LEMMA MigrationUntouched ==
    ASSUME NEW t \in Threads, LoaderTypes, MigrationInv, Begins(t) \/ LoaderSteps(t),
           UNCHANGED migration
    PROVE  MigrationInv'
<1>1. \A u \in Threads :
        /\ at'[u] \in {"rewriting", "looking2", "renaming", "calling"} => at'[u] = at[u]
  BY DEF LoaderSteps, Begins, Tests, Misses, Loads, Resolves, Ends, TestsAgain, Creates, Releases,
         Goes, LoaderTypes, Functions
<1> QED BY <1>1 DEF migration, MigrationInv, MigrationTypes, WholeInv, CanonicalInv, UndisturbedInv

\* A voice is sent to the model.
LEMMA InvResolves == MigrationInv => StalePathResolves
<1> SUFFICES ASSUME MigrationInv PROVE StalePathResolves OBVIOUS
<1> USE DEF MigrationInv, MigrationTypes, WholeInv, CanonicalInv, UndisturbedInv
<1>0. Ids = {"legacy", "canonical"} BY DEF Ids
<1>1. \E i \in Ids : dir[i] = "whole" BY <1>0
<1>2. ASSUME dir["canonical"] # "partial"
      PROVE  /\ dir[path] = "whole" \/ path = "legacy"
             /\ \A t \in Threads \ disturbed : at[t] = "calling" => dir[id[t]] = "whole"
  <2>1. dir["canonical"] \in {"none", "whole"} BY <1>0, <1>2
  <2>2. dir[path] = "whole" \/ path = "legacy" BY <1>0, <2>1
  <2>3. ASSUME NEW t \in Threads \ disturbed, at[t] = "calling" PROVE dir[id[t]] = "whole"
    <3>1. CASE id[t] = "legacy" BY <2>3, <3>1
    <3>2. CASE id[t] = "canonical" BY <2>1, <3>2
    <3> QED BY <1>0, <3>1, <3>2
  <2> QED BY <2>2, <2>3
<1> QED BY <1>1, <1>2 DEF StalePathResolves

-----------------------------------------------------------------------------
(* All three. *)

VoiceInv == RegistrationInv /\ LoaderInv /\ MigrationInv

\* Nothing is registered or loaded at first.
LEMMA InitHolds == Init => VoiceInv
<1> SUFFICES ASSUME Init PROVE VoiceInv OBVIOUS
<1>1. RegistrationInv
  <2>1. keys \in {{}, Keys} /\ call = "none" /\ act = "write" /\ left = 0 /\ result = "none"
    BY DEF Init, RegistrationInit
  <2>2. spoilt \in BOOLEAN BY DEF Init, RegistrationInit
  <2>3. RegistrationTypes BY <2>1, <2>2 DEF RegistrationTypes, Twice
  <2>4. ProgressInv BY <2>1 DEF ProgressInv
  <2> QED BY <2>3, <2>4 DEF RegistrationInv
<1>2. LoaderInv
  <2>1. at = [t \in Threads |-> "idle"] /\ loads = 0 /\ ~module /\ failing = {}
    BY DEF Init, LoaderInit
  <2>2. dll \in {"missing", "outdated", "good"} /\ module \in BOOLEAN /\ raced \in BOOLEAN /\ funcs = {}
    BY DEF Init, LoaderInit
  <2>3. LoaderTypes BY <2>1, <2>2, MaxLoadsAssumption DEF LoaderTypes
  <2>4. SequentialInv BY <2>1 DEF SequentialInv, Initializing, Middle, Past, Migrating
  <2> QED BY <2>1, <2>3, <2>4 DEF LoaderInv
<1>3. MigrationInv
  BY DEF Init, LoaderInit, MigrationInit, MigrationInv, MigrationTypes, WholeInv, CanonicalInv,
         UndisturbedInv, Ids
<1> QED BY <1>1, <1>2, <1>3 DEF VoiceInv

\* Every step keeps the invariant.
LEMMA NextHolds == VoiceInv /\ [Next]_vars => VoiceInv'
<1> SUFFICES ASSUME VoiceInv, [Next]_vars PROVE VoiceInv' OBVIOUS
<1>0. RegistrationInv /\ LoaderInv /\ MigrationInv /\ LoaderTypes BY DEF VoiceInv, LoaderInv
<1>1. UNCHANGED registration => RegistrationInv'
  BY <1>0 DEF registration, RegistrationInv, RegistrationTypes, ProgressInv
<1>2. UNCHANGED loader => LoaderInv'
  BY <1>0 DEF loader, LoaderInv, LoaderTypes, SequentialInv, Middle, Past, Initializing, Migrating
<1>3. UNCHANGED <<loader, migration>> => MigrationInv'
  BY <1>0 DEF loader, migration, MigrationInv, MigrationTypes, WholeInv, CanonicalInv, UndisturbedInv
<1>4. CASE RegistrationSteps /\ UNCHANGED <<loader, migration>>
  BY <1>0, <1>2, <1>3, <1>4, RegistrationKeeps DEF VoiceInv
<1>5. ASSUME NEW t \in Threads, CreatesVoice(t) PROVE VoiceInv'
  BY <1>0, <1>1, <1>5, LoaderKeeps, MigrationUntouched DEF CreatesVoice, VoiceInv
<1>6. ASSUME NEW t \in Threads, LoaderSteps(t), UNCHANGED <<registration, migration>> PROVE VoiceInv'
  BY <1>0, <1>1, <1>6, LoaderKeeps, MigrationUntouched DEF VoiceInv
<1>7. ASSUME NEW t \in Threads, MigrationSteps(t),
             UNCHANGED <<registration, dll, module, loads, funcs, failing, raced>>
      PROVE  VoiceInv'
  BY <1>0, <1>1, <1>7, LoaderUntouched, MigrationKeeps DEF VoiceInv
<1>8. CASE WindowSteps /\ UNCHANGED registration
  <2>1. UNCHANGED loader BY <1>8 DEF WindowSteps
  <2> QED BY <1>0, <1>1, <1>2, <1>8, <2>1, WindowKeeps DEF VoiceInv
<1>9. CASE UNCHANGED vars BY <1>1, <1>2, <1>3, <1>9 DEF vars, VoiceInv
<1> QED BY <1>4, <1>5, <1>6, <1>7, <1>8, <1>9 DEF Next

-----------------------------------------------------------------------------

\* Whatever calls, fails and crosses, the three invariants hold.
THEOREM VoiceInvAlways == Spec => []VoiceInv
<1>1. Init => VoiceInv BY InitHolds
<1>2. VoiceInv /\ [Next]_vars => VoiceInv' BY NextHolds
<1> QED BY <1>1, <1>2, PTL DEF Spec

\* Every variable keeps to its type; the DLL is never freed more often than it
\* was loaded.
THEOREM TypesHold == Spec => []TypeOK
<1>1. VoiceInv => TypeOK
  BY DEF VoiceInv, RegistrationInv, LoaderInv, MigrationInv, TypeOK
<1> QED BY <1>1, VoiceInvAlways, PTL

\* SAPI finds the enumerator with both its classes, or nothing, once a call of
\* the registration exports is over that nothing spoilt.
THEOREM RegistrationIsAllOrNothing == Spec => []RegistrationIsWhole
<1>1. VoiceInv => RegistrationIsWhole BY WholeAtTheEnd DEF VoiceInv
<1> QED BY <1>1, VoiceInvAlways, PTL

\* A voice calls only into a wrapper that is loaded and resolved, for any
\* number of threads that were never two in Initialize.
THEOREM CallsAreResolved == Spec => []CallsResolvedUnlessRaced
<1>1. VoiceInv => CallsResolvedUnlessRaced
  <2> SUFFICES ASSUME VoiceInv, NEW t \in Threads, ~raced,
                      at[t] = "ready" \/ (at[t] = "calling" /\ module)
               PROVE  loads > 0 /\ funcs = Functions
      BY DEF CallsResolvedUnlessRaced
  <2>1. at[t] \in Past BY DEF Past
  <2>2. module /\ \A u \in Threads : at[u] \notin Middle
    BY <2>1 DEF VoiceInv, LoaderInv, SequentialInv
  <2> QED BY <2>2 DEF VoiceInv, LoaderInv, SequentialInv
<1> QED BY <1>1, VoiceInvAlways, PTL

\* The model stays whole under one of its names, and every voice that nobody
\* disturbed is sent there.
THEOREM StalePathsResolve == Spec => []StalePathResolves
<1>1. VoiceInv => StalePathResolves BY InvResolves DEF VoiceInv
<1> QED BY <1>1, VoiceInvAlways, PTL
=============================================================================
