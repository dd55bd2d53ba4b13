--------------------------- MODULE WrapperLoader ----------------------------
(***************************************************************************)
(* RustTts::Loader, which loads tts_wrapper.dll once for the process and   *)
(* takes the addresses of its functions (RustTts/RustTtsLoader.cpp), as    *)
(* the threads of a SAPI client call it, each for a voice of its own       *)
(* (TTSEngine.cpp, InitVoice and InitRustTtsVoice).                        *)
(*                                                                         *)
(* Nothing is locked.  Two functions stand for the seventeen.  An outdated *)
(* DLL lacks the second.  Windows counts how often the DLL was loaded.     *)
(***************************************************************************)
EXTENDS Naturals, FiniteSets

CONSTANTS Threads,      \* threads of the client that create voices
          MaxLoads      \* bound: loads of the DLL that are not freed

ASSUME MaxLoadsAssumption == MaxLoads \in Nat \ {0}

VARIABLES
    at,         \* at[t]: where thread t is in InitVoice
    dll,        \* what there is to load: "missing", "outdated", "good"
    module,     \* m_hModule is not null
    loads,      \* how often the DLL is loaded
    funcs,      \* functions whose pointers have been set
    failing,    \* threads that have found a function missing
    raced       \* history: two threads were in Initialize at a time

loader == <<at, dll, module, loads, funcs, failing, raced>>

Functions == {"create", "stop"}
Has == CASE dll = "good" -> Functions [] dll = "outdated" -> {"create"} [] OTHER -> {}

\* In Initialize, and elsewhere.
Initializing == {"testing", "loading", "create", "stop", "ending"}
Migrating == {"reading", "looking", "looking2", "renaming", "rewriting"}

LoaderTypes ==
    /\ at \in [Threads -> Initializing \union Migrating
                           \union {"idle", "testing2", "calling", "ready"}]
    /\ dll \in {"missing", "outdated", "good"}
    /\ module \in BOOLEAN
    /\ loads \in 0 .. MaxLoads
    /\ funcs \subseteq Functions
    /\ failing \subseteq Threads
    /\ raced \in BOOLEAN

LoaderInit ==
    /\ at = [t \in Threads |-> "idle"]
    /\ dll \in {"missing", "outdated", "good"}
    /\ module = FALSE /\ loads = 0
    /\ funcs = {} /\ failing = {}
    /\ raced = FALSE

Goes(t, to) == at' = [at EXCEPT ![t] = to]

\* SAPI creates an engine for a token, and SetObjectToken calls InitVoice.
Begins(t) ==
    /\ at[t] = "idle"
    /\ Goes(t, "testing")
    /\ raced' = (raced \/ \E u \in Threads : at[u] \in Initializing)
    /\ UNCHANGED <<dll, module, loads, funcs, failing>>

\* "if (m_hModule) return true".
Tests(t) ==
    /\ at[t] = "testing"
    /\ Goes(t, IF module THEN "testing2" ELSE "loading")
    /\ UNCHANGED <<dll, module, loads, funcs, failing, raced>>

\* A file of that name is not this program's kind, and null is assigned.
Misses(t) ==
    /\ at[t] = "loading"
    /\ module' = FALSE
    /\ UNCHANGED <<at, dll, loads, funcs, failing, raced>>

Loads(t) ==
    /\ at[t] = "loading"
    /\ loads < MaxLoads
    /\ IF dll = "missing"
         THEN Goes(t, "idle") /\ module' = FALSE /\ UNCHANGED loads
         ELSE Goes(t, "create") /\ module' = TRUE /\ loads' = loads + 1
    /\ UNCHANGED <<dll, funcs, failing, raced>>

\* GetFunc asks whatever m_hModule holds by now.
Resolves(t) ==
    /\ at[t] \in Functions
    /\ LET found == at[t] \in Has /\ module
       IN  /\ funcs' = IF found THEN funcs \union {at[t]} ELSE funcs \ {at[t]}
           /\ failing' = IF found THEN failing ELSE failing \union {t}
    /\ Goes(t, IF at[t] = "create" THEN "stop" ELSE "ending")
    /\ UNCHANGED <<dll, module, loads, raced>>

\* Mutant: after a failure m_hModule is not reset.
EndsWithoutReset(t) ==
    /\ at[t] = "ending"
    /\ failing' = failing \ {t}
    /\ IF t \in failing
         THEN Goes(t, "idle") /\ loads' = (IF module THEN loads - 1 ELSE loads)
         ELSE Goes(t, "testing2") /\ UNCHANGED loads
    /\ UNCHANGED <<dll, module, funcs, raced>>

\* The DLL is freed again if a function is missing, and no voice is made.
Ends(t) ==
    /\ at[t] = "ending"
    /\ failing' = failing \ {t}
    /\ IF t \in failing
         THEN /\ Goes(t, "idle")
              /\ module' = FALSE
              /\ loads' = IF module THEN loads - 1 ELSE loads
         ELSE Goes(t, "testing2") /\ UNCHANGED <<module, loads>>
    /\ UNCHANGED <<dll, funcs, raced>>

\* IsLoaded, before the voice's configuration is read.
TestsAgain(t) ==
    /\ at[t] = "testing2"
    /\ Goes(t, IF module THEN "reading" ELSE "idle")
    /\ UNCHANGED <<dll, module, loads, funcs, failing, raced>>

\* Engine::Create asks IsLoaded once more and calls; the wrapper may refuse.
Creates(t, works) ==
    /\ at[t] = "calling"
    /\ Goes(t, IF module /\ works THEN "ready" ELSE "idle")
    /\ UNCHANGED <<dll, module, loads, funcs, failing, raced>>

\* The client releases the voice.
Releases(t) ==
    /\ at[t] = "ready"
    /\ Goes(t, "idle")
    /\ UNCHANGED <<dll, module, loads, funcs, failing, raced>>

LoaderSteps(t) ==
    \/ Tests(t) \/ Misses(t) \/ Loads(t) \/ Resolves(t) \/ Ends(t)
    \/ TestsAgain(t) \/ \E works \in BOOLEAN : Creates(t, works)
    \/ Releases(t)
-----------------------------------------------------------------------------
(* Properties. *)

\* A voice that calls into the wrapper, or has one of its engines, finds the
\* DLL loaded and every function resolved, after however many failed attempts
\* of other voices - unless two threads were in Initialize at a time.
CallsResolvedUnlessRaced ==
    \A t \in Threads :
        ~raced /\ (at[t] = "ready" \/ (at[t] = "calling" /\ module))
        => loads > 0 /\ funcs = Functions
=============================================================================
