---------------------------- MODULE Registration ----------------------------
(***************************************************************************)
(* Registering the adapter with COM and SAPI, for one bitness: the exports *)
(* DllRegisterServer, DllUnregisterServer and DllInstall that regsvr32 and *)
(* installers call (VoiceGardenSAPIAdapter.cpp).                           *)
(*                                                                         *)
(* ATL's registrar works from the .rgs resources, which name the same keys *)
(* as the fallback after it; replacing a key is one step.  Any write or    *)
(* delete may fail.  One call is modelled, from a system where the adapter *)
(* is registered or is not.                                                *)
(***************************************************************************)
EXTENDS Naturals

VARIABLES
    keys,       \* the keys that exist
    call,       \* what is called, or "none"
    act,        \* what the call does now: "write" or "delete"
    left,       \* how many writes or deletes it has still to do
    result,     \* what it has returned
    spoilt      \* history: a step failed that nothing makes up for

registration == <<keys, call, act, left, result, spoilt>>

\* CLSID of the engine, CLSID of the enumerator, TokenEnums entry.
Keys == {"engine", "enumerator", "hook"}

\* Each key is written twice, by ATL's registrar and by the fallback, or
\* deleted twice, the fallback first.
Twice == 6
NextKey == CASE left \in {3, 6} -> "engine"
             [] left \in {2, 5} -> "enumerator"
             [] OTHER -> "hook"

\* What RegDeleteTree returns in the fallback is ignored.
Checked == act = "write" \/ left <= 3

RegistrationTypes ==
    /\ keys \subseteq Keys
    /\ call \in {"none", "DllRegisterServer", "DllInstall", "DllUnregisterServer"}
    /\ act \in {"write", "delete"}
    /\ left \in 0 .. Twice
    /\ result \in {"none", "ok", "failed"}
    /\ spoilt \in BOOLEAN

RegistrationInit ==
    /\ keys \in {{}, Keys}
    /\ call = "none" /\ act = "write" /\ left = 0
    /\ result = "none"
    /\ spoilt = FALSE

Calls(what) ==
    /\ call = "none"
    /\ call' = what
    /\ act' = IF what = "DllUnregisterServer" THEN "delete" ELSE "write"
    /\ left' = Twice
    /\ UNCHANGED <<keys, result, spoilt>>

\* The next write or delete works.
Does ==
    /\ left > 0
    /\ keys' = IF act = "write" THEN keys \union {NextKey} ELSE keys \ {NextKey}
    /\ left' = left - 1
    /\ result' = IF left = 1 /\ result = "none" THEN "ok" ELSE result
    /\ UNCHANGED <<call, act, spoilt>>

\* It fails, and the call goes on ...
FailsUnseen ==
    /\ left > 0 /\ ~Checked
    /\ left' = left - 1
    /\ UNCHANGED <<keys, call, act, result, spoilt>>

\* DllInstall has come to its first error.
Undoes == call = "DllInstall" /\ result = "none"

\* Mutant: DllInstall goes on after it has undone what it did.
FailsGoesOn ==
    /\ left > 0 /\ Checked
    /\ result' = "failed"
    /\ act' = IF Undoes THEN "delete" ELSE act
    /\ left' = IF Undoes THEN Twice + left - 1 ELSE 0
    /\ UNCHANGED <<keys, call, spoilt>>

\* Mutant: DllInstall returns the error and undoes nothing.
FailsWithoutUndoing ==
    /\ left > 0 /\ Checked
    /\ result' = "failed"
    /\ left' = 0
    /\ spoilt' = ~Undoes
    /\ UNCHANGED <<keys, call, act>>

\* ... or ends; DllInstall first calls DllUnregisterServer.
Fails ==
    /\ left > 0 /\ Checked
    /\ result' = "failed"
    /\ act' = IF Undoes THEN "delete" ELSE act
    /\ left' = IF Undoes THEN Twice ELSE 0
    /\ spoilt' = ~Undoes
    /\ UNCHANGED <<keys, call>>

RegistrationSteps ==
    \/ \E what \in {"DllRegisterServer", "DllInstall", "DllUnregisterServer"} : Calls(what)
    \/ Does \/ FailsUnseen \/ Fails
-----------------------------------------------------------------------------
(* Properties. *)

\* Once a call has returned, SAPI finds the enumerator with both classes or
\* nothing at all, whatever has failed on the way - but for an error that ends
\* DllRegisterServer, DllUnregisterServer or the roll back itself.  What the
\* fallback cannot delete ATL deletes, and DllInstall leaves no half.
RegistrationIsWhole == left = 0 /\ ~spoilt => keys \in {{}, Keys}
=============================================================================
