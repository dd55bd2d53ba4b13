--------------------------- MODULE SpeakContract ---------------------------
(***************************************************************************)
(* What SAPI may rely on from one speech engine, seen from its output      *)
(* sites.  Every Speak call brings an ISpTTSEngineSite of its own.  A site *)
(* is opened when the engine takes its reference, hears audio and events   *)
(* only while it is open, and is closed when the reference is given back.  *)
(* At most one site is open at a time and a closed site stays closed.      *)
(***************************************************************************)
EXTENDS Naturals

CONSTANTS Sites,       \* the output sites, one per Speak call
          Deliveries   \* what a site can be told: audio, visemes, boundaries

VARIABLES phase,       \* phase[s]: "new", "open" or "closed"
          heard        \* heard[s]: what site s has been told

vars == <<phase, heard>>

TypeOK ==
    /\ phase \in [Sites -> {"new", "open", "closed"}]
    /\ heard \in [Sites -> SUBSET Deliveries]

Init ==
    /\ phase = [s \in Sites |-> "new"]
    /\ heard = [s \in Sites |-> {}]

\* A call the engine turns down: its site is never used.
Refuse(s) ==
    /\ phase[s] = "new"
    /\ phase' = [phase EXCEPT ![s] = "closed"]
    /\ UNCHANGED heard

Open(s) ==
    /\ phase[s] = "new"
    /\ \A t \in Sites : phase[t] # "open"
    /\ phase' = [phase EXCEPT ![s] = "open"]
    /\ UNCHANGED heard

Hear(s, d) ==
    /\ phase[s] = "open"
    /\ heard' = [heard EXCEPT ![s] = @ \union {d}]
    /\ UNCHANGED phase

Close(s) ==
    /\ phase[s] = "open"
    /\ phase' = [phase EXCEPT ![s] = "closed"]
    /\ UNCHANGED heard

Next ==
    \E s \in Sites :
        \/ Refuse(s)
        \/ Open(s)
        \/ Close(s)
        \/ \E d \in Deliveries : Hear(s, d)

Spec == Init /\ [][Next]_vars
=============================================================================
