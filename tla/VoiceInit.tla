------------------------------ MODULE VoiceInit ------------------------------
(***************************************************************************)
(* How a SAPI client comes to a voice: the adapter is registered, the      *)
(* wrapper is loaded, the model is found.                                  *)
(***************************************************************************)
EXTENDS Registration, LegacyMigration, TLC

vars == <<registration, loader, migration>>

TypeOK == RegistrationTypes /\ LoaderTypes /\ MigrationTypes

Init == RegistrationInit /\ LoaderInit /\ MigrationInit

\* COM finds the class in the registry.
CreatesVoice(t) ==
    /\ "engine" \in keys
    /\ Begins(t)
    /\ UNCHANGED <<registration, migration>>

Next ==
    \/ RegistrationSteps /\ UNCHANGED <<loader, migration>>
    \/ \E t \in Threads :
         \/ CreatesVoice(t)
         \/ LoaderSteps(t) /\ UNCHANGED <<registration, migration>>
         \/ /\ MigrationSteps(t)
            /\ UNCHANGED <<registration, dll, module, loads, funcs, failing, raced>>
    \/ WindowSteps /\ UNCHANGED registration

Spec == Init /\ [][Next]_vars

ThreadSymmetry == Permutations(Threads)
=============================================================================
