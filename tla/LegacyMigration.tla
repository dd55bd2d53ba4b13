-------------------------- MODULE LegacyMigration ---------------------------
(***************************************************************************)
(* The move of a model from the directory of its legacy ID to that of its  *)
(* canonical one.  Each voice that is created does it for its own model    *)
(* (MigrateLegacySherpaModelDir in TTSEngine.cpp), and so does each scan   *)
(* of the window (MigrateLegacyModelDirs in SherpaModelService.cs).        *)
(*                                                                         *)
(* One model and the token of its voice.  A rename fails if the target     *)
(* exists, as on Windows, or for reasons of its own, above all because     *)
(* the directory is in use.  The window may download the model under its   *)
(* canonical ID, which the catalogue names, and give up on the way.        *)
(***************************************************************************)
EXTENDS WrapperLoader

VARIABLES
    dir,        \* what the directory of each ID holds
    path,       \* the directory that the token names
    id,         \* id[t]: the modelId thread t passes to the wrapper
    scan,       \* where the window's scan is
    disturbed   \* history: threads during whose InitVoice another moved the model

migration == <<dir, path, id, scan, disturbed>>

Ids == {"legacy", "canonical"}
Installed == {i \in Ids : dir[i] # "none"}

MigrationTypes ==
    /\ dir \in [Ids -> {"none", "partial", "whole"}]
    /\ path \in Ids
    /\ id \in [Threads -> Ids]
    /\ scan \in {"idle", "moving"}
    /\ disturbed \subseteq Threads

\* Installed before the IDs were renamed; the window may have downloaded
\* some of it again.
MigrationInit ==
    /\ \E other \in {"none", "partial", "whole"} :
         dir = [i \in Ids |-> IF i = "legacy" THEN "whole" ELSE other]
    /\ path = "legacy"
    /\ id = [t \in Threads |-> "legacy"]
    /\ scan = "idle"
    /\ disturbed = {}

\* The legacy directory gets the canonical name; others in their migration
\* may have looked before.
Moves(others) ==
    /\ Installed = {"legacy"}
    /\ dir' = [i \in Ids |-> IF i = "canonical" THEN dir["legacy"] ELSE "none"]
    /\ disturbed' = disturbed \union {u \in others : at[u] \in Migrating \union {"calling"}}
-----------------------------------------------------------------------------
(* A voice. *)

\* The token's path says which modelId it is.
ReadsPath(t) ==
    /\ at[t] = "reading"
    /\ id' = [id EXCEPT ![t] = path]
    /\ disturbed' = disturbed \ {t}
    /\ Goes(t, IF path = "legacy" THEN "looking" ELSE "calling")
    /\ UNCHANGED <<dir, path, scan>>

Looks(t) ==
    /\ at[t] = "looking"
    /\ Goes(t, IF "canonical" \in Installed THEN "rewriting" ELSE "looking2")
    /\ UNCHANGED migration

\* Nothing under either name: the wrapper is left to report it.
LooksForLegacy(t) ==
    /\ at[t] = "looking2"
    /\ Goes(t, IF "legacy" \in Installed THEN "renaming" ELSE "calling")
    /\ UNCHANGED migration

Renames(t) ==
    /\ at[t] = "renaming"
    /\ Moves(Threads \ {t})
    /\ Goes(t, "rewriting")
    /\ UNCHANGED <<path, id, scan>>

\* Mutant: the error is not looked at.
RenameErrorIgnored(t) ==
    /\ at[t] = "renaming"
    /\ Goes(t, "rewriting")
    /\ UNCHANGED migration

CannotRename(t) ==
    /\ at[t] = "renaming"
    /\ Goes(t, "calling")
    /\ UNCHANGED migration

\* The canonical ID is used from here on, and the token's paths are rewritten
\* if the client may write HKLM.
Rewrites(t, allowed) ==
    /\ at[t] = "rewriting"
    /\ id' = [id EXCEPT ![t] = "canonical"]
    /\ path' = IF allowed THEN "canonical" ELSE path
    /\ Goes(t, "calling")
    /\ UNCHANGED <<dir, scan, disturbed>>

MigrationSteps(t) ==
    \/ ReadsPath(t) \/ Looks(t) \/ LooksForLegacy(t)
    \/ Renames(t) \/ CannotRename(t)
    \/ \E allowed \in BOOLEAN : Rewrites(t, allowed)
-----------------------------------------------------------------------------
(* The window. *)

ScanLooks ==
    /\ scan = "idle"
    /\ Installed = {"legacy"}
    /\ scan' = "moving"
    /\ UNCHANGED <<dir, path, id, disturbed>>

ScanMoves ==
    /\ scan = "moving" /\ scan' = "idle"
    /\ \/ Moves(Threads)
       \/ UNCHANGED <<dir, disturbed>>
    /\ UNCHANGED <<path, id>>

\* A download of the canonical model goes on, or is complete.
Downloads(content) ==
    /\ dir["canonical"] # "whole"
    /\ dir' = [dir EXCEPT !["canonical"] = content]
    /\ disturbed' = disturbed \union {t \in Threads : at[t] \in Migrating \union {"calling"}}
    /\ UNCHANGED <<path, id, scan>>

WindowSteps ==
    /\ \/ ScanLooks \/ ScanMoves
       \/ \E content \in {"partial", "whole"} : Downloads(content)
    /\ UNCHANGED loader
-----------------------------------------------------------------------------
(* Properties. *)

\* "On failure the stale path still resolves next time because this migration
\* runs on every voice initialisation": whatever renames and rewrites have
\* failed or crossed, the model is there as a whole, and unless an abandoned
\* download is in the way, the wrapper is sent to it - by every voice during
\* whose initialisation nobody else moved the model.
StalePathResolves ==
    /\ \E i \in Ids : dir[i] = "whole"
    /\ dir["canonical"] # "partial" =>
         /\ dir[path] = "whole" \/ path = "legacy"
         /\ \A t \in Threads \ disturbed : at[t] = "calling" => dir[id[t]] = "whole"
=============================================================================
