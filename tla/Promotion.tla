------------------------------ MODULE Promotion ------------------------------
(***************************************************************************)
(* Installing voices as SAPI tokens in HKLM and removing them again:       *)
(* the Promote, PromoteSelected and UnpromoteSelected commands of the      *)
(* Voices tab (VoicesViewModel.cs), what they call in                      *)
(* VoicePromotionService.cs and SherpaModelService.cs, and the command     *)
(* line that does the same from another process (CliDispatcher.cs).        *)
(*                                                                         *)
(* An elevated process writes HKLM itself, one token after the other.  Any *)
(* other writes a .reg file under a fixed name and starts an elevated      *)
(* reg.exe, which reads the file after the user has answered the UAC       *)
(* prompt.  A command never overlaps itself, but the three commands        *)
(* overlap each other.  Rows are brought up to date by                     *)
(* RefreshInstalledStatus, which reads the registry on a pool thread and   *)
(* marks the rows later on the UI thread; a load also replaces them, so    *)
(* that a command may mark rows that are no longer listed.                 *)
(*                                                                         *)
(* A voice has a primary token and, as the Advanced settings say, alias    *)
(* tokens.  A token here stands for its pair of keys under Speech and      *)
(* Speech_OneCore.  All Sherpa models are downloaded, a load lists every   *)
(* voice, and there is one load at a time: those that overlap are the      *)
(* matter of VoicesTab.                                                    *)
(***************************************************************************)
EXTENDS Naturals, FiniteSets

CONSTANTS Sherpa, Cloud,   \* the voices
          Foreign,         \* those of a language other than English
          Rtl,             \* those of a right-to-left language
          MaxActions       \* bound: what the user does in all

Voices == Sherpa \union Cloud

ASSUME VoicesAssumption ==
    Sherpa \intersect Cloud = {} /\ Rtl \subseteq Foreign /\ Foreign \subseteq Voices

ASSUME MaxActionsAssumption == MaxActions \in Nat

Commands == {"Promote", "PromoteSelected", "UnpromoteSelected"}
Promoting == {"Promote", "PromoteSelected"}
Writers == Commands \union {"Cli"}
Refreshes == {"RefreshInstalled", "LoadVoices"}
Readers == Refreshes \union {"PromoteSelected"}
Files == {"promote_selected", "promote_voice", "unpromote_voice"}
Aliases == {"enUS", "ar"}
Tokens == Voices \X ({"primary"} \union Aliases)

\* What a .reg file does: tokens it deletes, then tokens it writes.
Batches == [del : SUBSET Tokens, add : SUBSET Tokens]
NoBatch == [del |-> {}, add |-> {}]

VARIABLES
    admin,      \* does the window run elevated?
    enUs,       \* SapiAliasEnUs
    arabic,     \* SapiAliasArabic
    tokens,     \* tokens in HKLM
    file,       \* file[f]: what .reg file f does, NoBatch if there is none
    pc,         \* pc[c]: where command c is
    work,       \* work[c]: voices it has still to do
    job,        \* job[c]: voices it is doing
    ok,         \* ok[c]: has that worked?
    late,       \* late[c]: an import of c that was given up but still runs
    rest,       \* rest[w]: voices w has still to write to HKLM itself
    on,         \* on[w]: the voice it is writing or removing, if any
    stage,      \* stage[w]: which of the voice's tokens are next
    left,       \* left[w]: aliases that are still to come in this stage
    at,         \* at[r]: where RefreshInstalled and LoadVoices are
    listed,     \* what ListPromoted returned, per reader
    loading,    \* IsLoading
    stale,      \* commands whose rows are no longer listed
    installed,  \* rows marked IsInstalled
    written,    \* history: written[v], the aliases v was last installed with
    torn,       \* history: voices written and removed at the same time, or by halves
    excused,    \* history: has something come between rows and registry?
    actions     \* what the user has done so far

settings == <<admin, enUs, arabic>>
hklm == <<tokens, written, torn>>
progress == <<pc, work, job, ok>>
direct == <<rest, on, stage, left>>
reader == <<at, listed>>
rows == <<loading, stale, installed>>
vars == <<settings, hklm, file, progress, late, direct, reader, rows, excused, actions>>

TypeOK ==
    /\ admin \in BOOLEAN /\ enUs \in BOOLEAN /\ arabic \in BOOLEAN
    /\ tokens \subseteq Tokens
    /\ file \in [Files -> Batches]
    /\ pc \in [Commands -> {"idle", "working", "writing", "written", "asking", "imported",
                            "applying"}]
    /\ work \in [Commands -> SUBSET Voices]
    /\ job \in [Commands -> SUBSET Voices]
    /\ \A c \in Commands :
        /\ pc[c] \in {"writing", "written", "asking", "imported"} <=> job[c] # {}
        /\ job[c] \intersect work[c] = {}
    /\ ok \in [Commands -> BOOLEAN]
    /\ late \in [Commands -> Batches]
    /\ rest \in [Writers -> SUBSET Voices]
    /\ on \in [Writers -> SUBSET Voices]
    /\ stage \in [Writers -> {"none", "drops", "writes", "adds", "erases", "clears"}]
    /\ \A w \in Writers : stage[w] = "none" <=> on[w] = {}
    /\ left \in [Writers -> SUBSET Aliases]
    /\ at \in [Refreshes -> {"no", "rows", "read"}]
    /\ listed \in [Readers -> SUBSET Voices]
    /\ loading \in BOOLEAN
    /\ stale \subseteq Commands
    /\ installed \subseteq Voices
    /\ written \in [Voices -> SUBSET Aliases]
    /\ torn \subseteq Voices
    /\ excused \in BOOLEAN
    /\ actions \in 0 .. MaxActions

Init ==
    /\ admin \in BOOLEAN
    /\ enUs = TRUE
    /\ arabic = TRUE
    /\ tokens = {}
    /\ file = [f \in Files |-> NoBatch]
    /\ pc = [c \in Commands |-> "idle"]
    /\ work = [c \in Commands |-> {}]
    /\ job = [c \in Commands |-> {}]
    /\ ok = [c \in Commands |-> FALSE]
    /\ late = [c \in Commands |-> NoBatch]
    /\ rest = [w \in Writers |-> {}]
    /\ on = [w \in Writers |-> {}]
    /\ stage = [w \in Writers |-> "none"]
    /\ left = [w \in Writers |-> {}]
    /\ at = [r \in Refreshes |-> "no"]
    /\ listed = [r \in Readers |-> {}]
    /\ loading = FALSE
    /\ stale = {}
    /\ installed = {}
    /\ written = [v \in Voices |-> {}]
    /\ torn = {}
    /\ excused = FALSE
    /\ actions = 0

-----------------------------------------------------------------------------
\* SapiAliasSettings.AliasesFor.
AliasesFor(v) ==
    {n \in {"enUS"} : v \in Foreign /\ enUs} \union {n \in {"ar"} : v \in Rtl /\ arabic}

\* AppendModelToReg, and its counterpart for cloud voices: the enabled
\* aliases are deleted, then everything is written.
Installs(J) ==
    [del |-> {t \in Tokens : t[1] \in J /\ t[2] \in AliasesFor(t[1])},
     add |-> {t \in Tokens : t[1] \in J /\ t[2] \in {"primary"} \union AliasesFor(t[1])}]

\* Mutant: only the primary token is removed.
RemovesPrimary(J) ==
    [del |-> {t \in Tokens : t[1] \in J /\ t[2] = "primary"}, add |-> {}]

\* TokenNameFamily.
Removes(J) == [del |-> {t \in Tokens : t[1] \in J}, add |-> {}]

Promoted == {v \in Voices : <<v, "primary">> \in tokens}
AliasesIn(set, v) == {n \in Aliases : <<v, n>> \in set}
Touches(b, v) == \E t \in b.del \union b.add : t[1] = v

\* The registry after a batch, and the history of what it wrote.
Imports(b) ==
    /\ tokens' = (tokens \ b.del) \union b.add
    /\ written' = [v \in Voices |->
                     IF <<v, "primary">> \in b.add THEN AliasesIn(b.add, v)
                     ELSE IF <<v, "primary">> \in b.del THEN {} ELSE written[v]]
    /\ torn' = torn \union {v \in Voices : Touches(b, v) /\ \E w \in Writers : v \in on[w]}

Batch(c, J) == IF c \in Promoting THEN Installs(J) ELSE Removes(J)

FileOf(c, J) ==
    IF c \notin Promoting THEN "unpromote_voice"
    ELSE IF J \subseteq Sherpa THEN "promote_selected" ELSE "promote_voice"

-----------------------------------------------------------------------------
(* HKLM written directly: PromoteSherpaModel, Promote and Unpromote, one   *)
(* voice of the writer's list after the other, one token after the other.  *)

Removing(w) == stage[w] \in {"erases", "clears"}

\* A voice is begun.  It is torn if another writer is just doing the opposite.
Starts(w, v, removes) ==
    /\ on[w] = {}
    /\ on' = [on EXCEPT ![w] = {v}]
    /\ stage' = [stage EXCEPT ![w] = IF removes THEN "erases"
                                     ELSE IF v \in Sherpa THEN "drops" ELSE "writes"]
    /\ left' = [left EXCEPT ![w] = IF ~removes /\ v \in Sherpa THEN AliasesFor(v) ELSE {}]
    /\ torn' = IF \E u \in Writers : v \in on[u] /\ Removing(u) # removes
                 THEN torn \union {v} ELSE torn
    /\ UNCHANGED <<tokens, written>>

NextVoice(w, v) ==
    /\ v \in rest[w]
    /\ rest' = [rest EXCEPT ![w] = @ \ {v}]
    /\ Starts(w, v, w = "UnpromoteSelected")
    /\ UNCHANGED <<settings, file, progress, late, reader, rows, excused, actions>>

\* One alias is dropped, added or deleted.
NextAlias(w, v) ==
    LET n == IF "enUS" \in left[w] THEN "enUS" ELSE "ar" IN
    /\ v \in on[w]
    /\ stage[w] \in {"drops", "adds", "clears"} /\ left[w] # {}
    /\ tokens' = IF stage[w] = "adds" THEN tokens \union {<<v, n>>} ELSE tokens \ {<<v, n>>}
    /\ left' = [left EXCEPT ![w] = @ \ {n}]
    /\ UNCHANGED <<settings, written, torn, file, progress, late, rest, on, stage, reader, rows,
                   excused, actions>>

\* The primary token; AliasesFor is asked again for the aliases.  The
\* command line knows no language of a cloud voice and gives it no alias.
WritePrimary(w, v) ==
    /\ v \in on[w]
    /\ stage[w] = "writes" \/ (stage[w] = "drops" /\ left[w] = {})
    /\ tokens' = tokens \union {<<v, "primary">>}
    /\ stage' = [stage EXCEPT ![w] = "adds"]
    /\ left' = [left EXCEPT ![w] = IF w = "Cli" /\ v \in Cloud THEN {} ELSE AliasesFor(v)]
    /\ written' = [written EXCEPT ![v] = left'[w]]
    /\ UNCHANGED <<settings, torn, file, progress, late, rest, on, reader, rows, excused, actions>>

ErasePrimary(w, v) ==
    /\ v \in on[w]
    /\ stage[w] = "erases"
    /\ tokens' = tokens \ {<<v, "primary">>}
    /\ stage' = [stage EXCEPT ![w] = "clears"]
    /\ left' = [left EXCEPT ![w] = Aliases]
    /\ written' = [written EXCEPT ![v] = {}]
    /\ UNCHANGED <<settings, torn, file, progress, late, rest, on, reader, rows, excused, actions>>

VoiceDone(w) ==
    /\ stage[w] \in {"adds", "clears"}
    /\ left[w] = {}
    /\ on' = [on EXCEPT ![w] = {}]
    /\ stage' = [stage EXCEPT ![w] = "none"]
    /\ UNCHANGED <<settings, hklm, file, progress, late, rest, left, reader, rows, excused, actions>>

\* A write or a deletion throws, at any point; the next voice has its turn.
VoiceFails(w) ==
    /\ stage[w] # "none"
    /\ on' = [on EXCEPT ![w] = {}]
    /\ stage' = [stage EXCEPT ![w] = "none"]
    /\ left' = [left EXCEPT ![w] = {}]
    /\ torn' = torn \union on[w]
    /\ ok' = [c \in Commands |-> ok[c] /\ c # w]
    /\ excused' = TRUE
    /\ UNCHANGED <<settings, tokens, written, file, pc, work, job, late, rest, reader, rows, actions>>

-----------------------------------------------------------------------------
(* The commands. *)

\* Each thing the user does counts against the bound.
Acts == actions < MaxActions /\ actions' = actions + 1

\* Two commands do opposite things to the same voice.
Crosses(c, J) ==
    \E d \in Commands :
        (c \in Promoting) # (d \in Promoting) /\ J \intersect (work[d] \union job[d]) # {}

\* Promote is for one row that is not installed, PromoteSelected for the
\* selected ones among these, UnpromoteSelected for selected installed ones.
CommandBegins(c, J) ==
    /\ pc[c] = "idle"
    /\ J # {}
    /\ IF c \in Promoting THEN J \intersect installed = {} ELSE J \subseteq installed
    /\ c = "Promote" => Cardinality(J) = 1
    /\ pc' = [pc EXCEPT ![c] = "working"]
    /\ work' = [work EXCEPT ![c] = J]
    /\ loading' = TRUE
    /\ stale' = stale \ {c}
    /\ excused' = (excused \/ Crosses(c, J))
    /\ Acts
    /\ UNCHANGED <<settings, hklm, file, job, ok, late, direct, reader, installed>>

\* Mutant: a voice that is being done stays on the list.
NextJobKept(c, J) ==
    /\ pc[c] = "working"
    /\ IF c \in Promoting /\ work[c] \intersect Sherpa # {}
         THEN J = work[c] \intersect Sherpa
         ELSE \E v \in work[c] : J = {v}
    /\ UNCHANGED work
    /\ job' = [job EXCEPT ![c] = J]

\* PromoteSelected does its Sherpa models in one go and before anything else,
\* the rest is done one by one.
NextJob(c, J) ==
    /\ pc[c] = "working"
    /\ IF c \in Promoting /\ work[c] \intersect Sherpa # {}
         THEN J = work[c] \intersect Sherpa
         ELSE \E v \in work[c] : J = {v}
    /\ work' = [work EXCEPT ![c] = @ \ J]
    /\ job' = [job EXCEPT ![c] = J]

\* HKLM can be written.
DirectBegins(c, J) ==
    /\ NextJob(c, J)
    /\ admin
    /\ rest' = [rest EXCEPT ![c] = J]
    /\ ok' = [ok EXCEPT ![c] = TRUE]
    /\ pc' = [pc EXCEPT ![c] = "writing"]
    /\ UNCHANGED <<settings, hklm, file, late, on, stage, left, reader, rows, excused, actions>>

DirectOver(c) == pc[c] = "writing" /\ rest[c] = {} /\ on[c] = {}

DirectDone(c) ==
    /\ DirectOver(c)
    /\ ok[c]
    /\ pc' = [pc EXCEPT ![c] = "written"]
    /\ UNCHANGED <<settings, hklm, file, work, job, ok, late, direct, reader, rows, excused, actions>>

\* HKLM cannot be written, but DeleteSubKeyTree complains of no key that is
\* not there, nor need it of one it may not open.
RemovesNothing(c, J) ==
    /\ NextJob(c, J)
    /\ ~admin /\ c \notin Promoting
    /\ ok' = [ok EXCEPT ![c] = TRUE]
    /\ pc' = [pc EXCEPT ![c] = "written"]
    /\ excused' = (excused \/ tokens \intersect Removes(J).del # {})
    /\ UNCHANGED <<settings, hklm, file, late, direct, reader, rows, actions>>

\* HKLM could not be written: the .reg file is, over any other of its name,
\* and Process.Start asks for elevation.
WriteReg(c, J) ==
    /\ \/ ~admin /\ NextJob(c, J) /\ (c \in Promoting \/ tokens \intersect Removes(J).del # {})
       \/ DirectOver(c) /\ ~ok[c] /\ J = job[c] /\ UNCHANGED <<work, job>>
    /\ file' = [file EXCEPT ![FileOf(c, J)] = Batch(c, J)]
    /\ excused' = (excused \/ file[FileOf(c, J)] # NoBatch)
    /\ pc' = [pc EXCEPT ![c] = "asking"]
    /\ UNCHANGED <<settings, hklm, ok, late, direct, reader, rows, actions>>

\* The user agrees; reg.exe imports what the file holds by now.
Import(c) ==
    /\ pc[c] = "asking"
    /\ file[FileOf(c, job[c])] # NoBatch
    /\ Imports(file[FileOf(c, job[c])])
    /\ ok' = [ok EXCEPT ![c] = TRUE]
    /\ pc' = [pc EXCEPT ![c] = "imported"]
    /\ UNCHANGED <<settings, file, work, job, late, direct, reader, rows, excused, actions>>

\* Mutant: a refused prompt counts as success.
ImportFailsUnnoticed(c) ==
    /\ pc[c] = "asking"
    /\ ok' = [ok EXCEPT ![c] = TRUE]
    /\ pc' = [pc EXCEPT ![c] = "imported"]
    /\ UNCHANGED <<settings, hklm, file, work, job, late, direct, reader, rows, excused, actions>>

\* The user refuses, or reg.exe fails, as it does when the file is gone.
ImportFails(c) ==
    /\ pc[c] = "asking"
    /\ ok' = [ok EXCEPT ![c] = FALSE]
    /\ pc' = [pc EXCEPT ![c] = "imported"]
    /\ UNCHANGED <<settings, hklm, file, work, job, late, direct, reader, rows, excused, actions>>

\* WaitForExit times out and ExitCode throws: reg.exe goes on by itself.
ImportLate(c) ==
    /\ pc[c] = "asking"
    /\ file[FileOf(c, job[c])] # NoBatch
    /\ late[c] = NoBatch
    /\ late' = [late EXCEPT ![c] = file[FileOf(c, job[c])]]
    /\ ok' = [ok EXCEPT ![c] = FALSE]
    /\ pc' = [pc EXCEPT ![c] = "imported"]
    /\ excused' = TRUE
    /\ UNCHANGED <<settings, hklm, file, work, job, direct, reader, rows, actions>>

LateImportEnds(c) ==
    /\ late[c] # NoBatch
    /\ Imports(late[c])
    /\ late' = [late EXCEPT ![c] = NoBatch]
    /\ UNCHANGED <<settings, file, progress, direct, reader, rows, excused, actions>>

\* The file is deleted, Promote and UnpromoteSelected mark the row they were
\* given, listed or not.  PromoteSelected reads the registry at its end.
Conclude(c) ==
    /\ pc[c] \in {"written", "imported"}
    /\ file' = IF pc[c] = "imported" THEN [file EXCEPT ![FileOf(c, job[c])] = NoBatch] ELSE file
    /\ IF ok[c] /\ c # "PromoteSelected"
         THEN IF c \in stale
                THEN UNCHANGED installed /\ excused' = TRUE
                ELSE /\ installed' = IF c = "Promote" THEN installed \union job[c]
                                     ELSE installed \ job[c]
                     /\ UNCHANGED excused
         ELSE UNCHANGED <<installed, excused>>
    /\ job' = [job EXCEPT ![c] = {}]
    /\ pc' = [pc EXCEPT ![c] = IF work[c] # {} THEN "working"
                               ELSE IF c = "PromoteSelected" THEN "applying" ELSE "idle"]
    /\ loading' = (loading /\ pc'[c] # "idle")
    /\ listed' = IF c = "PromoteSelected" /\ work[c] = {}
                   THEN [listed EXCEPT ![c] = Promoted] ELSE listed
    /\ UNCHANGED <<settings, hklm, work, ok, late, direct, at, stale, actions>>

-----------------------------------------------------------------------------
(* RefreshInstalledStatus. *)

Still == \A c \in Commands : late[c] = NoBatch
CliIdle == on["Cli"] = {} /\ rest["Cli"] = {}
Idle == Still /\ CliIdle /\ \A c \in Commands : pc[c] = "idle"

\* The rows are marked as of the time the registry was read.
Marks(r, others) ==
    /\ installed' = listed[r]
    /\ listed' = [listed EXCEPT ![r] = {}]
    /\ excused' = IF listed[r] # Promoted THEN TRUE ELSE excused /\ others

PromoteSelectedMarks ==
    /\ pc["PromoteSelected"] = "applying"
    /\ Marks("PromoteSelected",
             ~Still \/ ~CliIdle \/ \E c \in Commands \ {"PromoteSelected"} : pc[c] # "idle")
    /\ pc' = [pc EXCEPT !["PromoteSelected"] = "idle"]
    /\ loading' = FALSE
    /\ UNCHANGED <<settings, hklm, file, work, job, ok, late, direct, at, stale, actions>>

\* LoadVoices replaces the rows; the new ones are not marked yet.
LoadReplaces ==
    /\ ~loading
    /\ at["LoadVoices"] = "no"
    /\ loading' = TRUE
    /\ stale' = {c \in Commands : pc[c] # "idle"}
    /\ installed' = {}
    /\ at' = [at EXCEPT !["LoadVoices"] = "rows"]
    /\ Acts
    /\ UNCHANGED <<settings, hklm, file, progress, late, direct, listed, excused>>

RefreshReads(r) ==
    /\ IF r = "LoadVoices" THEN at[r] = "rows" /\ UNCHANGED actions ELSE at[r] = "no" /\ Acts
    /\ at' = [at EXCEPT ![r] = "read"]
    /\ listed' = [listed EXCEPT ![r] = Promoted]
    /\ UNCHANGED <<settings, hklm, file, progress, late, direct, rows, excused>>

RefreshMarks(r) ==
    /\ at[r] = "read"
    /\ Marks(r, ~Idle)
    /\ at' = [at EXCEPT ![r] = "no"]
    /\ loading' = (loading /\ r # "LoadVoices")
    /\ UNCHANGED <<settings, hklm, file, progress, late, direct, stale, actions>>

-----------------------------------------------------------------------------
(* The Advanced tab and the command line. *)

ToggleEnUs ==
    /\ enUs' = ~enUs
    /\ Acts
    /\ UNCHANGED <<admin, arabic, hklm, file, progress, late, direct, reader, rows, excused>>

ToggleArabic ==
    /\ arabic' = ~arabic
    /\ Acts
    /\ UNCHANGED <<admin, enUs, hklm, file, progress, late, direct, reader, rows, excused>>

\* An elevated prompt.
Cli ==
    /\ CliIdle
    /\ excused' = TRUE
    /\ Acts
    /\ UNCHANGED <<settings, file, progress, late, reader, rows>>

\* "models promote-all".
CliPromoteAll ==
    /\ Cli
    /\ rest' = [rest EXCEPT !["Cli"] = Sherpa]
    /\ UNCHANGED <<hklm, on, stage, left>>

\* "promote".
CliPromote(v) == Cli /\ Starts("Cli", v, FALSE) /\ UNCHANGED rest

\* "unpromote".
CliUnpromote(v) == Cli /\ Starts("Cli", v, TRUE) /\ UNCHANGED rest

-----------------------------------------------------------------------------
CommandSteps(c) ==
    \/ \E J \in SUBSET Voices :
         CommandBegins(c, J) \/ DirectBegins(c, J) \/ RemovesNothing(c, J) \/ WriteReg(c, J)
    \/ DirectDone(c)
    \/ Import(c) \/ ImportFails(c) \/ ImportLate(c) \/ LateImportEnds(c) \/ Conclude(c)

WriterSteps(w) ==
    \/ \E v \in Voices :
         NextVoice(w, v) \/ NextAlias(w, v) \/ WritePrimary(w, v) \/ ErasePrimary(w, v)
    \/ VoiceDone(w) \/ VoiceFails(w)

Next ==
    \/ \E c \in Commands : CommandSteps(c)
    \/ \E w \in Writers : WriterSteps(w)
    \/ PromoteSelectedMarks
    \/ LoadReplaces
    \/ \E r \in Refreshes : RefreshReads(r) \/ RefreshMarks(r)
    \/ ToggleEnUs \/ ToggleArabic
    \/ CliPromoteAll
    \/ \E v \in Cloud : CliPromote(v)
    \/ \E v \in Voices : CliUnpromote(v)

Spec == Init /\ [][Next]_vars
-----------------------------------------------------------------------------
(* Properties. *)

\* When nothing is under way, the rows marked as installed are the voices
\* with a token, and a refresh or a load makes them so again: unless a .reg
\* file was replaced before it was imported, two commands crossed on one
\* voice, an import came late, a direct write broke off, a refused deletion
\* passed for one of nothing, a command finished on rows that a load had
\* replaced meanwhile, the registry changed between a refresh's look at it
\* and its marks, or the command line was used.
RowsTellTheTruth ==
    Idle /\ (\A r \in Refreshes : at[r] = "no") /\ ~excused => installed = Promoted

\* No alias is left without its voice: it is alone only while the voice is
\* being removed, or when a write of the voice broke off or was overtaken by
\* its removal.
NoOrphanAlias ==
    \A v \in Voices \ torn :
        AliasesIn(tokens, v) # {} =>
            v \in Promoted \/ \E w \in Writers : v \in on[w] /\ stage[w] = "clears"

\* "Drop stale aliases first so settings changes apply on re-promote": an
\* installed voice has the aliases that were enabled when it was installed,
\* once nobody is writing it.
AliasesFollowSettings ==
    \A v \in Promoted \ torn :
        (\A w \in Writers : v \notin on[w]) => AliasesIn(tokens, v) = written[v]
=============================================================================
