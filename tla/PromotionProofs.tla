--------------------------- MODULE PromotionProofs ---------------------------
(***************************************************************************)
(* Theorems about Promotion, for any voices and any number of actions.     *)
(*                                                                         *)
(* No orphan: a batch writes a voice's primary token before an alias of    *)
(* it, and deletes no primary token without its aliases; a direct write    *)
(* does so token by token, and unless the voice is torn no other writer    *)
(* does the opposite meanwhile.  True rows: as long as nothing excuses     *)
(* them, no two commands work on the same voice to opposite ends, each     *)
(* .reg file does what the one command that waits for it wants, and rows   *)
(* and registry differ by what a command has done and not yet marked or a  *)
(* load has not yet read.  The last part is about the aliases an installed *)
(* voice has.                                                              *)
(***************************************************************************)
EXTENDS Promotion, TLAPS

\* Voices whose primary token is in a set.
Primaries(set) == {v \in Voices : <<v, "primary">> \in set}

\* A batch that leaves no alias without its voice.
Sound(b) ==
    \A v \in Voices :
        /\ AliasesIn(b.add, v) # {} => v \in Primaries(b.add)
        /\ v \in Primaries(b.del) => v \in Primaries(b.add) \/ AliasesIn(b.del, v) = Aliases

\* What installing and removing do, in tokens of each kind.
LEMMA BatchFacts ==
    ASSUME NEW J \in SUBSET Voices
    PROVE  /\ Installs(J) \in Batches /\ Sound(Installs(J))
           /\ Primaries(Installs(J).add) = J /\ Primaries(Installs(J).del) = {}
           /\ Removes(J) \in Batches /\ Sound(Removes(J))
           /\ Removes(J).add = {} /\ Primaries(Removes(J).del) = J
           /\ NoBatch \in Batches /\ Sound(NoBatch) /\ Primaries(NoBatch.add) = {}
           /\ Primaries(NoBatch.del) = {}
<1> USE DEF Batches, Sound, Primaries, AliasesIn
<1>1. \A v \in Voices : \A n \in {"primary"} \union Aliases : <<v, n>> \in Tokens BY DEF Tokens
<1>2. \A v \in Voices : AliasesFor(v) \subseteq Aliases /\ "primary" \notin AliasesFor(v)
  BY DEF AliasesFor, Aliases
<1>3. "primary" \notin Aliases BY DEF Aliases
<1>4. /\ Installs(J) \in Batches
      /\ Primaries(Installs(J).add) = J /\ Primaries(Installs(J).del) = {}
  BY <1>1, <1>2 DEF Installs
<1>5. Sound(Installs(J)) BY <1>1, <1>2, <1>3, <1>4 DEF Installs
<1>6. /\ Removes(J) \in Batches /\ Removes(J).add = {} /\ Primaries(Removes(J).del) = J
  BY <1>1 DEF Removes
<1>7. Sound(Removes(J)) BY <1>1, <1>6 DEF Removes
<1>8. /\ NoBatch \in Batches /\ Sound(NoBatch)
      /\ Primaries(NoBatch.add) = {} /\ Primaries(NoBatch.del) = {}
  BY DEF NoBatch
<1> QED BY <1>4, <1>5, <1>6, <1>7, <1>8

\* What an import does to the registry.
LEMMA ImportFacts ==
    ASSUME tokens \subseteq Tokens, written \in [Voices -> SUBSET Aliases], torn \subseteq Voices,
           NEW b \in Batches, Imports(b)
    PROVE  /\ tokens' \subseteq Tokens
           /\ written' \in [Voices -> SUBSET Aliases]
           /\ torn' \subseteq Voices
           /\ Promoted' = (Promoted \ Primaries(b.del)) \union Primaries(b.add)
<1> USE DEF Imports, Batches, Primaries, Promoted
<1>1. tokens' \subseteq Tokens OBVIOUS
<1>2. written' \in [Voices -> SUBSET Aliases] BY DEF AliasesIn
<1>3. Promoted' = (Promoted \ Primaries(b.del)) \union Primaries(b.add) OBVIOUS
<1>4. torn' \subseteq Voices OBVIOUS
<1> QED BY <1>1, <1>2, <1>3, <1>4

-----------------------------------------------------------------------------
(* Types, and who holds what. *)

\* A command without voices to do is over, and only PromoteSelected applies
\* anything.
WorkInv ==
    \A c \in Commands :
        /\ pc[c] \in {"idle", "applying"} => work[c] = {}
        /\ pc[c] = "applying" => c = "PromoteSelected"

\* A writer has one voice at a time, a command only voices of its job, and
\* only UnpromoteSelected and the command line remove.
HandInv ==
    /\ \A w \in Writers : \A u, v \in on[w] : u = v
    /\ \A c \in Commands :
        /\ rest[c] \union on[c] \subseteq job[c]
        /\ rest[c] \union on[c] # {} => pc[c] = "writing"
        /\ on[c] # {} => (Removing(c) <=> c = "UnpromoteSelected")

BatchInv ==
    /\ \A f \in Files : Sound(file[f])
    /\ \A c \in Commands : Sound(late[c])

SafeInv == TypeOK /\ WorkInv /\ HandInv /\ BatchInv

\* What a command does next is a part of its work.
LEMMA JobFacts ==
    ASSUME SafeInv, NEW c \in Commands, NEW J \in SUBSET Voices, NextJob(c, J)
    PROVE  /\ J \subseteq work[c] /\ J # {} /\ pc[c] = "working" /\ job[c] = {}
           /\ rest[c] = {} /\ on[c] = {}
           /\ work' = [work EXCEPT ![c] = @ \ J] /\ job' = [job EXCEPT ![c] = J]
<1>1. pc[c] = "working" /\ job[c] = {} BY DEF NextJob, SafeInv, TypeOK
<1>2. rest[c] = {} /\ on[c] = {} BY <1>1 DEF SafeInv, HandInv
<1>3. J \subseteq work[c] /\ J # {}
  <2>1. CASE J = work[c] \intersect Sherpa /\ J # {} BY <2>1
  <2>2. CASE \E v \in work[c] : J = {v} BY <2>2
  <2> QED BY <2>1, <2>2 DEF NextJob
<1> QED BY <1>1, <1>2, <1>3 DEF NextJob

LEMMA FileIsOne ==
    ASSUME NEW c, NEW J \in SUBSET Voices
    PROVE  FileOf(c, J) \in Files /\ Batch(c, J) \in Batches /\ Sound(Batch(c, J))
BY BatchFacts DEF FileOf, Files, Batch

\* The steps of a command.
LEMMA CommandKeepsSafe ==
    ASSUME SafeInv, NEW c \in Commands, CommandSteps(c)
    PROVE  SafeInv'
<1> USE DEF SafeInv, TypeOK, WorkInv, HandInv, Removing,
            settings, hklm, progress, direct, reader, rows
<1>0. NoBatch \in Batches /\ Sound(NoBatch) BY BatchFacts
<1>c. Commands \subseteq Writers BY DEF Writers
<1>1. ASSUME NEW J \in SUBSET Voices, CommandBegins(c, J) PROVE SafeInv'
  <2>1. actions' \in 0 .. MaxActions BY <1>1, MaxActionsAssumption DEF CommandBegins, Acts
  <2>2. excused' \in BOOLEAN /\ loading' \in BOOLEAN BY <1>1 DEF CommandBegins
  <2>3. stale' \subseteq Commands BY <1>1 DEF CommandBegins
  <2>4. HandInv' BY <1>1 DEF CommandBegins
  <2> QED BY <1>1, <2>1, <2>2, <2>3, <2>4 DEF CommandBegins, Acts, BatchInv
<1>2. ASSUME NEW J \in SUBSET Voices, DirectBegins(c, J) PROVE SafeInv'
  <2>1. /\ J \subseteq work[c] /\ J # {} /\ pc[c] = "working" /\ job[c] = {}
        /\ rest[c] = {} /\ on[c] = {}
        /\ work' = [work EXCEPT ![c] = @ \ J] /\ job' = [job EXCEPT ![c] = J]
    BY <1>2, JobFacts DEF DirectBegins
  <2>2. ok' \in [Commands -> BOOLEAN] BY <1>2 DEF DirectBegins
  <2>3. rest' \in [Writers -> SUBSET Voices] BY <1>2, <1>c DEF DirectBegins
  <2>4. HandInv' BY <1>2, <2>1, <1>c DEF DirectBegins
  <2> QED BY <1>2, <2>1, <2>2, <2>3, <2>4 DEF DirectBegins, BatchInv
<1>3. ASSUME NEW J \in SUBSET Voices, RemovesNothing(c, J) PROVE SafeInv'
  <2>1. /\ J \subseteq work[c] /\ J # {} /\ pc[c] = "working" /\ job[c] = {}
        /\ rest[c] = {} /\ on[c] = {}
        /\ work' = [work EXCEPT ![c] = @ \ J] /\ job' = [job EXCEPT ![c] = J]
    BY <1>3, JobFacts DEF RemovesNothing
  <2>2. ok' \in [Commands -> BOOLEAN] /\ excused' \in BOOLEAN BY <1>3 DEF RemovesNothing
  <2>3. HandInv' BY <1>3, <2>1, <1>c DEF RemovesNothing
  <2> QED BY <1>3, <2>1, <2>2, <2>3 DEF RemovesNothing, BatchInv
<1>4. ASSUME NEW J \in SUBSET Voices, WriteReg(c, J) PROVE SafeInv'
  <2>1. /\ J \subseteq work[c] \union job[c] /\ J # {} /\ rest[c] = {} /\ on[c] = {}
        /\ work' = [work EXCEPT ![c] = @ \ J] /\ job' = [job EXCEPT ![c] = J]
        /\ pc[c] \in {"working", "writing"}
    <3>1. CASE NextJob(c, J) BY <3>1, JobFacts
    <3>2. CASE DirectOver(c) /\ J = job[c] /\ UNCHANGED <<work, job>> BY <3>2 DEF DirectOver
    <3> QED BY <1>4, <3>1, <3>2 DEF WriteReg
  <2>2. excused' \in BOOLEAN BY <1>4 DEF WriteReg
  <2>3. file' \in [Files -> Batches] /\ \A f \in Files : Sound(file'[f])
    BY <1>4, FileIsOne DEF WriteReg, BatchInv
  <2>4. HandInv' BY <1>4, <2>1, <1>c DEF WriteReg
  <2> QED BY <1>4, <2>1, <2>2, <2>3, <2>4 DEF WriteReg, BatchInv
<1>5. CASE DirectDone(c)
  <2>1. HandInv' BY <1>5 DEF DirectDone, DirectOver
  <2> QED BY <1>5, <2>1 DEF DirectDone, DirectOver, BatchInv
<1>6. CASE Import(c)
  <2>1. file[FileOf(c, job[c])] \in Batches BY FileIsOne
  <2>2. /\ tokens' \subseteq Tokens /\ written' \in [Voices -> SUBSET Aliases]
        /\ torn' \subseteq Voices
    BY <1>6, <2>1, ImportFacts DEF Import
  <2>3. ok' \in [Commands -> BOOLEAN] BY <1>6 DEF Import
  <2>4. HandInv' BY <1>6 DEF Import
  <2> QED BY <1>6, <2>2, <2>3, <2>4 DEF Import, BatchInv
<1>7. CASE ImportFails(c)
  <2>1. ok' \in [Commands -> BOOLEAN] BY <1>7 DEF ImportFails
  <2>2. HandInv' BY <1>7 DEF ImportFails
  <2> QED BY <1>7, <2>1, <2>2 DEF ImportFails, BatchInv
<1>8. CASE ImportLate(c)
  <2>1. ok' \in [Commands -> BOOLEAN] /\ excused' \in BOOLEAN BY <1>8 DEF ImportLate
  <2>2. late' \in [Commands -> Batches] /\ \A d \in Commands : Sound(late'[d])
    BY <1>8, FileIsOne DEF ImportLate, BatchInv
  <2>3. HandInv' BY <1>8 DEF ImportLate
  <2> QED BY <1>8, <2>1, <2>2, <2>3 DEF ImportLate, BatchInv
<1>9. CASE LateImportEnds(c)
  <2>1. /\ tokens' \subseteq Tokens /\ written' \in [Voices -> SUBSET Aliases]
        /\ torn' \subseteq Voices
    BY <1>9, ImportFacts DEF LateImportEnds
  <2>2. late' \in [Commands -> Batches] /\ \A d \in Commands : Sound(late'[d])
    BY <1>0, <1>9 DEF LateImportEnds, BatchInv
  <2>3. HandInv' BY <1>9 DEF LateImportEnds
  <2> QED BY <1>9, <2>1, <2>2, <2>3 DEF LateImportEnds, BatchInv
<1>10. CASE Conclude(c)
  <2>1. file' \in [Files -> Batches] /\ \A f \in Files : Sound(file'[f])
    BY <1>0, <1>10, FileIsOne DEF Conclude, BatchInv
  <2>2. installed' \subseteq Voices /\ excused' \in BOOLEAN
    <3>1. CASE ok[c] /\ c # "PromoteSelected" /\ c \notin stale BY <1>10, <3>1 DEF Conclude
    <3>2. CASE ok[c] /\ c # "PromoteSelected" /\ c \in stale BY <1>10, <3>2 DEF Conclude
    <3>3. CASE ~(ok[c] /\ c # "PromoteSelected") BY <1>10, <3>3 DEF Conclude
    <3> QED BY <3>1, <3>2, <3>3
  <2>3. listed' \in [Readers -> SUBSET Voices] BY <1>10 DEF Conclude, Promoted
  <2>4. loading' \in BOOLEAN BY <1>10 DEF Conclude
  <2>5. HandInv' BY <1>10 DEF Conclude
  <2>6. /\ job' = [job EXCEPT ![c] = {}]
        /\ pc' = [pc EXCEPT ![c] = IF work[c] # {} THEN "working"
                                   ELSE IF c = "PromoteSelected" THEN "applying" ELSE "idle"]
        /\ UNCHANGED <<settings, hklm, work, ok, late, direct, at, stale, actions>>
    BY <1>10 DEF Conclude
  <2> QED BY <2>1, <2>2, <2>3, <2>4, <2>5, <2>6 DEF BatchInv
<1> QED
  BY <1>1, <1>2, <1>3, <1>4, <1>5, <1>6, <1>7, <1>8, <1>9, <1>10 DEF CommandSteps

\* What starting a voice leaves: nothing but torn and the writer's own hand.
LEMMA StartFacts ==
    ASSUME SafeInv, NEW w \in Writers, NEW v \in Voices, NEW removes \in BOOLEAN,
           Starts(w, v, removes)
    PROVE  /\ on[w] = {} /\ on' = [on EXCEPT ![w] = {v}]
           /\ stage' = [stage EXCEPT ![w] = stage'[w]] /\ left' = [left EXCEPT ![w] = left'[w]]
           /\ stage'[w] \in {"drops", "writes", "erases"} /\ (stage'[w] = "erases" <=> removes)
           /\ left'[w] \subseteq Aliases
           /\ torn \subseteq torn' /\ torn' \subseteq Voices
           /\ v \notin torn' => \A u \in Writers : v \in on[u] => Removing(u) = removes
           /\ UNCHANGED <<tokens, written>>
           /\ on' \in [Writers -> SUBSET Voices] /\ left' \in [Writers -> SUBSET Aliases]
           /\ stage' \in [Writers -> {"none", "drops", "writes", "adds", "erases", "clears"}]
           /\ \A u \in Writers : stage'[u] = "none" <=> on'[u] = {}
<1> USE DEF Starts, SafeInv, TypeOK
<1>1. on[w] = {} /\ on' = [on EXCEPT ![w] = {v}] /\ UNCHANGED <<tokens, written>> OBVIOUS
<1>2. stage'[w] \in {"drops", "writes", "erases"} /\ (stage'[w] = "erases" <=> removes) OBVIOUS
<1>3. left'[w] \subseteq Aliases BY DEF AliasesFor, Aliases
<1>4. stage' = [stage EXCEPT ![w] = stage'[w]] /\ left' = [left EXCEPT ![w] = left'[w]] OBVIOUS
<1>5. torn \subseteq torn' /\ torn' \subseteq Voices OBVIOUS
<1>6. v \notin torn' => \A u \in Writers : v \in on[u] => Removing(u) = removes OBVIOUS
<1>7. /\ on' \in [Writers -> SUBSET Voices] /\ left' \in [Writers -> SUBSET Aliases]
      /\ stage' \in [Writers -> {"none", "drops", "writes", "adds", "erases", "clears"}]
  BY <1>1, <1>2, <1>3, <1>4
<1>8. \A u \in Writers : stage'[u] = "none" <=> on'[u] = {} BY <1>1, <1>2, <1>4
<1> QED BY <1>1, <1>2, <1>3, <1>4, <1>5, <1>6, <1>7, <1>8

\* What beginning the next voice of a batch leaves.
LEMMA NextVoiceFacts ==
    ASSUME SafeInv, NEW w \in Writers, NEW v \in Voices, NextVoice(w, v)
    PROVE  /\ on[w] = {} /\ on' = [on EXCEPT ![w] = {v}]
           /\ stage' = [stage EXCEPT ![w] = stage'[w]] /\ left' = [left EXCEPT ![w] = left'[w]]
           /\ stage'[w] \in {"drops", "writes", "erases"}
           /\ (stage'[w] = "erases" <=> w = "UnpromoteSelected")
           /\ torn' \subseteq Voices /\ UNCHANGED <<tokens, written>>
           /\ on' \in [Writers -> SUBSET Voices] /\ left' \in [Writers -> SUBSET Aliases]
           /\ stage' \in [Writers -> {"none", "drops", "writes", "adds", "erases", "clears"}]
           /\ \A u \in Writers : stage'[u] = "none" <=> on'[u] = {}
<1>1. Starts(w, v, w = "UnpromoteSelected") BY DEF NextVoice
<1>2. (w = "UnpromoteSelected") \in BOOLEAN OBVIOUS
<1> QED BY <1>1, <1>2, StartFacts

\* The steps of a writer.
LEMMA WriterKeepsSafe ==
    ASSUME SafeInv, NEW w \in Writers, WriterSteps(w)
    PROVE  SafeInv'
<1> USE DEF SafeInv, TypeOK, WorkInv, HandInv, Removing,
            settings, hklm, progress, direct, reader, rows
<1>c. Commands \subseteq Writers BY DEF Writers
<1>1. ASSUME NEW v \in Voices, NextVoice(w, v) PROVE SafeInv'
  <2>1. /\ on[w] = {} /\ on' = [on EXCEPT ![w] = {v}]
        /\ stage' = [stage EXCEPT ![w] = stage'[w]] /\ left' = [left EXCEPT ![w] = left'[w]]
        /\ stage'[w] \in {"drops", "writes", "erases"}
        /\ (stage'[w] = "erases" <=> w = "UnpromoteSelected")
        /\ torn' \subseteq Voices /\ UNCHANGED <<tokens, written>>
        /\ on' \in [Writers -> SUBSET Voices] /\ left' \in [Writers -> SUBSET Aliases]
        /\ stage' \in [Writers -> {"none", "drops", "writes", "adds", "erases", "clears"}]
        /\ \A u \in Writers : stage'[u] = "none" <=> on'[u] = {}
    BY <1>1, NextVoiceFacts
  <2>2. v \in rest[w] /\ rest' = [rest EXCEPT ![w] = @ \ {v}] BY <1>1 DEF NextVoice
  <2>3. HandInv' BY <1>1, <1>c, <2>1, <2>2 DEF NextVoice
  <2> QED BY <1>1, <2>1, <2>2, <2>3 DEF NextVoice, BatchInv
<1>2. ASSUME NEW v \in Voices, NextAlias(w, v) PROVE SafeInv'
  <2>1. tokens' \subseteq Tokens
    BY <1>2 DEF NextAlias, Tokens, Aliases
  <2>2. left' \in [Writers -> SUBSET Aliases] BY <1>2 DEF NextAlias
  <2>3. HandInv' BY <1>2 DEF NextAlias
  <2> QED BY <1>2, <2>1, <2>2, <2>3 DEF NextAlias, BatchInv
<1>3. ASSUME NEW v \in Voices, WritePrimary(w, v) PROVE SafeInv'
  <2>1. tokens' \subseteq Tokens BY <1>3 DEF WritePrimary, Tokens
  <2>2. left' \in [Writers -> SUBSET Aliases] BY <1>3 DEF WritePrimary, AliasesFor, Aliases
  <2>3. written' \in [Voices -> SUBSET Aliases] BY <1>3, <2>2 DEF WritePrimary
  <2>4. HandInv' BY <1>3, <1>c DEF WritePrimary
  <2>5. on[w] # {} BY <1>3 DEF WritePrimary
  <2> QED BY <1>3, <2>1, <2>2, <2>3, <2>4, <2>5 DEF WritePrimary, BatchInv
<1>4. ASSUME NEW v \in Voices, ErasePrimary(w, v) PROVE SafeInv'
  <2>1. tokens' \subseteq Tokens BY <1>4 DEF ErasePrimary
  <2>2. left' \in [Writers -> SUBSET Aliases] BY <1>4 DEF ErasePrimary
  <2>3. written' \in [Voices -> SUBSET Aliases] BY <1>4 DEF ErasePrimary
  <2>4. HandInv' BY <1>4, <1>c DEF ErasePrimary
  <2>5. on[w] # {} BY <1>4 DEF ErasePrimary
  <2> QED BY <1>4, <2>1, <2>2, <2>3, <2>4, <2>5 DEF ErasePrimary, BatchInv
<1>5. CASE VoiceDone(w)
  <2>1. HandInv' BY <1>5, <1>c DEF VoiceDone
  <2> QED BY <1>5, <2>1 DEF VoiceDone, BatchInv
<1>6. CASE VoiceFails(w)
  <2>1. ok' \in [Commands -> BOOLEAN] /\ excused' \in BOOLEAN
    <3>1. \A c \in Commands : (ok[c] /\ c # w) \in BOOLEAN OBVIOUS
    <3> QED BY <1>6, <3>1 DEF VoiceFails
  <2>2. torn' \subseteq Voices BY <1>6 DEF VoiceFails
  <2>3. HandInv' BY <1>6, <1>c DEF VoiceFails
  <2> QED BY <1>6, <2>1, <2>2, <2>3 DEF VoiceFails, BatchInv
<1> QED BY <1>1, <1>2, <1>3, <1>4, <1>5, <1>6 DEF WriterSteps

\* What the command line does.
LEMMA CliKeepsSafe ==
    ASSUME SafeInv, \/ CliPromoteAll
                    \/ \E v \in Cloud : CliPromote(v)
                    \/ \E v \in Voices : CliUnpromote(v)
    PROVE  SafeInv'
<1> USE DEF SafeInv, TypeOK, WorkInv, HandInv, Removing,
            settings, hklm, progress, direct, reader, rows
<1>0. "Cli" \in Writers /\ "Cli" \notin Commands /\ Commands \subseteq Writers
  BY DEF Writers, Commands
<1>1. Cli BY DEF CliPromoteAll, CliPromote, CliUnpromote
<1>2. actions' \in 0 .. MaxActions /\ excused' \in BOOLEAN
  BY <1>1, MaxActionsAssumption DEF Cli, Acts
<1>3. CASE CliPromoteAll
  <2>1. rest' \in [Writers -> SUBSET Voices] BY <1>3 DEF CliPromoteAll, Voices
  <2>2. HandInv' BY <1>0, <1>1, <1>3 DEF CliPromoteAll, Cli
  <2> QED BY <1>1, <1>2, <1>3, <2>1, <2>2 DEF CliPromoteAll, Cli, BatchInv
<1>4. ASSUME NEW v \in Voices, NEW removes \in BOOLEAN, Starts("Cli", v, removes), UNCHANGED rest
      PROVE  SafeInv'
  <2>1. /\ on["Cli"] = {} /\ on' = [on EXCEPT !["Cli"] = {v}]
        /\ stage' = [stage EXCEPT !["Cli"] = stage'["Cli"]]
        /\ left' = [left EXCEPT !["Cli"] = left'["Cli"]]
        /\ stage'["Cli"] \in {"drops", "writes", "erases"}
        /\ torn' \subseteq Voices /\ UNCHANGED <<tokens, written>>
        /\ on' \in [Writers -> SUBSET Voices] /\ left' \in [Writers -> SUBSET Aliases]
        /\ stage' \in [Writers -> {"none", "drops", "writes", "adds", "erases", "clears"}]
        /\ \A u \in Writers : stage'[u] = "none" <=> on'[u] = {}
    BY <1>0, <1>4, StartFacts
  <2>2. HandInv' BY <1>0, <1>1, <1>4, <2>1 DEF Cli
  <2> QED BY <1>0, <1>1, <1>2, <1>4, <2>1, <2>2 DEF Cli, BatchInv
<1> QED BY <1>3, <1>4 DEF CliPromote, CliUnpromote, Voices

\* Every step.
LEMMA NextKeepsSafe == SafeInv /\ [Next]_vars => SafeInv'
<1> SUFFICES ASSUME SafeInv, [Next]_vars PROVE SafeInv' OBVIOUS
<1> USE DEF settings, hklm, progress, direct, reader, rows
<1>1. CASE PromoteSelectedMarks
  <2>1. "PromoteSelected" \in Commands /\ Commands \subseteq Writers BY DEF Commands, Writers
  <2>2. excused' \in BOOLEAN /\ installed' \subseteq Voices /\ loading' \in BOOLEAN
    BY <1>1 DEF PromoteSelectedMarks, Marks, SafeInv, TypeOK, Readers
  <2>3. listed' \in [Readers -> SUBSET Voices]
    BY <1>1 DEF PromoteSelectedMarks, Marks, SafeInv, TypeOK
  <2>4. WorkInv' BY <1>1, <2>1 DEF PromoteSelectedMarks, SafeInv, TypeOK, WorkInv
  <2>5. BatchInv' BY <1>1 DEF PromoteSelectedMarks, SafeInv, BatchInv
  <2>6. HandInv' BY <1>1, <2>1 DEF PromoteSelectedMarks, SafeInv, TypeOK, HandInv, Removing
  <2>7. TypeOK'
    <3>1. admin' \in BOOLEAN /\ enUs' \in BOOLEAN /\ arabic' \in BOOLEAN
      BY <1>1 DEF PromoteSelectedMarks, SafeInv, TypeOK
    <3> QED
      BY <1>1, <2>1, <2>2, <2>3, <3>1 DEF PromoteSelectedMarks, SafeInv, TypeOK
  <2> QED BY <2>4, <2>5, <2>6, <2>7 DEF SafeInv
<1>2. CASE LoadReplaces \/ \E r \in Refreshes : RefreshReads(r) \/ RefreshMarks(r)
  <2>1. excused' \in BOOLEAN /\ loading' \in BOOLEAN
    BY <1>2 DEF LoadReplaces, RefreshReads, RefreshMarks, Marks, SafeInv, TypeOK
  <2>2. actions' \in 0 .. MaxActions
    BY <1>2, MaxActionsAssumption
       DEF LoadReplaces, RefreshReads, RefreshMarks, Acts, SafeInv, TypeOK
  <2>3. /\ listed' \in [Readers -> SUBSET Voices] /\ installed' \subseteq Voices
        /\ at' \in [Refreshes -> {"no", "rows", "read"}] /\ stale' \subseteq Commands
    <3>1. Refreshes \subseteq Readers /\ Promoted \subseteq Voices BY DEF Readers, Promoted
    <3>2. CASE LoadReplaces BY <3>2 DEF LoadReplaces, SafeInv, TypeOK
    <3>3. ASSUME NEW r \in Refreshes, RefreshReads(r)
          PROVE  /\ listed' \in [Readers -> SUBSET Voices] /\ installed' \subseteq Voices
                 /\ at' \in [Refreshes -> {"no", "rows", "read"}] /\ stale' \subseteq Commands
      BY <3>1, <3>3 DEF RefreshReads, SafeInv, TypeOK
    <3>4. ASSUME NEW r \in Refreshes, RefreshMarks(r)
          PROVE  /\ listed' \in [Readers -> SUBSET Voices] /\ installed' \subseteq Voices
                 /\ at' \in [Refreshes -> {"no", "rows", "read"}] /\ stale' \subseteq Commands
      BY <3>1, <3>4 DEF RefreshMarks, Marks, SafeInv, TypeOK
    <3> QED BY <1>2, <3>2, <3>3, <3>4
  <2>4. UNCHANGED <<settings, hklm, file, progress, late, direct>>
    BY <1>2 DEF LoadReplaces, RefreshReads, RefreshMarks
  <2> QED
    BY <2>1, <2>2, <2>3, <2>4 DEF SafeInv, TypeOK, WorkInv, HandInv, Removing, BatchInv
<1>3. CASE ToggleEnUs \/ ToggleArabic
  <2>1. enUs' \in BOOLEAN /\ arabic' \in BOOLEAN
    BY <1>3 DEF ToggleEnUs, ToggleArabic, SafeInv, TypeOK
  <2>2. actions' \in 0 .. MaxActions
    BY <1>3, MaxActionsAssumption DEF ToggleEnUs, ToggleArabic, Acts, SafeInv, TypeOK
  <2> QED
    BY <1>3, <2>1, <2>2
       DEF ToggleEnUs, ToggleArabic, SafeInv, TypeOK, WorkInv, HandInv, Removing, BatchInv
<1>4. CASE UNCHANGED vars
  BY <1>4 DEF vars, SafeInv, TypeOK, WorkInv, HandInv, Removing, BatchInv
<1> QED BY <1>1, <1>2, <1>3, <1>4, CommandKeepsSafe, WriterKeepsSafe, CliKeepsSafe DEF Next

-----------------------------------------------------------------------------
(* No orphans. *)

\* No two writers do the opposite to a voice that is not torn: its primary
\* token is there while aliases are added, and gone while they are cleared.
HandsInv ==
    \A v \in Voices \ torn : \A w \in Writers : v \in on[w] =>
        /\ stage[w] = "adds" => v \in Promoted
        /\ stage[w] = "clears" => v \notin Promoted /\ AliasesIn(tokens, v) \subseteq left[w]
        /\ \A u \in Writers : v \in on[u] => Removing(u) = Removing(w)

OrphanInv == NoOrphanAlias /\ HandsInv

\* What the two say depends on these variables only.
LEMMA OrphanStill ==
    ASSUME OrphanInv, UNCHANGED <<hklm, on, stage, left>> PROVE OrphanInv'
BY DEF OrphanInv, NoOrphanAlias, HandsInv, Promoted, AliasesIn, Removing, hklm

\* An import.
LEMMA ImportKeepsOrphan ==
    ASSUME SafeInv, OrphanInv, NEW b \in Batches, Sound(b), Imports(b),
           UNCHANGED <<on, stage, left>>
    PROVE  OrphanInv'
<1> SUFFICES ASSUME NEW v \in Voices, v \notin torn'
             PROVE  /\ AliasesIn(tokens', v) # {} =>
                         \/ <<v, "primary">> \in tokens'
                         \/ \E w \in Writers : v \in on[w] /\ stage[w] = "clears"
                    /\ \A w \in Writers : v \in on[w] =>
                        /\ stage[w] = "adds" => <<v, "primary">> \in tokens'
                        /\ stage[w] = "clears" =>
                             <<v, "primary">> \notin tokens' /\ AliasesIn(tokens', v) \subseteq left[w]
                        /\ \A u \in Writers : v \in on[u] => Removing(u) = Removing(w)
    BY DEF OrphanInv, NoOrphanAlias, HandsInv, Promoted, Removing, AliasesIn
<1>1. v \notin torn /\ (Touches(b, v) => \A w \in Writers : v \notin on[w]) BY DEF Imports
<1>2. CASE ~Touches(b, v)
  <2>1. \A n : <<v, n>> \notin b.del \union b.add BY <1>2 DEF Touches
  <2>2. AliasesIn(tokens', v) = AliasesIn(tokens, v)
        /\ (<<v, "primary">> \in tokens' <=> <<v, "primary">> \in tokens)
    BY <2>1 DEF Imports, AliasesIn
  <2> QED BY <1>1, <2>2 DEF OrphanInv, NoOrphanAlias, HandsInv, Promoted
<1>3. CASE Touches(b, v)
  <2>1. \A w \in Writers : v \notin on[w] BY <1>1, <1>3
  <2>2. AliasesIn(tokens, v) # {} => <<v, "primary">> \in tokens
    BY <1>1, <2>1 DEF OrphanInv, NoOrphanAlias, Promoted
  <2>3. ASSUME NEW n \in Aliases, <<v, n>> \in tokens', <<v, "primary">> \notin tokens' PROVE FALSE
    <3>1. <<v, n>> \notin b.add BY <2>3 DEF Sound, AliasesIn, Imports, Primaries
    <3>2. <<v, n>> \in tokens /\ <<v, n>> \notin b.del BY <2>3, <3>1 DEF Imports
    <3>3. <<v, "primary">> \in tokens BY <2>2, <3>2 DEF AliasesIn
    <3>4. <<v, "primary">> \in b.del /\ <<v, "primary">> \notin b.add BY <2>3, <3>3 DEF Imports
    <3>5. AliasesIn(b.del, v) = Aliases BY <3>4 DEF Sound, Primaries
    <3> QED BY <3>2, <3>5 DEF AliasesIn
  <2> QED BY <2>1, <2>3 DEF AliasesIn
<1> QED BY <1>2, <1>3

\* A voice is begun.
LEMMA StartKeepsOrphan ==
    ASSUME SafeInv, OrphanInv, NEW w \in Writers, NEW v \in Voices, NEW removes \in BOOLEAN,
           Starts(w, v, removes)
    PROVE  OrphanInv'
<1>1. /\ on[w] = {} /\ on' = [on EXCEPT ![w] = {v}]
      /\ stage' = [stage EXCEPT ![w] = stage'[w]] /\ left' = [left EXCEPT ![w] = left'[w]]
      /\ stage'[w] \in {"drops", "writes", "erases"} /\ (stage'[w] = "erases" <=> removes)
      /\ torn \subseteq torn'
      /\ v \notin torn' => \A u \in Writers : v \in on[u] => Removing(u) = removes
      /\ UNCHANGED <<tokens, written>>
  BY StartFacts
<1>2. /\ on \in [Writers -> SUBSET Voices] /\ left \in [Writers -> SUBSET Aliases]
      /\ stage \in [Writers -> {"none", "drops", "writes", "adds", "erases", "clears"}]
  BY DEF SafeInv, TypeOK
<1>3. Promoted' = Promoted /\ \A x \in Voices : AliasesIn(tokens', x) = AliasesIn(tokens, x)
  BY <1>1 DEF Promoted, AliasesIn
<1>4. \A u \in Writers \ {w} : on'[u] = on[u] /\ stage'[u] = stage[u] /\ left'[u] = left[u]
  BY <1>1, <1>2
<1>5. NoOrphanAlias' BY <1>1, <1>3, <1>4 DEF OrphanInv, NoOrphanAlias
<1>6. Removing(w)' = removes /\ \A u \in Writers \ {w} : Removing(u)' = Removing(u)
  BY <1>1, <1>4 DEF Removing
<1>7. on'[w] = {v} BY <1>1, <1>2
<1>8. ASSUME NEW x \in Voices, x \notin torn', NEW u \in Writers, x \in on'[u]
      PROVE  /\ stage'[u] = "adds" => x \in Promoted
             /\ stage'[u] = "clears" => x \notin Promoted /\ AliasesIn(tokens, x) \subseteq left'[u]
             /\ \A t \in Writers : x \in on'[t] => Removing(t)' = Removing(u)'
  <2>1. CASE u = w
    BY <1>1, <1>4, <1>6, <1>7, <1>8, <2>1
  <2>2. CASE u # w
    <3>1. /\ stage'[u] = "adds" => x \in Promoted
          /\ stage'[u] = "clears" => x \notin Promoted /\ AliasesIn(tokens, x) \subseteq left'[u]
          /\ \A t \in Writers \ {w} : x \in on'[t] => Removing(t)' = Removing(u)'
      BY <1>1, <1>4, <1>6, <1>8, <2>2 DEF OrphanInv, HandsInv
    <3>2. x \in on'[w] => Removing(w)' = Removing(u)'
      BY <1>1, <1>4, <1>6, <1>7, <1>8, <2>2
    <3> QED BY <3>1, <3>2
  <2> QED BY <2>1, <2>2
<1>9. HandsInv' BY <1>3, <1>8 DEF HandsInv
<1> QED BY <1>5, <1>9 DEF OrphanInv

\* One alias is dropped, added or deleted.
LEMMA AliasKeepsOrphan ==
    ASSUME SafeInv, OrphanInv, NEW w \in Writers, NEW v \in Voices, NextAlias(w, v)
    PROVE  OrphanInv'
<1> DEFINE n == IF "enUS" \in left[w] THEN "enUS" ELSE "ar"
<1>1. /\ v \in on[w] /\ left[w] # {}
      /\ tokens' = IF stage[w] = "adds" THEN tokens \union {<<v, n>>} ELSE tokens \ {<<v, n>>}
      /\ left' = [left EXCEPT ![w] = @ \ {n}] /\ UNCHANGED <<torn, on, stage>>
      /\ left \in [Writers -> SUBSET Aliases]
  BY DEF NextAlias, SafeInv, TypeOK
<1>2. n \in Aliases /\ n # "primary" BY DEF Aliases
<1> HIDE DEF n
<1>3. Promoted' = Promoted BY <1>1, <1>2 DEF Promoted
<1>4. \A x \in Voices \ {v} : AliasesIn(tokens', x) = AliasesIn(tokens, x) BY <1>1 DEF AliasesIn
<1>5. \A u \in Writers \ {w} : left'[u] = left[u] BY <1>1
<1>6. \A u \in Writers : Removing(u)' = Removing(u) BY <1>1 DEF Removing
<1>7. AliasesIn(tokens', v) = IF stage[w] = "adds" THEN AliasesIn(tokens, v) \union {n}
                              ELSE AliasesIn(tokens, v) \ {n}
  BY <1>1, <1>2 DEF AliasesIn
<1>8. NoOrphanAlias'
  <2>1. ASSUME v \notin torn, AliasesIn(tokens', v) # {}
        PROVE  v \in Promoted \/ \E u \in Writers : v \in on[u] /\ stage[u] = "clears"
    <3>1. CASE stage[w] = "adds" BY <1>1, <2>1, <3>1 DEF OrphanInv, HandsInv
    <3>2. CASE stage[w] # "adds"
      <4>1. AliasesIn(tokens, v) # {} BY <1>7, <2>1, <3>2
      <4> QED BY <2>1, <4>1 DEF OrphanInv, NoOrphanAlias
    <3> QED BY <3>1, <3>2
  <2> QED BY <1>1, <1>3, <1>4, <2>1 DEF OrphanInv, NoOrphanAlias
<1>9. ASSUME NEW x \in Voices \ torn, NEW u \in Writers, x \in on[u]
      PROVE  stage[u] = "clears" => AliasesIn(tokens', x) \subseteq left'[u]
  <2> SUFFICES ASSUME stage[u] = "clears" PROVE AliasesIn(tokens', x) \subseteq left'[u] OBVIOUS
  <2>1. AliasesIn(tokens, x) \subseteq left[u] BY <1>9 DEF OrphanInv, HandsInv
  <2>2. CASE x # v
    <3>1. u # w BY <1>1, <1>9, <2>2 DEF SafeInv, HandInv
    <3> QED BY <1>4, <1>5, <2>1, <2>2, <3>1
  <2>3. CASE x = v
    <3>1. Removing(u) = Removing(w) BY <1>1, <1>9, <2>3 DEF OrphanInv, HandsInv
    <3>2. stage[w] # "adds" BY <3>1 DEF Removing
    <3>3. AliasesIn(tokens', v) = AliasesIn(tokens, v) \ {n} BY <1>7, <3>2
    <3>4. left[u] \ {n} \subseteq left'[u] BY <1>1, <1>5
    <3> QED BY <2>1, <2>3, <3>3, <3>4
  <2> QED BY <2>2, <2>3
<1>10. HandsInv' BY <1>1, <1>3, <1>6, <1>9 DEF OrphanInv, HandsInv
<1> QED BY <1>8, <1>10 DEF OrphanInv

\* The primary token is written or deleted.
LEMMA PrimaryKeepsOrphan ==
    ASSUME SafeInv, OrphanInv, NEW w \in Writers, NEW v \in Voices,
           WritePrimary(w, v) \/ ErasePrimary(w, v)
    PROVE  OrphanInv'
<1>0. /\ on \in [Writers -> SUBSET Voices] /\ left \in [Writers -> SUBSET Aliases]
      /\ stage \in [Writers -> {"none", "drops", "writes", "adds", "erases", "clears"}]
  BY DEF SafeInv, TypeOK
<1>1. /\ v \in on[w] /\ UNCHANGED <<torn, on>>
      /\ stage' = [stage EXCEPT ![w] = stage'[w]] /\ left' = [left EXCEPT ![w] = left'[w]]
      /\ \/ /\ WritePrimary(w, v)
            /\ stage[w] \in {"writes", "drops"} /\ stage'[w] = "adds" /\ ~Removing(w)
            /\ Promoted' = Promoted \union {v}
         \/ /\ ErasePrimary(w, v)
            /\ stage[w] = "erases" /\ stage'[w] = "clears" /\ Removing(w) /\ left'[w] = Aliases
            /\ Promoted' = Promoted \ {v}
  BY <1>0 DEF WritePrimary, ErasePrimary, Promoted, Removing
<1>2. "primary" \notin Aliases BY DEF Aliases
<1>3. \A x \in Voices : AliasesIn(tokens', x) = AliasesIn(tokens, x)
  BY <1>2 DEF WritePrimary, ErasePrimary, AliasesIn
<1>4. \A u \in Writers \ {w} : stage'[u] = stage[u] /\ left'[u] = left[u] BY <1>0, <1>1
<1>5. \A u \in Writers : Removing(u)' = Removing(u) BY <1>1, <1>4 DEF Removing
<1>6. NoOrphanAlias'
  <2>1. ASSUME NEW x \in Voices \ torn, AliasesIn(tokens, x) # {}
        PROVE  x \in Promoted' \/ \E u \in Writers : x \in on[u] /\ stage'[u] = "clears"
    <3>1. CASE x = v BY <1>1, <3>1
    <3>2. CASE x # v
      <4>1. CASE x \in Promoted BY <1>1, <3>2, <4>1
      <4>2. CASE x \notin Promoted
        <5>1. PICK u \in Writers : x \in on[u] /\ stage[u] = "clears"
          BY <2>1, <4>2 DEF OrphanInv, NoOrphanAlias
        <5>2. u # w BY <1>1, <5>1
        <5> QED BY <1>4, <5>1, <5>2
      <4> QED BY <4>1, <4>2
    <3> QED BY <3>1, <3>2
  <2> QED BY <1>1, <1>3, <2>1 DEF NoOrphanAlias
<1>7. ASSUME NEW x \in Voices \ torn, NEW u \in Writers, x \in on[u]
      PROVE  /\ stage'[u] = "adds" => x \in Promoted'
             /\ stage'[u] = "clears" => x \notin Promoted' /\ AliasesIn(tokens, x) \subseteq left'[u]
             /\ \A t \in Writers : x \in on[t] => Removing(t) = Removing(u)
  <2>0. \A t \in Writers : x \in on[t] => Removing(t) = Removing(u)
    BY <1>7 DEF OrphanInv, HandsInv
  <2>1. CASE u = w
    <3>1. x = v BY <1>1, <1>7, <2>1 DEF SafeInv, HandInv
    <3> QED BY <1>1, <2>0, <2>1, <3>1 DEF AliasesIn
  <2>2. CASE u # w
    <3>1. /\ stage[u] = "adds" => x \in Promoted
          /\ stage[u] = "clears" => x \notin Promoted /\ AliasesIn(tokens, x) \subseteq left[u]
      BY <1>7 DEF OrphanInv, HandsInv
    <3>2. x = v => Removing(u) = Removing(w) BY <1>1, <2>0
    <3> QED BY <1>1, <1>4, <2>0, <2>2, <3>1, <3>2 DEF Removing
  <2> QED BY <2>1, <2>2
<1>8. HandsInv' BY <1>1, <1>3, <1>5, <1>7 DEF HandsInv
<1> QED BY <1>6, <1>8 DEF OrphanInv

\* A writer is done with a voice, or gives it up.
LEMMA EndKeepsOrphan ==
    ASSUME SafeInv, OrphanInv, NEW w \in Writers, VoiceDone(w) \/ VoiceFails(w)
    PROVE  OrphanInv'
<1>0. /\ on \in [Writers -> SUBSET Voices] /\ left \in [Writers -> SUBSET Aliases]
      /\ stage \in [Writers -> {"none", "drops", "writes", "adds", "erases", "clears"}]
  BY DEF SafeInv, TypeOK
<1>1. /\ on' = [on EXCEPT ![w] = {}] /\ stage' = [stage EXCEPT ![w] = "none"]
      /\ UNCHANGED tokens /\ torn \subseteq torn'
      /\ \A u \in Writers \ {w} : left'[u] = left[u]
  BY <1>0 DEF VoiceDone, VoiceFails, hklm
<1>2. Promoted' = Promoted /\ \A x \in Voices : AliasesIn(tokens', x) = AliasesIn(tokens, x)
  BY <1>1 DEF Promoted, AliasesIn
<1>3. \A u \in Writers \ {w} : on'[u] = on[u] /\ stage'[u] = stage[u] /\ Removing(u)' = Removing(u)
  BY <1>0, <1>1 DEF Removing
<1>4. on'[w] = {} BY <1>0, <1>1
<1>5. NoOrphanAlias'
  <2>1. ASSUME NEW x \in Voices \ torn', AliasesIn(tokens, x) # {}, x \notin Promoted
        PROVE  \E u \in Writers : x \in on'[u] /\ stage'[u] = "clears"
    <3>1. PICK u \in Writers : x \in on[u] /\ stage[u] = "clears"
      BY <1>1, <2>1 DEF OrphanInv, NoOrphanAlias
    <3>2. u # w
      <4>1. CASE VoiceFails(w) BY <2>1, <3>1, <4>1 DEF VoiceFails
      <4>2. CASE VoiceDone(w) BY <1>1, <2>1, <3>1, <4>2 DEF VoiceDone, OrphanInv, HandsInv
      <4> QED BY <4>1, <4>2
    <3> QED BY <1>3, <3>1, <3>2
  <2> QED BY <1>2, <2>1 DEF NoOrphanAlias
<1>6. HandsInv' BY <1>1, <1>2, <1>3, <1>4 DEF OrphanInv, HandsInv
<1> QED BY <1>5, <1>6 DEF OrphanInv

\* Every step.
LEMMA NextKeepsOrphan == SafeInv /\ OrphanInv /\ [Next]_vars => OrphanInv'
<1> SUFFICES ASSUME SafeInv, OrphanInv, [Next]_vars PROVE OrphanInv' OBVIOUS
<1> USE DEF hklm, direct
<1>0. "Cli" \in Writers BY DEF Writers
<1>1. ASSUME NEW c \in Commands, CommandSteps(c) PROVE OrphanInv'
  <2>1. CASE Import(c)
    <3>1. file[FileOf(c, job[c])] \in Batches /\ Sound(file[FileOf(c, job[c])])
      BY FileIsOne DEF SafeInv, TypeOK, BatchInv
    <3> QED BY <2>1, <3>1, ImportKeepsOrphan DEF Import
  <2>2. CASE LateImportEnds(c)
    <3>1. late[c] \in Batches /\ Sound(late[c]) BY DEF SafeInv, TypeOK, BatchInv
    <3> QED BY <2>2, <3>1, ImportKeepsOrphan DEF LateImportEnds
  <2>3. CASE ~Import(c) /\ ~LateImportEnds(c)
    <3>1. UNCHANGED <<hklm, on, stage, left>>
      BY <1>1, <2>3 DEF CommandSteps, CommandBegins, DirectBegins, RemovesNothing, WriteReg,
                        DirectDone, ImportFails, ImportLate, Conclude
    <3> QED BY <3>1, OrphanStill
  <2> QED BY <2>1, <2>2, <2>3
<1>2. ASSUME NEW w \in Writers, WriterSteps(w) PROVE OrphanInv'
  BY <1>2, StartKeepsOrphan, AliasKeepsOrphan, PrimaryKeepsOrphan, EndKeepsOrphan
     DEF WriterSteps, NextVoice
<1>3. CASE (\E v \in Cloud : CliPromote(v)) \/ (\E v \in Voices : CliUnpromote(v))
  BY <1>0, <1>3, StartKeepsOrphan DEF CliPromote, CliUnpromote, Voices
<1>4. CASE \/ PromoteSelectedMarks \/ LoadReplaces \/ ToggleEnUs \/ ToggleArabic \/ CliPromoteAll
           \/ \E r \in Refreshes : RefreshReads(r) \/ RefreshMarks(r)
           \/ UNCHANGED vars
  <2>1. UNCHANGED <<hklm, on, stage, left>>
    BY <1>4 DEF PromoteSelectedMarks, LoadReplaces, ToggleEnUs, ToggleArabic, CliPromoteAll,
                RefreshReads, RefreshMarks, vars
  <2> QED BY <2>1, OrphanStill
<1> QED BY <1>1, <1>2, <1>3, <1>4 DEF Next

-----------------------------------------------------------------------------
(* True rows. *)

Un == "UnpromoteSelected"
Doing(c) == pc[c] \in {"asking", "imported"}

\* File b does to the primary tokens what command c wants for the voices J.
Fits(b, c, J) ==
    IF c \in Promoting
      THEN Primaries(b.add) = J /\ Primaries(b.del) = {}
      ELSE b.add = {} /\ Primaries(b.del) = J

\* No two commands work on a voice to opposite ends, no import is late, and
\* the command line is not used.
CrossInv ==
    ~excused =>
        /\ \A c \in Promoting : (work[c] \union job[c]) \intersect (work[Un] \union job[Un]) = {}
        /\ Still /\ CliIdle

\* The file a command waits for is its own.
FileInv ==
    ~excused =>
        /\ \A c \in Commands :
             pc[c] = "asking" \/ (c \in Promoting /\ pc[c] = "imported") =>
               Fits(file[FileOf(c, job[c])], c, job[c])
        /\ \A c, d \in Promoting :
             Doing(c) /\ Doing(d) /\ FileOf(c, job[c]) = FileOf(d, job[d]) => c = d

\* What a command that writes HKLM itself has done so far.
WriteInv ==
    ~excused =>
        \A c \in Commands : pc[c] = "writing" =>
            /\ ok[c]
            /\ \A v \in job[c] \ rest[c] :
                 IF c \in Promoting
                   THEN v \in Promoted \/ (v \in on[c] /\ stage[c] \in {"drops", "writes"})
                   ELSE v \notin Promoted \/ (v \in on[c] /\ stage[c] = "erases")

\* What has been done, and where rows and registry may differ meanwhile.
DoneInv ==
    ~excused =>
        \A c \in Commands : pc[c] \in {"written", "imported"} /\ ok[c] =>
            IF c \in Promoting THEN job[c] \subseteq Promoted ELSE job[c] \intersect Promoted = {}

Underway(c) == pc[c] \in {"writing", "written", "imported"} /\ ok[c]

RowInv ==
    ~excused =>
        /\ \A v \in Promoted \ installed :
             \/ pc["PromoteSelected"] # "idle"
             \/ at["LoadVoices"] # "no"
             \/ Underway("Promote") /\ v \in job["Promote"]
        /\ \A v \in installed \ Promoted : Underway(Un) /\ v \in job[Un]

TrueInv == CrossInv /\ FileInv /\ WriteInv /\ DoneInv /\ RowInv
RowsInv == SafeInv /\ OrphanInv /\ TrueInv

\* Two of the commands promote, the third does the opposite.
LEMMA CommandFacts ==
    /\ Commands = Promoting \union {Un} /\ Un \notin Promoting
    /\ Promoting = {"Promote", "PromoteSelected"}
    /\ "Promote" \in Commands /\ "PromoteSelected" \in Commands
    /\ Writers = Commands \union {"Cli"} /\ "Cli" \notin Commands
    /\ \A c, d \in Commands : (c \in Promoting) # (d \in Promoting) <=>
          (c = Un /\ d # Un) \/ (c # Un /\ d = Un)
BY DEF Commands, Promoting, Writers, Un

\* The types that matter here.
LEMMA TypeFacts ==
    ASSUME SafeInv
    PROVE  /\ pc \in [Commands -> {"idle", "working", "writing", "written", "asking", "imported",
                                   "applying"}]
           /\ work \in [Commands -> SUBSET Voices] /\ job \in [Commands -> SUBSET Voices]
           /\ ok \in [Commands -> BOOLEAN] /\ file \in [Files -> Batches]
           /\ rest \in [Writers -> SUBSET Voices] /\ on \in [Writers -> SUBSET Voices]
           /\ stage \in [Writers -> {"none", "drops", "writes", "adds", "erases", "clears"}]
BY DEF SafeInv, TypeOK

\* UnpromoteSelected has a file to itself.
LEMMA FileFacts ==
    ASSUME NEW J, NEW K, NEW c \in Promoting
    PROVE  FileOf(c, J) # FileOf(Un, K)
BY CommandFacts DEF FileOf

LEMMA SameTokens == UNCHANGED tokens => Promoted' = Promoted
BY DEF Promoted

\* A command begins.
LEMMA BeginKeepsRows ==
    ASSUME RowsInv, NEW c \in Commands, NEW J \in SUBSET Voices, CommandBegins(c, J)
    PROVE  TrueInv'
<1> USE CommandFacts
<1>1. /\ pc[c] = "idle" /\ pc' = [pc EXCEPT ![c] = "working"] /\ work' = [work EXCEPT ![c] = J]
      /\ job[c] = {} /\ UNCHANGED <<tokens, file, job, ok, late, direct, at, installed>>
      /\ ~excused' => ~excused /\ ~Crosses(c, J)
      /\ pc \in [Commands -> {"idle", "working", "writing", "written", "asking", "imported",
                              "applying"}]
      /\ work \in [Commands -> SUBSET Voices]
  BY DEF CommandBegins, RowsInv, SafeInv, TypeOK, rows, reader, hklm
<1>2. Promoted' = Promoted BY <1>1, SameTokens
<1>3. CrossInv'
  <2> SUFFICES ASSUME ~excused' PROVE CrossInv' BY DEF CrossInv
  <2>1. \A d \in Commands : (c \in Promoting) # (d \in Promoting) =>
           J \intersect (work[d] \union job[d]) = {}
    BY <1>1 DEF Crosses
  <2>2. Still' /\ CliIdle' BY <1>1 DEF RowsInv, TrueInv, CrossInv, Still, CliIdle, direct
  <2>3. CASE c = Un BY <1>1, <2>1, <2>2, <2>3 DEF RowsInv, TrueInv, CrossInv
  <2>4. CASE c \in Promoting BY <1>1, <2>1, <2>2, <2>4 DEF RowsInv, TrueInv, CrossInv
  <2> QED BY <2>3, <2>4
<1>4. FileInv' BY <1>1 DEF RowsInv, TrueInv, FileInv, Fits, Doing, FileOf
<1>5. WriteInv' /\ DoneInv' BY <1>1, <1>2 DEF RowsInv, TrueInv, WriteInv, DoneInv, direct
<1>6. RowInv' BY <1>1, <1>2 DEF RowsInv, TrueInv, RowInv, Underway
<1> QED BY <1>3, <1>4, <1>5, <1>6 DEF TrueInv

\* A job is taken that needs no .reg file.
LEMMA DirectKeepsRows ==
    ASSUME RowsInv, NEW c \in Commands, NEW J \in SUBSET Voices,
           DirectBegins(c, J) \/ RemovesNothing(c, J)
    PROVE  TrueInv'
<1> USE CommandFacts
<1>0. SafeInv /\ NextJob(c, J) BY DEF DirectBegins, RemovesNothing, RowsInv
<1>1. /\ J \subseteq work[c] /\ J # {} /\ pc[c] = "working" /\ job[c] = {}
      /\ rest[c] = {} /\ on[c] = {}
      /\ work' = [work EXCEPT ![c] = @ \ J] /\ job' = [job EXCEPT ![c] = J]
  BY <1>0, JobFacts
<1>2. /\ ok' = [ok EXCEPT ![c] = TRUE]
      /\ UNCHANGED <<tokens, file, late, on, stage, at, installed>>
      /\ ~excused' => ~excused
      /\ \/ pc' = [pc EXCEPT ![c] = "writing"] /\ rest' = [rest EXCEPT ![c] = J]
         \/ /\ pc' = [pc EXCEPT ![c] = "written"] /\ c = Un /\ UNCHANGED rest
            /\ ~excused' => tokens \intersect Removes(J).del = {}
  <2>1. CASE DirectBegins(c, J) BY <2>1 DEF DirectBegins, hklm, reader, rows
  <2>2. CASE RemovesNothing(c, J)
    <3>1. c = Un BY <2>2 DEF RemovesNothing
    <3> QED BY <2>2, <3>1 DEF RemovesNothing, hklm, direct, reader, rows
  <2> QED BY <2>1, <2>2
<1>3. Promoted' = Promoted BY <1>2, SameTokens
<1>4. CrossInv'
  <2>1. ~excused' => Still' /\ CliIdle'
    BY <1>0, <1>2, TypeFacts DEF RowsInv, TrueInv, CrossInv, Still, CliIdle
  <2> QED BY <1>0, <1>1, <1>2, <2>1, TypeFacts DEF RowsInv, TrueInv, CrossInv
<1>5. FileInv'
  <2>1. \A d \in Commands : pc'[d] \in {"asking", "imported"} => pc'[d] = pc[d] /\ job'[d] = job[d]
    BY <1>0, <1>1, <1>2, TypeFacts
  <2>2. FileInv /\ UNCHANGED file /\ (~excused' => ~excused) BY <1>2 DEF RowsInv, TrueInv
  <2> QED BY <2>1, <2>2 DEF FileInv, Fits, Doing, FileOf
<1>6. WriteInv' BY <1>0, <1>1, <1>2, <1>3, TypeFacts DEF RowsInv, TrueInv, WriteInv
<1>7. DoneInv'
  <2>1. tokens \intersect Removes(J).del = {} => J \intersect Promoted = {}
    BY DEF Removes, Promoted, Tokens
  <2> QED BY <1>0, <1>1, <1>2, <1>3, <2>1, TypeFacts DEF RowsInv, TrueInv, DoneInv
<1>8. RowInv' BY <1>0, <1>1, <1>2, <1>3, TypeFacts DEF RowsInv, TrueInv, RowInv, Underway
<1> QED BY <1>4, <1>5, <1>6, <1>7, <1>8 DEF TrueInv

\* The last voice of a job has been written.
LEMMA DirectDoneKeepsRows ==
    ASSUME RowsInv, NEW c \in Commands, DirectDone(c)
    PROVE  TrueInv'
<1> USE CommandFacts
<1>1. /\ pc[c] = "writing" /\ rest[c] = {} /\ on[c] = {} /\ ok[c]
      /\ pc' = [pc EXCEPT ![c] = "written"]
      /\ UNCHANGED <<tokens, file, work, job, ok, late, direct, at, installed, excused>>
  BY DEF DirectDone, DirectOver, hklm, reader, rows
<1>2. Promoted' = Promoted BY <1>1, SameTokens
<1>3. SafeInv BY DEF RowsInv
<1>4. CrossInv' BY <1>1 DEF RowsInv, TrueInv, CrossInv, Still, CliIdle, direct
<1>5. FileInv' BY <1>1, <1>3, TypeFacts DEF RowsInv, TrueInv, FileInv, Fits, Doing, FileOf
<1>6. WriteInv' BY <1>1, <1>2, <1>3, TypeFacts DEF RowsInv, TrueInv, WriteInv, direct
<1>7. DoneInv' BY <1>1, <1>2, <1>3, TypeFacts DEF RowsInv, TrueInv, DoneInv, WriteInv
<1>8. RowInv' BY <1>1, <1>2, <1>3, TypeFacts DEF RowsInv, TrueInv, RowInv, Underway
<1> QED BY <1>4, <1>5, <1>6, <1>7, <1>8 DEF TrueInv

\* A writer's step: only the command line's is excused from the start.
LEMMA WriterKeepsRows ==
    ASSUME RowsInv, NEW w \in Writers, WriterSteps(w)
    PROVE  TrueInv'
<1> USE CommandFacts
<1> SUFFICES ASSUME ~excused' PROVE TrueInv'
    BY DEF TrueInv, CrossInv, FileInv, WriteInv, DoneInv, RowInv
<1>0. SafeInv /\ HandInv BY DEF RowsInv, SafeInv
<1>1. /\ ~excused
      /\ UNCHANGED <<file, pc, work, job, ok, late, at, installed, excused>>
  BY DEF WriterSteps, NextVoice, NextAlias, WritePrimary, ErasePrimary, VoiceDone, VoiceFails,
         progress, reader, rows
<1>2. CrossInv /\ FileInv /\ WriteInv /\ DoneInv /\ RowInv BY DEF RowsInv, TrueInv
<1>3. w # "Cli" /\ w \in Commands
  <2>1. CliIdle BY <1>1, <1>2 DEF CrossInv
  <2>2. ~VoiceFails(w) BY <1>1 DEF VoiceFails
  <2>3. on[w] # {} \/ rest[w] # {}
    BY <1>0, <2>2 DEF WriterSteps, NextVoice, NextAlias, WritePrimary, ErasePrimary, VoiceDone,
                      SafeInv, TypeOK
  <2> QED BY <2>1, <2>3 DEF CliIdle
<1>4. CrossInv' /\ FileInv'
  <2>1. \A d \in Commands : FileOf(d, job[d])' = FileOf(d, job[d]) BY <1>1 DEF FileOf
  <2>2. FileInv' BY <1>1, <1>2, <2>1 DEF FileInv, Doing
  <2>3. CliIdle'
    <3>1. on'["Cli"] = on["Cli"] /\ rest'["Cli"] = rest["Cli"]
      BY <1>0, <1>1, <1>3, TypeFacts
         DEF WriterSteps, NextVoice, Starts, NextAlias, WritePrimary, ErasePrimary, VoiceDone, VoiceFails
    <3> QED BY <1>1, <1>2, <3>1 DEF CrossInv, CliIdle
  <2> QED BY <1>1, <1>2, <2>2, <2>3 DEF CrossInv, Still
<1>5. ASSUME NEW v \in Voices, NextVoice(w, v) PROVE WriteInv' /\ DoneInv' /\ RowInv'
  <2>1. /\ on[w] = {} /\ on' = [on EXCEPT ![w] = {v}]
        /\ stage' = [stage EXCEPT ![w] = stage'[w]]
        /\ stage'[w] \in {"drops", "writes", "erases"} /\ (stage'[w] = "erases" <=> w = Un)
        /\ UNCHANGED tokens /\ rest' = [rest EXCEPT ![w] = @ \ {v}]
    BY <1>0, <1>5, StartFacts DEF NextVoice, Un
  <2>2. Promoted' = Promoted BY <2>1, SameTokens
  <2>3. WriteInv' BY <1>0, <1>1, <1>2, <1>3, <2>1, <2>2, TypeFacts DEF WriteInv
  <2> QED BY <1>1, <1>2, <2>2, <2>3 DEF DoneInv, RowInv, Underway
<1>6. ASSUME NEW v \in Voices, NextAlias(w, v) PROVE WriteInv' /\ DoneInv' /\ RowInv'
  <2>1. Promoted' = Promoted BY <1>6 DEF NextAlias, Promoted
  <2>2. UNCHANGED <<rest, on, stage>> BY <1>6 DEF NextAlias
  <2> QED BY <1>1, <1>2, <2>1, <2>2 DEF WriteInv, DoneInv, RowInv, Underway
<1>7. ASSUME NEW v \in Voices, WritePrimary(w, v) PROVE WriteInv' /\ DoneInv' /\ RowInv'
  <2>1. /\ v \in on[w] /\ Promoted' = Promoted \union {v} /\ UNCHANGED <<rest, on>>
        /\ stage[w] \in {"writes", "drops"} /\ stage' = [stage EXCEPT ![w] = "adds"]
    BY <1>7 DEF WritePrimary, Promoted
  <2>2. w \in Promoting /\ pc[w] = "writing" /\ v \in job[w] /\ ok[w] /\ \A x \in on[w] : x = v
    BY <1>0, <1>1, <1>2, <1>3, <2>1 DEF HandInv, Removing, WriteInv, Un
  <2>3. v \notin job[Un] BY <1>1, <1>2, <2>2 DEF CrossInv
  <2>4. WriteInv'
    BY <1>0, <1>1, <1>2, <2>1, <2>2, <2>3, TypeFacts DEF WriteInv
  <2>5. DoneInv' BY <1>1, <1>2, <2>1, <2>3 DEF DoneInv
  <2>6. RowInv' BY <1>1, <1>2, <2>1, <2>2 DEF RowInv, Underway
  <2> QED BY <2>4, <2>5, <2>6
<1>8. ASSUME NEW v \in Voices, ErasePrimary(w, v) PROVE WriteInv' /\ DoneInv' /\ RowInv'
  <2>1. /\ v \in on[w] /\ Promoted' = Promoted \ {v} /\ UNCHANGED <<rest, on>>
        /\ stage[w] = "erases" /\ stage' = [stage EXCEPT ![w] = "clears"]
    BY <1>8 DEF ErasePrimary, Promoted
  <2>2. w = Un /\ pc[w] = "writing" /\ v \in job[w] /\ ok[w] /\ \A x \in on[w] : x = v
    BY <1>0, <1>1, <1>2, <1>3, <2>1 DEF HandInv, Removing, WriteInv, Un
  <2>3. \A c \in Promoting : v \notin job[c] BY <1>1, <1>2, <2>2 DEF CrossInv
  <2>4. WriteInv'
    BY <1>0, <1>1, <1>2, <2>1, <2>2, <2>3, TypeFacts DEF WriteInv
  <2>5. DoneInv' BY <1>1, <1>2, <2>1, <2>3 DEF DoneInv
  <2>6. RowInv' BY <1>1, <1>2, <2>1, <2>2 DEF RowInv, Underway
  <2> QED BY <2>4, <2>5, <2>6
<1>9. CASE VoiceDone(w)
  <2>1. /\ stage[w] \in {"adds", "clears"} /\ on' = [on EXCEPT ![w] = {}]
        /\ stage' = [stage EXCEPT ![w] = "none"] /\ UNCHANGED <<tokens, rest>>
    BY <1>9 DEF VoiceDone, hklm
  <2>2. Promoted' = Promoted BY <2>1, SameTokens
  <2>3. WriteInv' BY <1>0, <1>1, <1>2, <1>3, <2>1, <2>2, TypeFacts DEF WriteInv
  <2>4. DoneInv' /\ RowInv' BY <1>1, <1>2, <2>2 DEF DoneInv, RowInv, Underway
  <2> QED BY <1>4, <2>3, <2>4 DEF TrueInv
<1> QED BY <1>1, <1>4, <1>5, <1>6, <1>7, <1>8, <1>9 DEF WriterSteps, VoiceFails, TrueInv

\* A .reg file is written.  A direct write that broke off is excused.
LEMMA WriteKeepsRows ==
    ASSUME RowsInv, NEW c \in Commands, NEW J \in SUBSET Voices, WriteReg(c, J)
    PROVE  TrueInv'
<1> USE CommandFacts
<1> SUFFICES ASSUME ~excused' PROVE TrueInv'
    BY DEF TrueInv, CrossInv, FileInv, WriteInv, DoneInv, RowInv
<1>0. SafeInv BY DEF RowsInv
<1>1. /\ ~excused /\ file[FileOf(c, J)] = NoBatch
      /\ pc' = [pc EXCEPT ![c] = "asking"] /\ file' = [file EXCEPT ![FileOf(c, J)] = Batch(c, J)]
      /\ UNCHANGED <<tokens, ok, late, rest, on, stage, at, installed>>
  BY DEF WriteReg, hklm, direct, reader, rows
<1>2. CrossInv /\ FileInv /\ WriteInv /\ DoneInv /\ RowInv BY DEF RowsInv, TrueInv
<1>3. NextJob(c, J) BY <1>1, <1>2 DEF WriteReg, DirectOver, WriteInv
<1>4. /\ J \subseteq work[c] /\ J # {} /\ pc[c] = "working" /\ job[c] = {}
      /\ work' = [work EXCEPT ![c] = @ \ J] /\ job' = [job EXCEPT ![c] = J]
      /\ FileOf(c, J) \in Files
  BY <1>0, <1>3, JobFacts, FileIsOne
<1>5. Promoted' = Promoted BY <1>1, SameTokens
<1>6. CrossInv' BY <1>0, <1>1, <1>2, <1>4, TypeFacts DEF CrossInv, Still, CliIdle
<1>7. WriteInv' /\ DoneInv' /\ RowInv'
  BY <1>0, <1>1, <1>2, <1>4, <1>5, TypeFacts DEF WriteInv, DoneInv, RowInv, Underway
<1>8. FileInv'
  <2>1. \A d \in Commands \ {c} : job'[d] = job[d] /\ pc'[d] = pc[d] /\ (Doing(d) => job[d] # {})
    BY <1>0, <1>1, <1>4 DEF SafeInv, TypeOK, Doing
  <2>2. ASSUME NEW d \in Commands \ {c}, pc[d] = "asking" \/ (d \in Promoting /\ pc[d] = "imported")
        PROVE  FileOf(d, job[d]) # FileOf(c, J) /\ Fits(file[FileOf(d, job[d])], d, job[d])
    <3>1. Fits(file[FileOf(d, job[d])], d, job[d]) BY <1>1, <1>2, <2>2 DEF FileInv
    <3>2. ~Fits(NoBatch, d, job[d]) BY <2>1, <2>2, BatchFacts DEF Fits, Doing
    <3> QED BY <1>1, <3>1, <3>2
  <2>3. Fits(Batch(c, J), c, J) BY BatchFacts DEF Fits, Batch
  <2>4. job'[c] = J /\ pc'[c] = "asking" BY <1>0, <1>1, <1>4, TypeFacts
  <2>5. ASSUME NEW d \in Commands, pc'[d] = "asking" \/ (d \in Promoting /\ pc'[d] = "imported")
        PROVE  Fits(file'[FileOf(d, job'[d])], d, job'[d])
    <3>1. CASE d = c
      <4>1. file'[FileOf(c, J)] = Batch(c, J) BY <1>0, <1>1, <1>4, TypeFacts
      <4> QED BY <2>3, <2>4, <3>1, <4>1
    <3>2. CASE d # c
      <4>1. FileOf(d, job[d]) # FileOf(c, J) /\ Fits(file[FileOf(d, job[d])], d, job[d])
        BY <2>1, <2>2, <2>5, <3>2
      <4>2. file'[FileOf(d, job[d])] = file[FileOf(d, job[d])]
        BY <1>0, <1>1, <4>1, TypeFacts DEF FileOf, Files
      <4> QED BY <2>1, <3>2, <4>1, <4>2
    <3> QED BY <3>1, <3>2
  <2>6. ASSUME NEW d \in Promoting, NEW e \in Promoting, Doing(d)', Doing(e)',
               FileOf(d, job'[d]) = FileOf(e, job'[e])
        PROVE  d = e
    <3>1. CASE d = c /\ e # c BY <2>1, <2>2, <2>4, <2>6, <3>1 DEF Doing
    <3>2. CASE e = c /\ d # c BY <2>1, <2>2, <2>4, <2>6, <3>2 DEF Doing
    <3>3. CASE d # c /\ e # c BY <1>1, <1>2, <2>1, <2>6, <3>3 DEF Doing, FileInv
    <3> QED BY <3>1, <3>2, <3>3
  <2> QED BY <2>5, <2>6 DEF FileInv, FileOf
<1> QED BY <1>6, <1>7, <1>8 DEF TrueInv

\* reg.exe imports the file, or nothing comes of it.
LEMMA ImportKeepsRows ==
    ASSUME RowsInv, NEW c \in Commands, Import(c) \/ ImportFails(c)
    PROVE  TrueInv'
<1> USE CommandFacts
<1> SUFFICES ASSUME ~excused' PROVE TrueInv'
    BY DEF TrueInv, CrossInv, FileInv, WriteInv, DoneInv, RowInv
<1>0. SafeInv BY DEF RowsInv
<1>1. /\ pc[c] = "asking" /\ pc' = [pc EXCEPT ![c] = "imported"] /\ ~excused
      /\ UNCHANGED <<file, work, job, late, rest, on, stage, at, installed>>
  BY DEF Import, ImportFails, direct, reader, rows
<1>2. CrossInv /\ FileInv /\ WriteInv /\ DoneInv /\ RowInv BY DEF RowsInv, TrueInv
<1>3. CrossInv' BY <1>1, <1>2 DEF CrossInv, Still, CliIdle
<1>4. FileInv'
  <2>1. \A d \in Commands : FileOf(d, job[d])' = FileOf(d, job[d]) BY <1>1 DEF FileOf
  <2> QED BY <1>0, <1>1, <1>2, <2>1, TypeFacts DEF FileInv, Doing
<1>5. CASE ImportFails(c)
  <2>1. Promoted' = Promoted /\ ok' = [ok EXCEPT ![c] = FALSE]
    BY <1>5, SameTokens DEF ImportFails, hklm
  <2>2. WriteInv' /\ DoneInv' /\ RowInv'
    BY <1>0, <1>1, <1>2, <2>1, TypeFacts DEF WriteInv, DoneInv, RowInv, Underway
  <2> QED BY <1>3, <1>4, <2>2 DEF TrueInv
<1>6. CASE Import(c)
  <2> DEFINE b == file[FileOf(c, job[c])]
  <2>1. b \in Batches /\ job[c] \subseteq Voices BY <1>0, TypeFacts, FileIsOne
  <2>2. Promoted' = (Promoted \ Primaries(b.del)) \union Primaries(b.add)
    BY <1>0, <1>6, <2>1, ImportFacts DEF Import, SafeInv, TypeOK
  <2>3. Fits(b, c, job[c]) BY <1>1, <1>2 DEF FileInv
  <2>4. Primaries({}) = {} BY DEF Primaries
  <2>5. Promoted' = IF c \in Promoting THEN Promoted \union job[c] ELSE Promoted \ job[c]
    <3>1. CASE c \in Promoting BY <2>2, <2>3, <3>1 DEF Fits
    <3>2. CASE c \notin Promoting BY <2>2, <2>3, <2>4, <3>2 DEF Fits
    <3> QED BY <3>1, <3>2
  <2>6. ok' = [ok EXCEPT ![c] = TRUE] BY <1>6 DEF Import
  <2>7. \A d \in Promoting : job[d] \intersect job[Un] = {} BY <1>1, <1>2 DEF CrossInv
  <2>8. WriteInv'
    BY <1>0, <1>1, <1>2, <2>5, <2>6, <2>7, TypeFacts DEF WriteInv
  <2>9. DoneInv'
    BY <1>0, <1>1, <1>2, <2>5, <2>6, <2>7, TypeFacts DEF DoneInv
  <2>10. RowInv'
    BY <1>0, <1>1, <1>2, <2>5, <2>6, TypeFacts DEF RowInv, Underway
  <2> QED BY <1>3, <1>4, <2>8, <2>9, <2>10 DEF TrueInv
<1> QED BY <1>5, <1>6

\* A job is concluded.  Rows that a load has replaced are excused.
LEMMA ConcludeKeepsRows ==
    ASSUME RowsInv, NEW c \in Commands, Conclude(c)
    PROVE  TrueInv'
<1> USE CommandFacts
<1> SUFFICES ASSUME ~excused' PROVE TrueInv'
    BY DEF TrueInv, CrossInv, FileInv, WriteInv, DoneInv, RowInv
<1>0. SafeInv BY DEF RowsInv
<1>1. /\ pc[c] \in {"written", "imported"} /\ job' = [job EXCEPT ![c] = {}]
      /\ pc' = [pc EXCEPT ![c] = IF work[c] # {} THEN "working"
                                ELSE IF c = "PromoteSelected" THEN "applying" ELSE "idle"]
      /\ file' = IF pc[c] = "imported" THEN [file EXCEPT ![FileOf(c, job[c])] = NoBatch] ELSE file
      /\ UNCHANGED <<tokens, work, ok, late, rest, on, stage, at>>
  BY DEF Conclude, hklm, direct
<1>2. /\ ~excused
      /\ installed' = IF ~ok[c] \/ c = "PromoteSelected" THEN installed
                      ELSE IF c = "Promote" THEN installed \union job[c] ELSE installed \ job[c]
  <2>1. CASE ok[c] /\ c # "PromoteSelected" /\ c \notin stale BY <2>1 DEF Conclude
  <2>2. CASE ok[c] /\ c # "PromoteSelected" /\ c \in stale BY <2>2 DEF Conclude
  <2>3. CASE ~(ok[c] /\ c # "PromoteSelected") BY <2>3 DEF Conclude
  <2> QED BY <2>1, <2>2, <2>3
<1>3. CrossInv /\ FileInv /\ WriteInv /\ DoneInv /\ RowInv BY DEF RowsInv, TrueInv
<1>4. Promoted' = Promoted BY <1>1, SameTokens
<1>5. pc'[c] \in {"working", "applying", "idle"} /\ job'[c] = {} BY <1>0, <1>1, TypeFacts
<1>6. \A d \in Commands \ {c} : job'[d] = job[d] /\ pc'[d] = pc[d] BY <1>0, <1>1, TypeFacts
<1>7. CrossInv' BY <1>0, <1>1, <1>2, <1>3, TypeFacts DEF CrossInv, Still, CliIdle
<1>8. WriteInv' /\ DoneInv' BY <1>1, <1>2, <1>3, <1>4, <1>5, <1>6 DEF WriteInv, DoneInv
<1>9. FileInv'
  <2>1. ASSUME NEW d \in Commands \ {c},
               pc[d] = "asking" \/ (d \in Promoting /\ pc[d] = "imported"), pc[c] = "imported"
        PROVE  FileOf(d, job[d]) # FileOf(c, job[c])
    <3>1. CASE c \in Promoting /\ d \in Promoting
      BY <1>2, <1>3, <2>1, <3>1 DEF FileInv, Doing
    <3>2. CASE c = Un \/ d = Un BY <2>1, <3>2, FileFacts
    <3> QED BY <3>1, <3>2
  <2>2. ASSUME NEW d \in Commands \ {c},
               pc[d] = "asking" \/ (d \in Promoting /\ pc[d] = "imported")
        PROVE  file'[FileOf(d, job[d])] = file[FileOf(d, job[d])]
    BY <1>0, <1>1, <2>1, <2>2, TypeFacts DEF FileOf, Files
  <2>3. ASSUME NEW d \in Commands, pc'[d] = "asking" \/ (d \in Promoting /\ pc'[d] = "imported")
        PROVE  Fits(file'[FileOf(d, job'[d])], d, job'[d])
    <3>1. d # c BY <1>5, <2>3
    <3>2. Fits(file[FileOf(d, job[d])], d, job[d]) BY <1>2, <1>3, <1>6, <2>3, <3>1 DEF FileInv
    <3> QED BY <1>6, <2>2, <2>3, <3>1, <3>2
  <2>4. ASSUME NEW d \in Promoting, NEW e \in Promoting, Doing(d)', Doing(e)',
               FileOf(d, job'[d]) = FileOf(e, job'[e])
        PROVE  d = e
    <3>1. d # c /\ e # c BY <1>5, <2>4 DEF Doing
    <3> QED BY <1>2, <1>3, <1>6, <2>4, <3>1 DEF Doing, FileInv
  <2> QED BY <2>3, <2>4 DEF FileInv, FileOf
<1>10. RowInv'
  <2>1. ok[c] => IF c \in Promoting THEN job[c] \subseteq Promoted
                 ELSE job[c] \intersect Promoted = {}
    BY <1>1, <1>2, <1>3 DEF DoneInv
  <2>2. CASE c = "PromoteSelected"
    <3>1. pc'[c] # "idle" BY <1>0, <1>1, <2>2, TypeFacts
    <3>2. \A d \in Commands \ {c} : Underway(d)' = Underway(d) BY <1>1, <1>6 DEF Underway
    <3> QED BY <1>1, <1>2, <1>3, <1>4, <1>6, <2>2, <3>1, <3>2 DEF RowInv
  <2>3. CASE c = "Promote"
    <3>1. \A d \in Commands \ {c} : Underway(d)' = Underway(d) BY <1>1, <1>6 DEF Underway
    <3>2. CASE ok[c]
      <4>1. installed' = installed \union job[c] BY <1>2, <2>3, <3>2
      <4> QED BY <1>1, <1>2, <1>3, <1>4, <1>6, <2>1, <2>3, <3>1, <3>2, <4>1 DEF RowInv
    <3>3. CASE ~ok[c]
      <4>1. installed' = installed /\ ~Underway(c) BY <1>2, <3>3 DEF Underway
      <4> QED BY <1>1, <1>2, <1>3, <1>4, <1>6, <2>3, <3>1, <4>1 DEF RowInv
    <3> QED BY <3>2, <3>3
  <2>4. CASE c = Un
    <3>1. \A d \in Commands \ {c} : Underway(d)' = Underway(d) BY <1>1, <1>6 DEF Underway
    <3>2. CASE ok[c]
      <4>1. installed' = installed \ job[c] BY <1>2, <2>4, <3>2
      <4> QED BY <1>1, <1>2, <1>3, <1>4, <1>6, <2>1, <2>4, <3>1, <3>2, <4>1 DEF RowInv
    <3>3. CASE ~ok[c]
      <4>1. installed' = installed /\ ~Underway(c) BY <1>2, <3>3 DEF Underway
      <4> QED BY <1>1, <1>2, <1>3, <1>4, <1>6, <2>4, <3>1, <4>1 DEF RowInv
    <3> QED BY <3>2, <3>3
  <2> QED BY <2>2, <2>3, <2>4
<1> QED BY <1>7, <1>8, <1>9, <1>10 DEF TrueInv

\* Rows are marked as of what was read.
LEMMA MarksKeepRows ==
    ASSUME RowsInv, PromoteSelectedMarks \/ \E r \in Refreshes : RefreshMarks(r)
    PROVE  TrueInv'
<1> USE CommandFacts
<1> SUFFICES ASSUME ~excused' PROVE TrueInv'
    BY DEF TrueInv, CrossInv, FileInv, WriteInv, DoneInv, RowInv
<1> DEFINE quiet == \A c \in Commands \ {"PromoteSelected"} : pc[c] = "idle"
<1>0. SafeInv BY DEF RowsInv
<1>1. /\ UNCHANGED <<tokens, file, work, job, ok, late, rest, on, stage>>
      /\ installed' = Promoted
      /\ ~excused \/ (quiet /\ Still /\ CliIdle /\ pc'["PromoteSelected"] = "idle")
      /\ \/ pc' = pc
         \/ pc["PromoteSelected"] = "applying" /\ pc' = [pc EXCEPT !["PromoteSelected"] = "idle"]
  <2>1. CASE PromoteSelectedMarks
    <3>1. UNCHANGED <<tokens, file, work, job, ok, late, rest, on, stage>>
      BY <2>1 DEF PromoteSelectedMarks, hklm, direct
    <3>2. installed' = Promoted /\ (~excused \/ (quiet /\ Still /\ CliIdle))
      BY <2>1 DEF PromoteSelectedMarks, Marks
    <3>3. /\ pc["PromoteSelected"] = "applying" /\ pc' = [pc EXCEPT !["PromoteSelected"] = "idle"]
          /\ pc'["PromoteSelected"] = "idle"
      BY <1>0, <2>1, TypeFacts DEF PromoteSelectedMarks
    <3> QED BY <3>1, <3>2, <3>3
  <2>2. ASSUME NEW r \in Refreshes, RefreshMarks(r)
        PROVE  /\ UNCHANGED <<tokens, file, work, job, ok, late, rest, on, stage, pc>>
               /\ installed' = Promoted
               /\ ~excused \/ (quiet /\ Still /\ CliIdle /\ pc'["PromoteSelected"] = "idle")
    <3>1. UNCHANGED <<tokens, file, work, job, ok, late, rest, on, stage, pc>>
      BY <2>2 DEF RefreshMarks, hklm, direct, progress
    <3>2. installed' = Promoted /\ (~excused \/ Idle) BY <2>2 DEF RefreshMarks, Marks
    <3> QED BY <3>1, <3>2 DEF Idle
  <2> QED BY <2>1, <2>2
<1>2. Promoted' = Promoted BY <1>1, SameTokens
<1>3. \A d \in Commands : pc'[d] = pc[d] \/ (pc[d] = "applying" /\ pc'[d] = "idle")
  BY <1>0, <1>1, TypeFacts
<1>4. RowInv' BY <1>1, <1>2 DEF RowInv
<1>5. CASE ~excused
  <2>1. CrossInv' BY <1>1, <1>5 DEF RowsInv, TrueInv, CrossInv, Still, CliIdle
  <2>2. FileInv'
    <3>1. \A d \in Commands : FileOf(d, job[d])' = FileOf(d, job[d]) BY <1>1 DEF FileOf
    <3> QED BY <1>1, <1>3, <1>5, <3>1 DEF RowsInv, TrueInv, FileInv, Doing
  <2>3. WriteInv' /\ DoneInv'
    BY <1>1, <1>2, <1>3, <1>5 DEF RowsInv, TrueInv, WriteInv, DoneInv
  <2> QED BY <1>4, <2>1, <2>2, <2>3 DEF TrueInv
<1>6. CASE excused
  <2>1. Still /\ CliIdle /\ \A c \in Commands : pc'[c] = "idle" BY <1>1, <1>3, <1>6
  <2>2. \A c \in Commands : pc[c] \in {"idle", "applying"} BY <1>3, <2>1
  <2>3. \A c \in Commands : work[c] = {} /\ job[c] = {}
    BY <1>0, <2>2 DEF SafeInv, TypeOK, WorkInv
  <2>4. CrossInv' BY <1>1, <2>1, <2>3 DEF CrossInv, Still, CliIdle
  <2>5. FileInv' /\ WriteInv' /\ DoneInv' BY <2>1 DEF FileInv, Doing, WriteInv, DoneInv
  <2> QED BY <1>4, <2>4, <2>5 DEF TrueInv
<1> QED BY <1>5, <1>6

\* A load replaces the rows.
LEMMA LoadKeepsRows ==
    ASSUME RowsInv, LoadReplaces
    PROVE  TrueInv'
<1>1. /\ UNCHANGED <<tokens, file, pc, work, job, ok, late, rest, on, stage, excused>>
      /\ installed' = {} /\ at' = [at EXCEPT !["LoadVoices"] = "rows"]
      /\ at \in [Refreshes -> {"no", "rows", "read"}]
  BY DEF LoadReplaces, hklm, progress, direct, RowsInv, SafeInv, TypeOK
<1>2. at'["LoadVoices"] # "no" BY <1>1 DEF Refreshes
<1>3. Promoted' = Promoted BY <1>1, SameTokens
<1>4. \A d \in Commands : FileOf(d, job[d])' = FileOf(d, job[d]) BY <1>1 DEF FileOf
<1>5. CrossInv' BY <1>1 DEF RowsInv, TrueInv, CrossInv, Still, CliIdle
<1>6. FileInv' BY <1>1, <1>4, CommandFacts DEF RowsInv, TrueInv, FileInv, Doing
<1>7. WriteInv' /\ DoneInv' BY <1>1, <1>3 DEF RowsInv, TrueInv, WriteInv, DoneInv
<1>8. RowInv' BY <1>1, <1>2 DEF RowInv
<1> QED BY <1>5, <1>6, <1>7, <1>8 DEF TrueInv

\* What concerns neither rows nor registry.
LEMMA RestKeepsRows ==
    ASSUME RowsInv,
           UNCHANGED <<tokens, file, pc, work, job, ok, late, rest, on, stage, installed, excused>>,
           at'["LoadVoices"] # "no" \/ at'["LoadVoices"] = at["LoadVoices"]
    PROVE  TrueInv'
<1>1. Promoted' = Promoted BY SameTokens
<1>2. \A d \in Commands : FileOf(d, job[d])' = FileOf(d, job[d]) BY DEF FileOf
<1>3. CrossInv' BY DEF RowsInv, TrueInv, CrossInv, Still, CliIdle
<1>4. FileInv' BY <1>2, CommandFacts DEF RowsInv, TrueInv, FileInv, Doing
<1>5. WriteInv' /\ DoneInv' BY <1>1 DEF RowsInv, TrueInv, WriteInv, DoneInv
<1>6. RowInv' BY <1>1 DEF RowsInv, TrueInv, RowInv, Underway
<1> QED BY <1>3, <1>4, <1>5, <1>6 DEF TrueInv

-----------------------------------------------------------------------------
(* The invariant, and what follows. *)

\* No token, no row, no command.
LEMMA InitHolds == Init => RowsInv
<1> SUFFICES ASSUME Init PROVE RowsInv OBVIOUS
<1> USE CommandFacts
<1>0. NoBatch \in Batches /\ Sound(NoBatch) BY BatchFacts
<1>1. \A c \in Commands : pc[c] = "idle" /\ work[c] = {} /\ job[c] = {} /\ late[c] = NoBatch
  BY DEF Init
<1>2. \A w \in Writers : rest[w] = {} /\ on[w] = {} /\ stage[w] = "none" BY DEF Init
<1>3. tokens = {} /\ installed = {} /\ Promoted = {} BY DEF Init, Promoted
<1>4. TypeOK
  <2>1. /\ admin \in BOOLEAN /\ enUs \in BOOLEAN /\ arabic \in BOOLEAN
        /\ excused \in BOOLEAN /\ loading \in BOOLEAN
    BY DEF Init
  <2>2. actions \in 0 .. MaxActions BY MaxActionsAssumption DEF Init
  <2>3. /\ file \in [Files -> Batches] /\ late \in [Commands -> Batches]
        /\ ok \in [Commands -> BOOLEAN] /\ written \in [Voices -> SUBSET Aliases]
    BY <1>0 DEF Init
  <2>4. /\ pc \in [Commands -> {"idle", "working", "writing", "written", "asking", "imported",
                                "applying"}]
        /\ work \in [Commands -> SUBSET Voices] /\ job \in [Commands -> SUBSET Voices]
    BY DEF Init
  <2>5. /\ rest \in [Writers -> SUBSET Voices] /\ on \in [Writers -> SUBSET Voices]
        /\ stage \in [Writers -> {"none", "drops", "writes", "adds", "erases", "clears"}]
        /\ left \in [Writers -> SUBSET Aliases]
        /\ at \in [Refreshes -> {"no", "rows", "read"}] /\ listed \in [Readers -> SUBSET Voices]
        /\ stale \subseteq Commands /\ torn \subseteq Voices
    BY DEF Init
  <2> QED BY <1>1, <1>2, <1>3, <2>1, <2>2, <2>3, <2>4, <2>5 DEF TypeOK
<1>5. WorkInv /\ HandInv BY <1>1, <1>2 DEF WorkInv, HandInv
<1>6. BatchInv BY <1>0 DEF Init, BatchInv
<1>7. OrphanInv BY <1>2, <1>3 DEF OrphanInv, NoOrphanAlias, HandsInv, AliasesIn
<1>8. CrossInv BY <1>1, <1>2 DEF CrossInv, Still, CliIdle
<1>9. FileInv /\ WriteInv /\ DoneInv BY <1>1 DEF FileInv, Doing, WriteInv, DoneInv
<1>10. RowInv BY <1>3 DEF RowInv
<1> QED BY <1>4, <1>5, <1>6, <1>7, <1>8, <1>9, <1>10 DEF RowsInv, SafeInv, TrueInv

\* Every step keeps the invariant.
LEMMA NextHolds == RowsInv /\ [Next]_vars => RowsInv'
<1> SUFFICES ASSUME RowsInv, [Next]_vars PROVE TrueInv'
    BY NextKeepsSafe, NextKeepsOrphan DEF RowsInv
<1> USE DEF hklm, progress, direct, reader, rows
<1>0. excused' => TrueInv' BY DEF TrueInv, CrossInv, FileInv, WriteInv, DoneInv, RowInv
<1>1. ASSUME NEW c \in Commands, CommandSteps(c) PROVE TrueInv'
  <2>1. CASE ImportLate(c) BY <1>0, <2>1 DEF ImportLate
  <2>2. CASE LateImportEnds(c)
    <3>1. excused' BY <2>2 DEF LateImportEnds, RowsInv, TrueInv, CrossInv, Still
    <3> QED BY <1>0, <3>1
  <2> QED
    BY <1>1, <2>1, <2>2, BeginKeepsRows, DirectKeepsRows, DirectDoneKeepsRows, WriteKeepsRows,
       ImportKeepsRows, ConcludeKeepsRows DEF CommandSteps
<1>2. ASSUME NEW w \in Writers, WriterSteps(w) PROVE TrueInv' BY <1>2, WriterKeepsRows
<1>3. CASE PromoteSelectedMarks \/ \E r \in Refreshes : RefreshMarks(r) BY <1>3, MarksKeepRows
<1>4. CASE LoadReplaces BY <1>4, LoadKeepsRows
<1>5. ASSUME NEW r \in Refreshes, RefreshReads(r) PROVE TrueInv'
  <2>1. at'["LoadVoices"] # "no" \/ at'["LoadVoices"] = at["LoadVoices"]
    BY <1>5 DEF RefreshReads, Refreshes, RowsInv, SafeInv, TypeOK
  <2>2. UNCHANGED <<tokens, file, pc, work, job, ok, late, rest, on, stage, installed, excused>>
    BY <1>5 DEF RefreshReads
  <2> QED BY <2>1, <2>2, RestKeepsRows
<1>6. CASE ToggleEnUs \/ ToggleArabic \/ UNCHANGED vars
  <2>1. UNCHANGED <<tokens, file, pc, work, job, ok, late, rest, on, stage, installed, excused, at>>
    BY <1>6 DEF ToggleEnUs, ToggleArabic, vars
  <2> QED BY <2>1, RestKeepsRows
<1>7. CASE \/ CliPromoteAll
           \/ \E v \in Cloud : CliPromote(v)
           \/ \E v \in Voices : CliUnpromote(v)
  BY <1>0, <1>7 DEF CliPromoteAll, CliPromote, CliUnpromote, Cli
<1> QED BY <1>1, <1>2, <1>3, <1>4, <1>5, <1>6, <1>7 DEF Next

\* Commands, prompts, direct writes, refreshes, loads and the command line
\* keep the invariant.
THEOREM RowsInvAlways == Spec => []RowsInv
<1> QED BY InitHolds, NextHolds, PTL DEF Spec

\* Every variable keeps to its type: a command has a job exactly while it is
\* being done, and a writer is in a stage exactly while it has a voice.
THEOREM TypesHold == Spec => []TypeOK
<1>1. RowsInv => TypeOK BY DEF RowsInv, SafeInv
<1> QED BY <1>1, RowsInvAlways, PTL

\* No alias is left without its voice, however imports and direct writes fall
\* between each other: only in the middle of a removal, or for a voice whose
\* write broke off or overlapped the opposite.
THEOREM AliasesHaveVoices == Spec => []NoOrphanAlias
<1>1. RowsInv => NoOrphanAlias BY DEF RowsInv, OrphanInv
<1> QED BY <1>1, RowsInvAlways, PTL

\* The rows marked as installed are the voices with a token, once nothing is
\* under way and nothing excuses them; loads that replace the rows included.
THEOREM RowsAreTrue == Spec => []RowsTellTheTruth
<1>1. RowsInv => RowsTellTheTruth
  <2> SUFFICES ASSUME RowsInv, Idle, \A r \in Refreshes : at[r] = "no", ~excused
               PROVE  installed = Promoted
      BY DEF RowsTellTheTruth
  <2>1. \A c \in Commands : pc[c] = "idle" BY DEF Idle
  <2>2. at["LoadVoices"] = "no" BY DEF Refreshes
  <2>3. Promoted \ installed = {} /\ installed \ Promoted = {}
    BY <2>1, <2>2, CommandFacts DEF RowsInv, TrueInv, RowInv, Underway
  <2> QED BY <2>3
<1> QED BY <1>1, RowsInvAlways, PTL

-----------------------------------------------------------------------------
(* Aliases.  AliasesFollowSettings does not hold (run promotion_alias):    *)
(* this is how far the aliases of a voice and its settings can differ.     *)

\* The aliases a voice of its language can be given at all.
MayHave(v) == {n \in {"enUS"} : v \in Foreign} \union {n \in {"ar"} : v \in Rtl}

\* An installed voice that nobody is writing and that is not torn has every
\* alias it was last installed with, and beside them only left-overs of its
\* own language.
AliasesOnlyLeftOver ==
    \A v \in Voices :
        /\ AliasesIn(tokens, v) \subseteq MayHave(v)
        /\ v \in Promoted \ torn /\ (\A w \in Writers : v \notin on[w]) =>
             written[v] \subseteq AliasesIn(tokens, v)

\* A batch that takes no alias from a voice it does not also write or remove.
Tidy(b) ==
    \A v \in Voices :
        /\ AliasesIn(b.add, v) \subseteq MayHave(v)
        /\ AliasesIn(b.del, v) # {} => v \in Primaries(b.add) \union Primaries(b.del)

\* A voice has the aliases it was last installed with, or a writer has still
\* to add them, or one has begun to install it anew.
GivenInv ==
    \A v \in Promoted \ torn :
        \/ \E w \in Writers : v \in on[w] /\ stage[w] \in {"drops", "writes"}
        \/ \A n \in written[v] :
             <<v, n>> \in tokens \/ \E w \in Writers : v \in on[w] /\ stage[w] = "adds" /\ n \in left[w]

AliasInv ==
    /\ \A v \in Voices :
        /\ AliasesIn(tokens, v) \subseteq MayHave(v)
        /\ \A w \in Writers : v \in on[w] /\ stage[w] = "adds" => left[w] \subseteq MayHave(v)
    /\ GivenInv
    /\ \A f \in Files : Tidy(file[f])
    /\ \A c \in Commands : Tidy(late[c])

\* Whatever the settings are, installing and removing is tidy.
LEMMA BatchesAreTidy ==
    ASSUME NEW J \in SUBSET Voices
    PROVE  Tidy(Installs(J)) /\ Tidy(Removes(J)) /\ Tidy(NoBatch)
<1>1. \A v \in Voices : AliasesFor(v) \subseteq MayHave(v)
    BY DEF AliasesFor, MayHave
<1>2. \A v \in Voices : \A n \in Aliases : n # "primary"
    BY DEF Aliases
<1>3. Tidy(Installs(J))
    <2>1. ASSUME NEW v \in Voices PROVE AliasesIn(Installs(J).add, v) \subseteq MayHave(v)
        BY <1>1, <1>2 DEF Installs, AliasesIn
    <2>2. ASSUME NEW v \in Voices, AliasesIn(Installs(J).del, v) # {}
          PROVE  v \in Primaries(Installs(J).add)
        <3>1. v \in J
            BY <2>2 DEF Installs, AliasesIn
        <3> QED
            BY <3>1, BatchFacts
    <2> QED
        BY <2>1, <2>2 DEF Tidy
<1>4. Tidy(Removes(J))
    <2>1. Removes(J).add = {} /\ Primaries(Removes(J).del) = J
        BY BatchFacts
    <2>2. ASSUME NEW v \in Voices, AliasesIn(Removes(J).del, v) # {} PROVE v \in J
        BY <2>2 DEF Removes, AliasesIn
    <2> QED
        BY <2>1, <2>2 DEF Tidy, AliasesIn
<1>5. Tidy(NoBatch)
    BY DEF NoBatch, Tidy, AliasesIn
<1> QED
    BY <1>3, <1>4, <1>5

\* The part of AliasInv about what is in the registry.
TokensTidy ==
    /\ \A v \in Voices :
        /\ AliasesIn(tokens, v) \subseteq MayHave(v)
        /\ \A w \in Writers : v \in on[w] /\ stage[w] = "adds" => left[w] \subseteq MayHave(v)
    /\ GivenInv

\* An import of a tidy batch.
LEMMA ImportKeepsAliases ==
    ASSUME SafeInv, TokensTidy, NEW b \in Batches, Tidy(b), Imports(b), UNCHANGED <<on, stage, left>>
    PROVE  TokensTidy'
<1> USE DEF AliasesIn
<1>1. \A v \in Voices : AliasesIn(tokens', v) \subseteq MayHave(v)
    BY DEF Imports, TokensTidy, Tidy
<1>2. ASSUME NEW v \in Voices, <<v, "primary">> \in tokens', v \notin torn'
      PROVE  \/ \E w \in Writers : v \in on[w] /\ stage[w] \in {"drops", "writes"}
             \/ \A n \in written'[v] :
                  <<v, n>> \in tokens' \/ \E w \in Writers : v \in on[w] /\ stage[w] = "adds" /\ n \in left[w]
    <2>0. /\ v \notin torn /\ (Touches(b, v) => \A w \in Writers : v \notin on[w])
          /\ tokens' = (tokens \ b.del) \union b.add
          /\ written'[v] = IF <<v, "primary">> \in b.add THEN AliasesIn(b.add, v)
                           ELSE IF <<v, "primary">> \in b.del THEN {} ELSE written[v]
          /\ written[v] \subseteq Aliases
        BY <1>2 DEF Imports, SafeInv, TypeOK
    <2>1. CASE <<v, "primary">> \in b.add
        BY <2>0, <2>1
    <2>2. CASE <<v, "primary">> \notin b.add
        <3>1. <<v, "primary">> \in tokens /\ <<v, "primary">> \notin b.del
            BY <1>2, <2>0, <2>2
        <3>2. AliasesIn(b.del, v) = {} /\ written'[v] = written[v]
            BY <2>0, <2>2, <3>1 DEF Tidy, Primaries
        <3>3. \A n \in written[v] : <<v, n>> \in tokens => <<v, n>> \in tokens'
            BY <2>0, <3>2
        <3>4. \/ \E w \in Writers : v \in on[w] /\ stage[w] \in {"drops", "writes"}
              \/ \A n \in written[v] :
                   <<v, n>> \in tokens \/ \E w \in Writers : v \in on[w] /\ stage[w] = "adds" /\ n \in left[w]
            BY <2>0, <3>1 DEF TokensTidy, GivenInv, Promoted
        <3> QED
            BY <3>2, <3>3, <3>4
    <2> QED
        BY <2>1, <2>2
<1> QED
    BY <1>1, <1>2 DEF TokensTidy, GivenInv, Promoted

\* A voice is begun.
LEMMA StartKeepsAliases ==
    ASSUME SafeInv, TokensTidy, NEW w \in Writers, NEW v \in Voices, NEW removes \in BOOLEAN,
           Starts(w, v, removes)
    PROVE  TokensTidy'
<1>0. /\ on \in [Writers -> SUBSET Voices] /\ left \in [Writers -> SUBSET Aliases]
      /\ stage \in [Writers -> {"none", "drops", "writes", "adds", "erases", "clears"}]
  BY DEF SafeInv, TypeOK
<1>1. /\ on[w] = {} /\ on' = [on EXCEPT ![w] = {v}]
      /\ stage' = [stage EXCEPT ![w] = stage'[w]] /\ left' = [left EXCEPT ![w] = left'[w]]
      /\ stage'[w] \in {"drops", "writes", "erases"}
      /\ torn \subseteq torn' /\ UNCHANGED <<tokens, written>>
  BY StartFacts
<1>2. \A u \in Writers \ {w} : on'[u] = on[u] /\ stage'[u] = stage[u] /\ left'[u] = left[u]
  BY <1>0, <1>1
<1>3. Promoted' = Promoted /\ \A x \in Voices : AliasesIn(tokens', x) = AliasesIn(tokens, x)
  BY <1>1 DEF Promoted, AliasesIn
<1>4. GivenInv' BY <1>1, <1>2, <1>3 DEF TokensTidy, GivenInv
<1> QED BY <1>1, <1>2, <1>3, <1>4 DEF TokensTidy

\* One alias is dropped, added or deleted.
LEMMA AliasKeepsAliases ==
    ASSUME SafeInv, OrphanInv, TokensTidy, NEW w \in Writers, NEW v \in Voices, NextAlias(w, v)
    PROVE  TokensTidy'
<1> DEFINE n == IF "enUS" \in left[w] THEN "enUS" ELSE "ar"
<1>1. /\ v \in on[w] /\ left[w] # {} /\ left[w] \subseteq Aliases
      /\ stage[w] \in {"drops", "adds", "clears"}
      /\ tokens' = IF stage[w] = "adds" THEN tokens \union {<<v, n>>} ELSE tokens \ {<<v, n>>}
      /\ left' = [left EXCEPT ![w] = @ \ {n}] /\ UNCHANGED <<torn, on, stage, written>>
      /\ left \in [Writers -> SUBSET Aliases]
      /\ \A x \in on[w] : x = v
  BY DEF NextAlias, SafeInv, TypeOK, HandInv
<1>2. n \in left[w] /\ n \in Aliases /\ n # "primary" BY <1>1 DEF Aliases
<1> HIDE DEF n
<1>3. Promoted' = Promoted BY <1>1, <1>2 DEF Promoted
<1>4. \A u \in Writers \ {w} : left'[u] = left[u] BY <1>1
<1>5. left'[w] = left[w] \ {n} BY <1>1
<1>6. ASSUME NEW x \in Voices PROVE AliasesIn(tokens', x) \subseteq MayHave(x)
  <2>1. AliasesIn(tokens, x) \subseteq MayHave(x) BY DEF TokensTidy
  <2>2. stage[w] = "adds" => n \in MayHave(v) BY <1>1, <1>2 DEF TokensTidy
  <2> QED BY <1>1, <2>1, <2>2 DEF AliasesIn
<1>7. ASSUME NEW x \in Promoted \ torn
      PROVE  \/ \E u \in Writers : x \in on[u] /\ stage[u] \in {"drops", "writes"}
             \/ \A m \in written[x] :
                  \/ <<x, m>> \in tokens'
                  \/ \E u \in Writers : x \in on[u] /\ stage[u] = "adds" /\ m \in left'[u]
  <2> SUFFICES ASSUME ~\E u \in Writers : x \in on[u] /\ stage[u] \in {"drops", "writes"},
                      NEW m \in written[x]
               PROVE  \/ <<x, m>> \in tokens'
                      \/ \E u \in Writers : x \in on[u] /\ stage[u] = "adds" /\ m \in left'[u]
      OBVIOUS
  <2>1. <<x, m>> \in tokens \/ \E u \in Writers : x \in on[u] /\ stage[u] = "adds" /\ m \in left[u]
    BY <1>7 DEF TokensTidy, GivenInv
  <2>2. CASE <<x, m>> \in tokens
    <3>1. x = v => stage[w] = "adds"
      <4> SUFFICES ASSUME x = v, stage[w] # "adds" PROVE FALSE OBVIOUS
      <4>1. stage[w] = "clears" BY <1>1
      <4>2. stage[w] # "clears" BY <1>1, <1>7 DEF OrphanInv, HandsInv, Promoted
      <4> QED BY <4>1, <4>2
    <3> QED BY <1>1, <2>2, <3>1
  <2>3. CASE \E u \in Writers : x \in on[u] /\ stage[u] = "adds" /\ m \in left[u]
    <3>1. PICK u \in Writers : x \in on[u] /\ stage[u] = "adds" /\ m \in left[u] BY <2>3
    <3>2. CASE u # w BY <1>4, <3>1, <3>2
    <3>3. CASE u = w BY <1>1, <1>5, <3>1, <3>3
    <3> QED BY <3>2, <3>3
  <2> QED BY <2>1, <2>2, <2>3
<1>8. GivenInv' BY <1>1, <1>3, <1>7 DEF GivenInv
<1>9. \A x \in Voices : \A u \in Writers : x \in on[u] /\ stage[u] = "adds" =>
         left'[u] \subseteq MayHave(x)
  BY <1>4, <1>5 DEF TokensTidy
<1> QED BY <1>1, <1>6, <1>8, <1>9 DEF TokensTidy

\* The primary token is written or deleted.
LEMMA PrimaryKeepsAliases ==
    ASSUME SafeInv, TokensTidy, NEW w \in Writers, NEW v \in Voices,
           WritePrimary(w, v) \/ ErasePrimary(w, v)
    PROVE  TokensTidy'
<1>0. /\ on \in [Writers -> SUBSET Voices] /\ left \in [Writers -> SUBSET Aliases]
      /\ stage \in [Writers -> {"none", "drops", "writes", "adds", "erases", "clears"}]
      /\ written \in [Voices -> SUBSET Aliases] /\ \A x \in on[w] : x = v
  BY DEF WritePrimary, ErasePrimary, SafeInv, TypeOK, HandInv
<1>1. /\ v \in on[w] /\ UNCHANGED <<torn, on>>
      /\ stage' = [stage EXCEPT ![w] = stage'[w]] /\ left' = [left EXCEPT ![w] = left'[w]]
      /\ \/ /\ WritePrimary(w, v)
            /\ stage'[w] = "adds" /\ left'[w] \subseteq MayHave(v)
            /\ Promoted' = Promoted \union {v} /\ written' = [written EXCEPT ![v] = left'[w]]
         \/ /\ ErasePrimary(w, v)
            /\ stage[w] = "erases" /\ stage'[w] = "clears"
            /\ Promoted' = Promoted \ {v} /\ written' = [written EXCEPT ![v] = {}]
  <2>1. CASE WritePrimary(w, v)
    <3>1. left'[w] \subseteq MayHave(v)
      BY <1>0, <2>1 DEF WritePrimary, AliasesFor, MayHave
    <3> QED BY <1>0, <2>1, <3>1 DEF WritePrimary, Promoted
  <2>2. CASE ErasePrimary(w, v) BY <1>0, <2>2 DEF ErasePrimary, Promoted
  <2> QED BY <2>1, <2>2
<1>2. "primary" \notin Aliases BY DEF Aliases
<1>3. \A x \in Voices : \A n \in Aliases : <<x, n>> \in tokens' <=> <<x, n>> \in tokens
  BY <1>2 DEF WritePrimary, ErasePrimary
<1>4. \A u \in Writers \ {w} : stage'[u] = stage[u] /\ left'[u] = left[u] BY <1>0, <1>1
<1>5. \A x \in Voices : AliasesIn(tokens', x) = AliasesIn(tokens, x) BY <1>3 DEF AliasesIn
<1>6. \A x \in Voices : \A u \in Writers : x \in on[u] /\ stage'[u] = "adds" =>
         left'[u] \subseteq MayHave(x)
  BY <1>0, <1>1, <1>4 DEF TokensTidy
<1>7. ASSUME NEW x \in Promoted', x \notin torn
      PROVE  \/ \E u \in Writers : x \in on[u] /\ stage'[u] \in {"drops", "writes"}
             \/ \A n \in written'[x] :
                  \/ <<x, n>> \in tokens'
                  \/ \E u \in Writers : x \in on[u] /\ stage'[u] = "adds" /\ n \in left'[u]
  <2>1. x \in Voices BY <1>7 DEF Promoted
  <2>2. CASE x = v BY <1>0, <1>1, <1>7, <2>2
  <2>3. CASE x # v
    <3>1. x \in Promoted /\ written'[x] = written[x] /\ x \notin on[w] /\ written[x] \subseteq Aliases
      BY <1>0, <1>1, <1>7, <2>1, <2>3
    <3>2. \/ \E u \in Writers : x \in on[u] /\ stage[u] \in {"drops", "writes"}
          \/ \A n \in written[x] :
               <<x, n>> \in tokens \/ \E u \in Writers : x \in on[u] /\ stage[u] = "adds" /\ n \in left[u]
      BY <1>7, <3>1 DEF TokensTidy, GivenInv
    <3> QED BY <1>3, <1>4, <2>1, <3>1, <3>2
  <2> QED BY <2>2, <2>3
<1>8. GivenInv' BY <1>1, <1>7 DEF GivenInv
<1> QED BY <1>1, <1>5, <1>6, <1>8 DEF TokensTidy

\* A writer is done with a voice, or gives it up.
LEMMA EndKeepsAliases ==
    ASSUME SafeInv, TokensTidy, NEW w \in Writers, VoiceDone(w) \/ VoiceFails(w)
    PROVE  TokensTidy'
<1>0. /\ on \in [Writers -> SUBSET Voices] /\ left \in [Writers -> SUBSET Aliases]
      /\ stage \in [Writers -> {"none", "drops", "writes", "adds", "erases", "clears"}]
  BY DEF SafeInv, TypeOK
<1>1. /\ on' = [on EXCEPT ![w] = {}] /\ stage' = [stage EXCEPT ![w] = "none"]
      /\ UNCHANGED <<tokens, written>> /\ torn \subseteq torn'
      /\ \A u \in Writers \ {w} : left'[u] = left[u]
      /\ \A x \in on[w] : x \in torn' \/ (stage[w] \in {"adds", "clears"} /\ left[w] = {})
  BY <1>0 DEF VoiceDone, VoiceFails, hklm
<1>2. Promoted' = Promoted /\ \A x \in Voices : AliasesIn(tokens', x) = AliasesIn(tokens, x)
  BY <1>1 DEF Promoted, AliasesIn
<1>3. \A u \in Writers \ {w} : on'[u] = on[u] /\ stage'[u] = stage[u] BY <1>0, <1>1
<1>4. on'[w] = {} BY <1>0, <1>1
<1>5. GivenInv' BY <1>1, <1>2, <1>3 DEF TokensTidy, GivenInv
<1>6. \A x \in Voices : \A u \in Writers : x \in on'[u] /\ stage'[u] = "adds" =>
         left'[u] \subseteq MayHave(x)
  BY <1>1, <1>3, <1>4 DEF TokensTidy
<1> QED BY <1>1, <1>2, <1>5, <1>6 DEF TokensTidy

\* What the registry part says depends on these variables only.
LEMMA AliasesStill ==
    ASSUME TokensTidy, UNCHANGED <<hklm, on, stage, left>> PROVE TokensTidy'
BY DEF TokensTidy, GivenInv, Promoted, AliasesIn, hklm

\* The inductive step.
LEMMA AliasInvNext ==
    ASSUME RowsInv, AliasInv, [Next]_vars
    PROVE  AliasInv'
<1> USE DEF hklm, direct
<1>0. SafeInv /\ OrphanInv /\ TypeOK /\ TokensTidy
    BY DEF RowsInv, SafeInv, AliasInv, TokensTidy
<1>1. Tidy(NoBatch)
    BY BatchesAreTidy
<1>2. "Cli" \in Writers
    BY DEF Writers
<1>3. TokensTidy'
    <2>1. ASSUME NEW c \in Commands, CommandSteps(c) PROVE TokensTidy'
        <3>1. CASE Import(c)
            <4>1. file[FileOf(c, job[c])] \in Batches /\ Tidy(file[FileOf(c, job[c])])
                BY <1>0, FileIsOne DEF TypeOK, AliasInv
            <4> QED
                BY <1>0, <3>1, <4>1, ImportKeepsAliases DEF Import
        <3>2. CASE LateImportEnds(c)
            <4>1. late[c] \in Batches /\ Tidy(late[c])
                BY <1>0 DEF TypeOK, AliasInv
            <4> QED
                BY <1>0, <3>2, <4>1, ImportKeepsAliases DEF LateImportEnds
        <3>3. CASE ~Import(c) /\ ~LateImportEnds(c)
            <4>1. UNCHANGED <<hklm, on, stage, left>>
                BY <2>1, <3>3 DEF CommandSteps, CommandBegins, DirectBegins, RemovesNothing,
                                  WriteReg, DirectDone, ImportFails, ImportLate, Conclude
            <4> QED
                BY <1>0, <4>1, AliasesStill
        <3> QED
            BY <3>1, <3>2, <3>3
    <2>2. ASSUME NEW w \in Writers, WriterSteps(w) PROVE TokensTidy'
        BY <1>0, <2>2, StartKeepsAliases, AliasKeepsAliases, PrimaryKeepsAliases, EndKeepsAliases
           DEF WriterSteps, NextVoice
    <2>3. CASE (\E v \in Cloud : CliPromote(v)) \/ (\E v \in Voices : CliUnpromote(v))
        BY <1>0, <1>2, <2>3, StartKeepsAliases DEF CliPromote, CliUnpromote, Voices
    <2>4. CASE \/ PromoteSelectedMarks \/ LoadReplaces \/ ToggleEnUs \/ ToggleArabic \/ CliPromoteAll
               \/ \E r \in Refreshes : RefreshReads(r) \/ RefreshMarks(r)
               \/ UNCHANGED vars
        <3>1. UNCHANGED <<hklm, on, stage, left>>
            BY <2>4 DEF PromoteSelectedMarks, LoadReplaces, ToggleEnUs, ToggleArabic, CliPromoteAll,
                        RefreshReads, RefreshMarks, vars
        <3> QED
            BY <1>0, <3>1, AliasesStill
    <2> QED
        BY <2>1, <2>2, <2>3, <2>4 DEF Next
<1>4. \A f \in Files : Tidy(file'[f])
    <2>1. ASSUME NEW c \in Commands, NEW J \in SUBSET Voices, WriteReg(c, J)
          PROVE  \A f \in Files : Tidy(file'[f])
        <3>1. Tidy(Batch(c, J))
            BY BatchesAreTidy DEF Batch
        <3> QED
            BY <1>0, <2>1, <3>1 DEF WriteReg, TypeOK, AliasInv
    <2>2. ASSUME NEW c \in Commands, Conclude(c) PROVE \A f \in Files : Tidy(file'[f])
        BY <1>0, <1>1, <2>2 DEF Conclude, TypeOK, AliasInv
    <2>3. CASE UNCHANGED file
        BY <2>3 DEF AliasInv
    <2>4. \/ UNCHANGED file
          \/ \E c \in Commands : Conclude(c) \/ \E J \in SUBSET Voices : WriteReg(c, J)
        BY DEF Next, CommandSteps, CommandBegins, DirectBegins, RemovesNothing, DirectDone, Import,
               ImportFails, ImportLate, LateImportEnds, WriterSteps, NextVoice, NextAlias,
               WritePrimary, ErasePrimary, VoiceDone, VoiceFails, PromoteSelectedMarks, LoadReplaces,
               RefreshReads, RefreshMarks, ToggleEnUs, ToggleArabic, CliPromoteAll, CliPromote,
               CliUnpromote, Cli, vars
    <2> QED
        BY <2>1, <2>2, <2>3, <2>4
<1>5. \A d \in Commands : Tidy(late'[d])
    <2>1. ASSUME NEW c \in Commands, ImportLate(c) PROVE \A d \in Commands : Tidy(late'[d])
        BY <1>0, <2>1, FileIsOne DEF ImportLate, TypeOK, AliasInv
    <2>2. ASSUME NEW c \in Commands, LateImportEnds(c) PROVE \A d \in Commands : Tidy(late'[d])
        BY <1>0, <1>1, <2>2 DEF LateImportEnds, TypeOK, AliasInv
    <2>3. CASE UNCHANGED late
        BY <2>3 DEF AliasInv
    <2>4. UNCHANGED late \/ \E c \in Commands : ImportLate(c) \/ LateImportEnds(c)
        BY DEF Next, CommandSteps, CommandBegins, DirectBegins, RemovesNothing, DirectDone, Import,
               ImportFails, WriteReg, Conclude, WriterSteps, NextVoice, NextAlias,
               WritePrimary, ErasePrimary, VoiceDone, VoiceFails, PromoteSelectedMarks, LoadReplaces,
               RefreshReads, RefreshMarks, ToggleEnUs, ToggleArabic, CliPromoteAll, CliPromote,
               CliUnpromote, Cli, vars
    <2> QED
        BY <2>1, <2>2, <2>3, <2>4
<1> QED
    BY <1>3, <1>4, <1>5 DEF AliasInv, TokensTidy

\* However the settings were switched and the writers crossed, a voice lacks
\* none of the aliases that were enabled when it was last installed: what run
\* promotion_alias finds is an alias too many, and never one of a language
\* the voice is not offered for.  Voices that are torn are left out.
THEOREM AliasesAreOnlyLeftOver == Spec => []AliasesOnlyLeftOver
<1>1. Init => AliasInv
    <2> SUFFICES ASSUME Init PROVE AliasInv
        OBVIOUS
    <2>1. Tidy(NoBatch)
        BY BatchesAreTidy
    <2> QED
        BY <2>1 DEF Init, AliasInv, GivenInv, AliasesIn, Promoted
<1>2. RowsInv /\ AliasInv /\ [Next]_vars => AliasInv'
    BY AliasInvNext
<1>3. RowsInv /\ AliasInv => AliasesOnlyLeftOver
    <2> SUFFICES ASSUME RowsInv, AliasInv, NEW v \in Promoted \ torn,
                        \A w \in Writers : v \notin on[w]
                 PROVE  written[v] \subseteq AliasesIn(tokens, v)
        BY DEF AliasesOnlyLeftOver, AliasInv
    <2>1. v \in Voices /\ written[v] \subseteq Aliases
        BY DEF Promoted, RowsInv, SafeInv, TypeOK
    <2> QED
        BY <2>1 DEF AliasInv, GivenInv, AliasesIn
<1> QED
    BY <1>1, <1>2, <1>3, RowsInvAlways, PTL DEF Spec
=============================================================================
