--------------------------- MODULE VoicesTabProofs ---------------------------
(***************************************************************************)
(* Proofs about the Voices tab, for any number of engines, of overlapping  *)
(* loads and of commands.  The argument has two halves.  Only the end of   *)
(* another command can let a second load in (SoleInv), so an undisturbed   *)
(* load is alone and lists everything at most once.  And a list that is    *)
(* taken as current came from a load whose engines are still the selected  *)
(* ones (FreshInv).  RowBound counts rows and pending fetches against the  *)
(* loads; the last part says that no step takes a load back.               *)
(***************************************************************************)
EXTENDS VoicesTab, FiniteSetTheorems, TLAPS

Types ==
    /\ selected \subseteq Engines
    /\ rows \in [Engines -> Nat]
    /\ snapshot \in [Loads -> SUBSET Engines]
    /\ todo \in [Loads -> SUBSET Engines]
    /\ active \subseteq Loads
    /\ dirty \subseteq active
    /\ stale \in BOOLEAN /\ loading \in BOOLEAN
    /\ mixed \in BOOLEAN /\ disturbed \in BOOLEAN

\* Without a command's end in between, a load is alone, IsLoading is up, and
\* what it has still to fetch is not listed.
SoleInv ==
    ~mixed =>
        /\ \A k, l \in active : k = l
        /\ active # {} => loading
        /\ \A e \in Engines : rows[e] <= 1
        /\ \A l \in active : \A e \in todo[l] : rows[e] = 0

\* Engines a load is for, and whose voices it has listed.
SnapshotInv ==
    /\ \A l \in active : todo[l] \subseteq snapshot[l]
    /\ \A l \in active \ dirty : snapshot[l] = selected
    /\ ~mixed => \A l \in active : \A e \in Engines : rows[e] > 0 => e \in snapshot[l]

\* A list taken as current is that of the selection, and so is what a load
\* under way adds to it.
FreshInv ==
    ~stale /\ ~disturbed => Reflects /\ \A l \in active : snapshot[l] = selected

TabInv == Types /\ NoIdleSpinner /\ SoleInv /\ SnapshotInv /\ FreshInv

-----------------------------------------------------------------------------
\* Nothing is listed, loaded or under way when the window opens.
LEMMA TabInvInit == Init => TabInv
<1> SUFFICES ASSUME Init PROVE TabInv
    OBVIOUS
<1>1. Types  BY DEF Init, Types
<1>2. NoIdleSpinner  BY DEF Init, NoIdleSpinner
<1>3. SoleInv  BY DEF Init, SoleInv
<1>4. SnapshotInv  BY DEF Init, SnapshotInv
<1>5. FreshInv  BY DEF Init, FreshInv
<1> QED  BY <1>1, <1>2, <1>3, <1>4, <1>5 DEF TabInv

\* The inductive step where a load starts, goes on or ends.
LEMMA TabInvLoads ==
    ASSUME TabInv, LoadNoEngines \/ \E l \in Loads : LoadVoices(l) \/ LoadSteps(l)
    PROVE  TabInv'
<1> USE DEF TabInv, Types
<1>1. CASE LoadNoEngines
    BY <1>1 DEF LoadNoEngines, NoIdleSpinner, SoleInv, SnapshotInv, FreshInv, Reflects, history
<1>2. ASSUME NEW l \in Loads, LoadVoices(l) PROVE TabInv'
    <2> USE <1>2 DEF LoadVoices, StartLoad
    <2>1. Types'  OBVIOUS
    <2>2. NoIdleSpinner'  BY DEF NoIdleSpinner
    <2>3. SoleInv'
        <3>1. CASE mixed /\ active # {}
            BY <3>1 DEF SoleInv
        <3>2. CASE active = {}
            <4>1. active' = {l}  BY <3>2
            <4>2. \A e \in Engines : rows'[e] = 0  OBVIOUS
            <4>3. todo'[l] \subseteq Engines  OBVIOUS
            <4> QED  BY <4>1, <4>2, <4>3 DEF SoleInv
        <3> QED  BY <3>1, <3>2 DEF SoleInv
    <2>4. SnapshotInv'  BY DEF SnapshotInv, SoleInv
    <2>5. FreshInv'  BY DEF FreshInv, Reflects
    <2> QED  BY <2>1, <2>2, <2>3, <2>4, <2>5
<1>3. ASSUME NEW l \in Loads, NEW e \in Engines, Fetched(l, e) PROVE TabInv'
    <2> USE <1>3 DEF Fetched, history
    <2>1. Types'  OBVIOUS
    <2>2. NoIdleSpinner'  BY DEF NoIdleSpinner
    <2>3. SoleInv'  BY DEF SoleInv
    <2>4. SnapshotInv'  BY DEF SnapshotInv, SoleInv
    <2>5. FreshInv'  BY DEF FreshInv, Reflects, SnapshotInv
    <2> QED  BY <2>1, <2>2, <2>3, <2>4, <2>5
<1>4. ASSUME NEW l \in Loads, LoadDone(l) PROVE TabInv'
    <2> USE <1>4 DEF LoadDone, EndLoad
    <2>1. Types'  OBVIOUS
    <2>2. NoIdleSpinner'  BY DEF NoIdleSpinner
    <2>3. SoleInv'  BY DEF SoleInv
    <2>4. SnapshotInv'  BY DEF SnapshotInv
    <2>5. FreshInv'  BY DEF FreshInv, Reflects, SnapshotInv, SoleInv
    <2> QED  BY <2>1, <2>2, <2>3, <2>4, <2>5
<1>5. ASSUME NEW l \in Loads, LoadThrows(l) PROVE TabInv'
    <2> USE <1>5 DEF LoadThrows, EndLoad
    <2>1. Types'  OBVIOUS
    <2>2. NoIdleSpinner'  BY DEF NoIdleSpinner
    <2>3. SoleInv'  BY DEF SoleInv
    <2>4. SnapshotInv'  BY DEF SnapshotInv
    <2>5. FreshInv'  BY DEF FreshInv, Reflects
    <2> QED  BY <2>1, <2>2, <2>3, <2>4, <2>5
<1> QED
    BY <1>1, <1>2, <1>3, <1>4, <1>5 DEF LoadSteps

\* The inductive step for the other commands and the Engines tab.
LEMMA TabInvOthers ==
    ASSUME TabInv,
           \/ \E c \in Commands : CommandBegins(c) \/ CommandEnds(c)
           \/ Recount
           \/ \E e \in Engines : SelectionChanges(e)
    PROVE  TabInv'
<1> USE DEF TabInv, Types, loadVars
<1>1. ASSUME NEW c \in Commands, CommandBegins(c) PROVE TabInv'
    BY <1>1 DEF CommandBegins, NoIdleSpinner, SoleInv, SnapshotInv, FreshInv, Reflects, history
<1>2. ASSUME NEW c \in Commands, CommandEnds(c) PROVE TabInv'
    BY <1>2 DEF CommandEnds, NoIdleSpinner, SoleInv, SnapshotInv, FreshInv, Reflects
<1>3. CASE Recount
    BY <1>3 DEF Recount, NoIdleSpinner, SoleInv, SnapshotInv, FreshInv, Reflects, history
<1>4. ASSUME NEW e \in Engines, SelectionChanges(e) PROVE TabInv'
    BY <1>4 DEF SelectionChanges, NoIdleSpinner, SoleInv, SnapshotInv, FreshInv
<1> QED
    BY <1>1, <1>2, <1>3, <1>4

\* The invariant is inductive.
LEMMA TabInvNext == TabInv /\ [Next]_vars => TabInv'
<1> SUFFICES ASSUME TabInv, [Next]_vars PROVE TabInv'
    OBVIOUS
<1>1. CASE Next
    BY <1>1, TabInvLoads, TabInvOthers DEF Next
<1>2. CASE UNCHANGED vars
    BY <1>2 DEF vars, loadVars, history, TabInv, Types, NoIdleSpinner, SoleInv,
                SnapshotInv, FreshInv, Reflects
<1> QED
    BY <1>1, <1>2

\* However loads, commands and changes of the selection overlap.
THEOREM TabInvAlways == Spec => []TabInv
<1>1. Init => TabInv  BY TabInvInit
<1>2. TabInv /\ [Next]_vars => TabInv'  BY TabInvNext
<1> QED
    BY <1>1, <1>2, PTL DEF Spec

\* The progress ring never turns, and Load is never blocked, with nothing
\* under way.
THEOREM SpinnerIsHonest == Spec => []NoIdleSpinner
<1>1. TabInv => NoIdleSpinner  BY DEF TabInv
<1> QED
    BY <1>1, TabInvAlways, PTL

\* No voice is listed twice while the loads are not let in beside each other
\* by the end of another command.
THEOREM VoicesAreListedOnce == Spec => []ListIsOneLoad
<1>1. TabInv => ListIsOneLoad  BY DEF TabInv, SoleInv, ListIsOneLoad
<1> QED
    BY <1>1, TabInvAlways, PTL

\* A list that passes for current is that of the selected engines, unless
\* its load was disturbed.
THEOREM CurrentListReflects == Spec => []ReflectsUnlessDisturbed
<1>1. TabInv => ReflectsUnlessDisturbed  BY DEF TabInv, FreshInv, ReflectsUnlessDisturbed
<1> QED
    BY <1>1, TabInvAlways, PTL

-----------------------------------------------------------------------------
(* The types, with the bound on how often an engine can be listed: a load  *)
(* that has still to fetch an engine can list it once more, and the list   *)
(* is empty when a load comes in.                                          *)

\* The loads that have still to fetch an engine.
Pending(e) == {l \in active : e \in todo[l]}

RowBound == \A e \in Engines : rows[e] + Cardinality(Pending(e)) <= Cardinality(Loads)

OtherTypes ==
    /\ empty \in BOOLEAN
    /\ latest \in active \union {NoLoad}
    /\ busy \subseteq Commands
    /\ loadedFor \subseteq Engines

\* Loads are finitely many, so are those that are pending, and a load that
\* has listed an engine is one pending load less.
LEMMA PendingCount ==
    ASSUME NEW S, S \subseteq Loads
    PROVE  /\ IsFiniteSet(S)
           /\ Cardinality(S) \in Nat
           /\ Cardinality(S) <= Cardinality(Loads)
           /\ \A l \in S : Cardinality(S \ {l}) = Cardinality(S) - 1
<1>1. IsFiniteSet(S) /\ Cardinality(S) <= Cardinality(Loads)
    BY LoadsAssumption, FS_Subset
<1>2. Cardinality(S) \in Nat
    BY <1>1, FS_CardinalityType
<1>3. \A l \in S : Cardinality(S \ {l}) = Cardinality(S) - 1
    BY <1>1, FS_RemoveElement
<1> QED
    BY <1>1, <1>2, <1>3

\* What is listed and pending does not become more: the inductive step.
LEMMA RowBoundNext ==
    ASSUME Types, RowBound, [Next]_vars
    PROVE  RowBound'
<1> USE DEF Types
<1>0. Cardinality(Loads) \in Nat
    BY PendingCount
<1>1. ASSUME rows' = rows, \A e \in Engines : Pending(e)' \subseteq Pending(e)
      PROVE  RowBound'
    <2> SUFFICES ASSUME NEW e \in Engines
                 PROVE  rows'[e] + Cardinality(Pending(e)') <= Cardinality(Loads)
        BY DEF RowBound
    <2>1. Pending(e) \subseteq Loads /\ Pending(e)' \subseteq Pending(e)
        BY <1>1 DEF Pending
    <2>2. Cardinality(Pending(e)') <= Cardinality(Pending(e))
        BY <2>1, PendingCount, FS_Subset
    <2>3. Cardinality(Pending(e)) \in Nat /\ Cardinality(Pending(e)') \in Nat
        BY <2>1, PendingCount
    <2>4. rows[e] \in Nat /\ rows'[e] = rows[e]
        BY <1>1
    <2>5. rows[e] + Cardinality(Pending(e)) <= Cardinality(Loads)
        BY DEF RowBound
    <2> QED
        BY <1>0, <2>2, <2>3, <2>4, <2>5
<1>2. ASSUME NEW l \in Loads, LoadVoices(l) PROVE RowBound'
    <2> SUFFICES ASSUME NEW e \in Engines
                 PROVE  rows'[e] + Cardinality(Pending(e)') <= Cardinality(Loads)
        BY DEF RowBound
    <2>1. rows'[e] = 0
        BY <1>2 DEF LoadVoices
    <2>2. Pending(e)' \subseteq Loads
        BY <1>2 DEF LoadVoices, StartLoad, Pending
    <2>3. Cardinality(Pending(e)') \in Nat /\ Cardinality(Pending(e)') <= Cardinality(Loads)
        BY <2>2, PendingCount
    <2> QED
        BY <1>0, <2>1, <2>3
<1>3. ASSUME NEW l \in Loads, NEW f \in Engines, Fetched(l, f) PROVE RowBound'
    <2> SUFFICES ASSUME NEW e \in Engines
                 PROVE  rows'[e] + Cardinality(Pending(e)') <= Cardinality(Loads)
        BY DEF RowBound
    <2> USE <1>3 DEF Fetched
    <2>1. Pending(e) \subseteq Loads /\ Cardinality(Pending(e)) \in Nat
        BY PendingCount DEF Pending
    <2>2. rows[e] \in Nat /\ rows[e] + Cardinality(Pending(e)) <= Cardinality(Loads)
        BY DEF RowBound
    <2>3. CASE e = f
        <3>1. l \in Pending(e) /\ Pending(e)' = Pending(e) \ {l}
            BY <2>3 DEF Pending
        <3>2. Cardinality(Pending(e)') = Cardinality(Pending(e)) - 1
            BY <2>1, <3>1, PendingCount
        <3>3. rows'[e] \in {rows[e], rows[e] + 1}
            BY <2>3
        <3> QED
            BY <1>0, <2>1, <2>2, <3>2, <3>3
    <2>4. CASE e # f
        <3>1. Pending(e)' = Pending(e)
            BY <2>4 DEF Pending
        <3>2. rows'[e] = rows[e]
            BY <2>4
        <3> QED
            BY <2>2, <3>1, <3>2
    <2> QED
        BY <2>3, <2>4
<1>4. ASSUME NEW l \in Loads, LoadDone(l) \/ LoadThrows(l) PROVE RowBound'
    BY <1>1, <1>4 DEF LoadDone, LoadThrows, EndLoad, Pending
<1>5. CASE \/ LoadNoEngines \/ Recount
           \/ \E c \in Commands : CommandBegins(c) \/ CommandEnds(c)
           \/ \E e \in Engines : SelectionChanges(e)
           \/ UNCHANGED vars
    BY <1>1, <1>5 DEF LoadNoEngines, Recount, CommandBegins, CommandEnds, SelectionChanges,
                      vars, loadVars, Pending
<1> QED
    BY <1>2, <1>3, <1>4, <1>5 DEF Next, LoadSteps

\* The other fields: the load LoadVoicesCommand waits for is under way.
LEMMA OtherTypesNext ==
    ASSUME Types, OtherTypes, [Next]_vars
    PROVE  OtherTypes'
<1> USE DEF Types, OtherTypes
<1>1. ASSUME NEW l \in Loads, LoadVoices(l) PROVE OtherTypes'
    BY <1>1 DEF LoadVoices, StartLoad
<1>2. ASSUME NEW l \in Loads, NEW e \in Engines, Fetched(l, e) PROVE OtherTypes'
    BY <1>2 DEF Fetched, history
<1>3. ASSUME NEW l \in Loads, LoadDone(l) PROVE OtherTypes'
    <2>1. empty' \in BOOLEAN
        BY <1>3 DEF LoadDone, NoRows
    <2> QED
        BY <1>3, <2>1 DEF LoadDone, EndLoad
<1>4. ASSUME NEW l \in Loads, LoadThrows(l) PROVE OtherTypes'
    BY <1>4 DEF LoadThrows, EndLoad
<1>5. ASSUME NEW c \in Commands, CommandBegins(c) PROVE OtherTypes'
    BY <1>5 DEF CommandBegins, loadVars, history
<1>6. ASSUME NEW c \in Commands, CommandEnds(c) PROVE OtherTypes'
    <2>1. empty' \in BOOLEAN
        BY <1>6 DEF CommandEnds, NoRows
    <2> QED
        BY <1>6, <2>1 DEF CommandEnds, loadVars
<1>7. CASE Recount
    <2>1. empty' \in BOOLEAN
        BY <1>7 DEF Recount, NoRows
    <2> QED
        BY <1>7, <2>1 DEF Recount, loadVars, history
<1>8. CASE LoadNoEngines
    BY <1>8 DEF LoadNoEngines, history
<1>9. ASSUME NEW e \in Engines, SelectionChanges(e) PROVE OtherTypes'
    BY <1>9 DEF SelectionChanges, loadVars
<1>10. CASE UNCHANGED vars
    BY <1>10 DEF vars, loadVars, history
<1> QED
    BY <1>1, <1>2, <1>3, <1>4, <1>5, <1>6, <1>7, <1>8, <1>9, <1>10 DEF Next, LoadSteps

\* However many loads overlap, an engine is not listed more often than there
\* can be loads, and IsRunning of LoadVoicesCommand is that of a live load.
THEOREM TypesHold == Spec => []TypeOK
<1>1. Init => RowBound /\ OtherTypes
    <2> SUFFICES ASSUME Init PROVE RowBound /\ OtherTypes
        OBVIOUS
    <2>1. \A e \in Engines : Pending(e) \subseteq Loads /\ rows[e] = 0
        BY DEF Init, Pending
    <2>2. RowBound
        BY <2>1, PendingCount DEF RowBound
    <2>3. OtherTypes
        BY DEF Init, OtherTypes
    <2> QED
        BY <2>2, <2>3
<1>2. TabInv /\ RowBound /\ OtherTypes /\ [Next]_vars => (RowBound /\ OtherTypes)'
    BY RowBoundNext, OtherTypesNext DEF TabInv
<1>3. TabInv /\ RowBound /\ OtherTypes => TypeOK
    <2> SUFFICES ASSUME TabInv, RowBound, OtherTypes PROVE TypeOK
        OBVIOUS
    <2>1. ASSUME NEW e \in Engines PROVE rows[e] \in 0 .. Cardinality(Loads)
        <3>1. Pending(e) \subseteq Loads
            BY DEF Pending, TabInv, Types
        <3>2. Cardinality(Pending(e)) \in Nat /\ Cardinality(Loads) \in Nat
            BY <3>1, PendingCount
        <3>3. rows[e] \in Nat /\ rows[e] + Cardinality(Pending(e)) <= Cardinality(Loads)
            BY DEF RowBound, TabInv, Types
        <3> QED
            BY <3>2, <3>3
    <2>2. rows \in [Engines -> 0 .. Cardinality(Loads)]
        BY <2>1 DEF TabInv, Types
    <2> QED
        BY <2>2 DEF TypeOK, OtherTypes, TabInv, Types
<1> QED
    BY <1>1, <1>2, <1>3, TabInvAlways, PTL DEF Spec

-----------------------------------------------------------------------------
(* What LoadingEnds rests on beside fairness and NoIdleSpinner.            *)

\* A load only gets on: no fetch is asked for again, and what one brings is
\* listed when it is crossed off, whichever other load is under way.
LoadGetsOn(l) ==
    \/ todo'[l] = todo[l]
    \/ \E e \in todo[l] :
         /\ todo'[l] = todo[l] \ {e}
         /\ rows' \in {rows, [rows EXCEPT ![e] = @ + 1]}

\* Nothing but a new load takes voices off the list, and only if IsLoading
\* was down.
ListKeeps ==
    \/ \A e \in Engines : rows'[e] >= rows[e]
    \/ ~loading /\ active' # active

\* Overlapping loads, commands and changes of the selection never set a load
\* back, nor empty the list while the progress ring turns.
THEOREM LoadsOnlyGetOn ==
    Spec => [][(\A l \in active : LoadGetsOn(l)) /\ ListKeeps]_vars
<1>1. ASSUME TabInv, Next
      PROVE  (\A l \in active : LoadGetsOn(l)) /\ ListKeeps
    <2> USE <1>1 DEF TabInv, Types, LoadGetsOn, ListKeeps
    <2>1. ASSUME NEW k \in Loads, LoadVoices(k)
          PROVE  (\A l \in active : LoadGetsOn(l)) /\ ListKeeps
        BY <2>1 DEF LoadVoices, StartLoad
    <2>2. ASSUME NEW k \in Loads, NEW e \in Engines, Fetched(k, e)
          PROVE  (\A l \in active : LoadGetsOn(l)) /\ ListKeeps
        <3>1. rows' \in {rows, [rows EXCEPT ![e] = @ + 1]}
            BY <2>2 DEF Fetched
        <3>2. \A f \in Engines : rows'[f] >= rows[f]
            BY <3>1
        <3>3. e \in todo[k] /\ todo'[k] = todo[k] \ {e}
            BY <2>2 DEF Fetched
        <3>4. \A l \in Loads \ {k} : todo'[l] = todo[l]
            BY <2>2 DEF Fetched
        <3> QED
            BY <3>1, <3>2, <3>3, <3>4
    <2>3. CASE \E k \in Loads : LoadDone(k) \/ LoadThrows(k)
        BY <2>3 DEF LoadDone, LoadThrows
    <2>4. CASE \/ LoadNoEngines \/ Recount
               \/ \E c \in Commands : CommandBegins(c) \/ CommandEnds(c)
               \/ \E e \in Engines : SelectionChanges(e)
        BY <2>4 DEF LoadNoEngines, Recount, CommandBegins, CommandEnds, SelectionChanges, loadVars
    <2> QED
        BY <2>1, <2>2, <2>3, <2>4 DEF Next, LoadSteps
<1>2. TabInv /\ [Next]_vars => [(\A l \in active : LoadGetsOn(l)) /\ ListKeeps]_vars
    BY <1>1
<1> QED
    BY <1>2, TabInvAlways, PTL DEF Spec
=============================================================================
