--------------------------- MODULE OffsetMapProofs ---------------------------
(***************************************************************************)
(* Proofs about the map from positions in the wrapper's text to positions  *)
(* in the client's, for texts, markup and fragments of any length.  While  *)
(* fragments are appended the map never decreases and is still before the  *)
(* fragments to come (AheadInv, AscendingInv); what is not blank is at the *)
(* place it names (PlacedInv); and because fragments are set apart by a    *)
(* blank, the map advances by one within a word (WordInv).  None of this   *)
(* needs an induction over the texts: it is one over the steps of Speak.   *)
(***************************************************************************)
EXTENDS OffsetMap, SequenceTheorems, TLAPS

Fragment == [eAction : {"SPVA_Speak", "SPVA_Bookmark"}, text : Seq(Characters), ulTextSrcOffset : Nat]

Types ==
    /\ frags \in Seq(Fragment)
    /\ phase \in {"client", "fragments", "spoken", "silent"}
    /\ kind \in {"plain", Ssml, Markdown}
    /\ next \in 1 .. Len(frags) + 1
    /\ out \in Seq(Characters)
    /\ map \in Seq(Nat)
    /\ Len(map) = Len(out)

\* Nothing has happened yet while the client builds its text.
ClientInv == phase = "client" => next = 1 /\ out = <<>>

\* Fragments do not overlap.
FragsInv ==
    \A j, k \in 1 .. Len(frags) : j < k => FragEnd(frags[j]) <= frags[k].ulTextSrcOffset

\* The map has not reached the fragments the loop has still to append.
AheadInv ==
    phase \in {"client", "fragments"} =>
        \A i \in 1 .. Len(map) : \A k \in next .. Len(frags) :
            map[i] < frags[k].ulTextSrcOffset

AscendingInv == \A i, j \in 1 .. Len(map) : i < j => map[i] <= map[j]

\* Of plain text, what is not blank is where the map says.
PlacedInv ==
    ~HasSentinel => \A i \in 1 .. Len(out) : out[i] # Blank => IsAt(out[i], map[i])

\* Of plain text, a word is in one piece.
WordInv ==
    ~HasSentinel =>
        \A i, j \in 1 .. Len(out) :
            i <= j /\ (\A m \in i .. j : out[m] # Blank) => map[j] = map[i] + (j - i)

\* A document is all that is spoken, and shifted by the sentinel.
DocumentInv ==
    phase = "spoken" /\ HasSentinel =>
        /\ kind \in {Ssml, Markdown}
        /\ kind # Ssml => out = Payload
        /\ \A i \in 1 .. Len(map) : map[i] = i + 2

\* A document is not taken for fragments.
PlainInv == phase = "fragments" => ~HasSentinel

OffsetInv ==
    /\ Types /\ ClientInv /\ FragsInv /\ AheadInv /\ AscendingInv
    /\ PlacedInv /\ WordInv /\ DocumentInv /\ PlainInv

-----------------------------------------------------------------------------
(* Sequences. *)

\* A fragment of the list, and a character of its text.
LEMMA FragTypes ==
    ASSUME Types, NEW k \in 1 .. Len(frags)
    PROVE  /\ frags[k] \in Fragment
           /\ frags[k].text \in Seq(Characters)
           /\ Len(frags[k].text) \in Nat
           /\ frags[k].ulTextSrcOffset \in Nat
           /\ FragEnd(frags[k]) = frags[k].ulTextSrcOffset + Len(frags[k].text)
           /\ FragEnd(frags[k]) \in Nat
<1>1. frags[k] \in Fragment
    BY ElementOfSeq DEF Types
<1>2. frags[k].text \in Seq(Characters) /\ frags[k].ulTextSrcOffset \in Nat
    BY <1>1 DEF Fragment
<1>3. Len(frags[k].text) \in Nat
    BY <1>2, LenProperties
<1> QED
    BY <1>1, <1>2, <1>3 DEF FragEnd

\* The lengths and the elements of the text and of the map.
LEMMA OutTypes ==
    ASSUME Types
    PROVE  /\ Len(out) \in Nat /\ Len(map) \in Nat /\ Len(frags) \in Nat
           /\ \A i \in 1 .. Len(out) : out[i] \in Characters
           /\ \A i \in 1 .. Len(map) : map[i] \in Nat
           /\ next \in Nat
           /\ out = <<>> <=> Len(out) = 0
           /\ map = <<>> <=> Len(map) = 0
<1>1. Len(out) \in Nat /\ Len(map) \in Nat /\ Len(frags) \in Nat
    BY LenProperties DEF Types
<1>2. \A i \in 1 .. Len(out) : out[i] \in Characters
    BY ElementOfSeq DEF Types
<1>3. \A i \in 1 .. Len(map) : map[i] \in Nat
    BY ElementOfSeq DEF Types
<1>4. out = <<>> <=> Len(out) = 0
    BY EmptySeq DEF Types
<1>5. map = <<>> <=> Len(map) = 0
    BY EmptySeq DEF Types
<1>6. next \in Nat
    BY <1>1 DEF Types
<1> QED
    BY <1>1, <1>2, <1>3, <1>4, <1>5, <1>6

\* What is left when the last element of a sequence is dropped.
LEMMA DroppedLast ==
    ASSUME NEW S, NEW s \in Seq(S), s # <<>>
    PROVE  /\ Len(s) \in Nat \ {0}
           /\ SubSeq(s, 1, Len(s) - 1) \in Seq(S)
           /\ Len(SubSeq(s, 1, Len(s) - 1)) = Len(s) - 1
           /\ \A i \in 1 .. Len(s) - 1 : SubSeq(s, 1, Len(s) - 1)[i] = s[i]
<1> DEFINE n == Len(s) - 1
<1>1. Len(s) \in Nat \ {0} /\ n \in Nat
    BY EmptySeq
<1>2. \A i \in 1 .. n : s[i] \in S
    BY <1>1, ElementOfSeq
<1> HIDE DEF n
<1>3. /\ SubSeq(s, 1, n) \in Seq(S)
      /\ Len(SubSeq(s, 1, n)) = IF 1 <= n THEN n - 1 + 1 ELSE 0
      /\ \A i \in 1 .. n - 1 + 1 : SubSeq(s, 1, n)[i] = s[1 + i - 1]
    BY <1>1, <1>2, SubSeqProperties
<1>4. Len(SubSeq(s, 1, n)) = n
    BY <1>1, <1>3
<1>5. ASSUME NEW i \in 1 .. n PROVE SubSeq(s, 1, n)[i] = s[i]
    <2>1. i \in 1 .. n - 1 + 1 /\ 1 + i - 1 = i
        BY <1>1
    <2> QED
        BY <1>3, <2>1
<1> QED
    BY <1>1, <1>3, <1>4, <1>5 DEF n

\* The rest of a sequence, from one of its places on.
LEMMA SuffixProperties ==
    ASSUME NEW S, NEW s \in Seq(S), NEW m \in Nat \ {0}, m <= Len(s) + 1
    PROVE  /\ SubSeq(s, m, Len(s)) \in Seq(S)
           /\ Len(SubSeq(s, m, Len(s))) = Len(s) + 1 - m
           /\ \A i \in 1 .. Len(s) + 1 - m : SubSeq(s, m, Len(s))[i] = s[i + m - 1]
<1> DEFINE n == Len(s)
<1>1. n \in Nat
    BY LenProperties
<1>2. \A i \in m .. n : s[i] \in S
    BY <1>1, ElementOfSeq
<1> HIDE DEF n
<1>3. /\ SubSeq(s, m, n) \in Seq(S)
      /\ Len(SubSeq(s, m, n)) = IF m <= n THEN n - m + 1 ELSE 0
      /\ \A i \in 1 .. n - m + 1 : SubSeq(s, m, n)[i] = s[m + i - 1]
    BY <1>1, <1>2, SubSeqProperties
<1>4. m <= n + 1
    BY DEF n
<1>5. Len(SubSeq(s, m, n)) = n + 1 - m
    BY <1>1, <1>3, <1>4
<1>6. ASSUME NEW i \in 1 .. n + 1 - m PROVE SubSeq(s, m, n)[i] = s[i + m - 1]
    <2>1. i \in 1 .. n - m + 1 /\ m + i - 1 = i + m - 1
        BY <1>1
    <2> QED
        BY <1>3, <2>1
<1> QED
    BY <1>3, <1>5, <1>6 DEF n

\* The map of a fragment that is appended.
LEMMA PositionsProperties ==
    ASSUME NEW f \in Fragment
    PROVE  /\ Positions(f) \in Seq(Nat)
           /\ Len(Positions(f)) = Len(f.text)
           /\ \A i \in 1 .. Len(f.text) : Positions(f)[i] = f.ulTextSrcOffset + (i - 1)
<1>1. f.text \in Seq(Characters) /\ f.ulTextSrcOffset \in Nat
    BY DEF Fragment
<1>2. Len(f.text) \in Nat
    BY <1>1, LenProperties
<1>3. \A i \in 1 .. Len(f.text) : f.ulTextSrcOffset + (i - 1) \in Nat
    BY <1>1, <1>2
<1>4. Positions(f) \in [1 .. Len(f.text) -> Nat]
    BY <1>3 DEF Positions
<1>5. Positions(f) \in Seq(Nat)
    BY <1>2, <1>4, SeqDef
<1>6. Len(Positions(f)) = Len(f.text)
    BY <1>2, <1>4, <1>5, LenProperties
<1> QED
    BY <1>5, <1>6 DEF Positions

\* What appending a fragment does to the text and to the map, position by
\* position: what there was stays, perhaps followed by a blank at the place
\* of what is before it, and the fragment comes after that.
LEMMA Appended ==
    ASSUME Types, AppendFragment
    PROVE  LET f      == frags[next]
               spaced == out # <<>> /\ ~EndsBlank(out)
               n      == Len(out) + (IF spaced THEN 1 ELSE 0)
           IN  /\ f \in Fragment
               /\ out' \in Seq(Characters) /\ Len(out') = n + Len(f.text)
               /\ map' \in Seq(Nat) /\ Len(map') = n + Len(f.text)
               /\ \A i \in 1 .. Len(out) : out'[i] = out[i] /\ map'[i] = map[i]
               /\ spaced => out'[n] = Blank /\ map'[n] = map[Len(map)]
               /\ \A i \in 1 .. Len(f.text) :
                      out'[n + i] = f.text[i] /\ map'[n + i] = f.ulTextSrcOffset + (i - 1)
<1> DEFINE f == frags[next]
           spaced == out # <<>> /\ ~EndsBlank(out)
           n == Len(out) + (IF spaced THEN 1 ELSE 0)
           o == IF spaced THEN Append(out, Blank) ELSE out
           m == IF spaced THEN Append(map, map[Len(map)]) ELSE map
           t == f.text
           q == Positions(f)
<1>1. /\ next \in 1 .. Len(frags)
      /\ out' = o \o t /\ map' = m \o q
    <2>1. next \in 1 .. Len(frags)
        BY OutTypes DEF AppendFragment, Types
    <2> QED
        BY <2>1 DEF AppendFragment
<1>2. /\ f \in Fragment /\ t \in Seq(Characters) /\ Len(t) \in Nat
      /\ q \in Seq(Nat) /\ Len(q) = Len(t)
      /\ \A i \in 1 .. Len(t) : q[i] = f.ulTextSrcOffset + (i - 1)
    BY <1>1, FragTypes, PositionsProperties
<1>3. /\ Len(out) \in Nat /\ Len(map) = Len(out)
      /\ out \in Seq(Characters) /\ map \in Seq(Nat)
    BY OutTypes DEF Types
<1>4. /\ o \in Seq(Characters) /\ Len(o) = n
      /\ \A i \in 1 .. Len(out) : o[i] = out[i]
      /\ spaced => o[n] = Blank
    <2>1. CASE spaced
        <3>1. Blank \in Characters
            BY TagsAssumption
        <3> QED
            BY <1>3, <2>1, <3>1, AppendProperties
    <2>2. CASE ~spaced
        BY <1>3, <2>2
    <2> QED
        BY <2>1, <2>2
<1>5. /\ m \in Seq(Nat) /\ Len(m) = n
      /\ \A i \in 1 .. Len(out) : m[i] = map[i]
      /\ spaced => m[n] = map[Len(map)]
    <2>1. CASE spaced
        <3>1. Len(map) \in 1 .. Len(map)
            BY <1>3, <2>1, OutTypes
        <3>2. map[Len(map)] \in Nat
            BY <3>1, OutTypes
        <3> QED
            BY <1>3, <2>1, <3>2, AppendProperties
    <2>2. CASE ~spaced
        BY <1>3, <2>2
    <2> QED
        BY <2>1, <2>2
<1>6. n \in Nat /\ n >= Len(out) /\ (spaced => n >= 1)
    BY <1>3
<1> HIDE DEF f, spaced, n, o, m, t, q
<1>7. /\ out' \in Seq(Characters) /\ Len(out') = n + Len(t)
      /\ \A i \in 1 .. n + Len(t) : out'[i] = IF i <= n THEN o[i] ELSE t[i - n]
    BY <1>1, <1>2, <1>4, ConcatProperties
<1>8. /\ map' \in Seq(Nat) /\ Len(map') = n + Len(t)
      /\ \A i \in 1 .. n + Len(t) : map'[i] = IF i <= n THEN m[i] ELSE q[i - n]
    <2>1. m \o q \in Seq(Nat) /\ Len(m \o q) = Len(m) + Len(q)
          /\ \A i \in 1 .. Len(m) + Len(q) :
                 (m \o q)[i] = IF i <= Len(m) THEN m[i] ELSE q[i - Len(m)]
        <3>1. m \in Seq(Nat) /\ q \in Seq(Nat)
            BY <1>2, <1>5
        <3> QED
            BY <3>1, ConcatProperties, Zenon
    <2> QED
        BY <1>1, <1>2, <1>5, <2>1
<1>9. ASSUME NEW i \in 1 .. Len(out) PROVE out'[i] = out[i] /\ map'[i] = map[i]
    <2>1. i \in 1 .. n + Len(t) /\ i <= n
        BY <1>2, <1>3, <1>6
    <2> QED
        BY <1>4, <1>5, <1>7, <1>8, <2>1
<1>10. ASSUME spaced PROVE out'[n] = Blank /\ map'[n] = map[Len(map)]
    <2>1. n \in 1 .. n + Len(t) /\ n <= n
        BY <1>2, <1>6, <1>10
    <2> QED
        BY <1>4, <1>5, <1>7, <1>8, <1>10, <2>1
<1>11. ASSUME NEW i \in 1 .. Len(t)
       PROVE  out'[n + i] = t[i] /\ map'[n + i] = f.ulTextSrcOffset + (i - 1)
    <2>1. n + i \in 1 .. n + Len(t) /\ ~(n + i <= n) /\ (n + i) - n = i
        BY <1>2, <1>6
    <2> QED
        BY <1>2, <1>7, <1>8, <2>1
<1> QED
    BY <1>2, <1>7, <1>8, <1>9, <1>10, <1>11 DEF f, spaced, n, t

-----------------------------------------------------------------------------
\* Before the client has built anything.
LEMMA OffsetInvInit == Init => OffsetInv
<1> SUFFICES ASSUME Init PROVE OffsetInv
    OBVIOUS
<1>1. /\ Len(frags) = 0 /\ Len(out) = 0 /\ Len(map) = 0
      /\ frags \in Seq(Fragment) /\ out \in Seq(Characters) /\ map \in Seq(Nat)
    BY EmptySeq DEF Init
<1>2. Types
    BY <1>1 DEF Init, Types
<1>3. ClientInv /\ FragsInv /\ AheadInv /\ AscendingInv
    BY <1>1 DEF Init, ClientInv, FragsInv, AheadInv, AscendingInv
<1>4. PlacedInv /\ WordInv /\ DocumentInv /\ PlainInv
    BY <1>1 DEF Init, PlacedInv, WordInv, DocumentInv, PlainInv
<1> QED
    BY <1>2, <1>3, <1>4 DEF OffsetInv

\* The client's fragments do not overlap: one more begins where the last one
\* ends, or after that.
LEMMA OffsetInvClient == ASSUME OffsetInv, ClientFragment PROVE OffsetInv'
<1> USE DEF OffsetInv
<1>1. PICK action \in {"SPVA_Speak", "SPVA_Bookmark"}, text \in Texts, gap \in Gaps :
          frags' = Append(frags, [eAction |-> action, text |-> text, ulTextSrcOffset |->
                       (IF frags = <<>> THEN 0 ELSE FragEnd(frags[Len(frags)])) + gap])
    BY DEF ClientFragment
<1> DEFINE start == IF frags = <<>> THEN 0 ELSE FragEnd(frags[Len(frags)])
           f == [eAction |-> action, text |-> text, ulTextSrcOffset |-> start + gap]
<1>2. Len(frags) \in Nat /\ (frags # <<>> => Len(frags) \in 1 .. Len(frags))
    BY EmptySeq, LenProperties DEF Types
<1>3. start \in Nat /\ gap \in Nat
    BY <1>2, FragTypes, GapsAssumption
<1>4. text \in Seq(Characters)
    BY TextsAssumption
<1>5. f \in Fragment
    BY <1>3, <1>4 DEF Fragment
<1>6. frags' = Append(frags, f)
    BY <1>1
<1>7. f.ulTextSrcOffset = start + gap
    OBVIOUS
<1>8. frags # <<>> => start = FragEnd(frags[Len(frags)])
    OBVIOUS
<1> HIDE DEF f, start
<1>9. /\ frags' \in Seq(Fragment) /\ Len(frags') = Len(frags) + 1
      /\ \A k \in 1 .. Len(frags) : frags'[k] = frags[k]
      /\ frags'[Len(frags) + 1] = f
    BY <1>5, <1>6, AppendProperties DEF Types
<1>10. UNCHANGED <<phase, kind, next, out, map>> /\ phase = "client" /\ next = 1 /\ out = <<>>
    BY DEF ClientFragment, ClientInv
<1>11. Len(out) = 0 /\ Len(map) = 0
    BY <1>10, OutTypes DEF Types
<1>12. Types'
    BY <1>2, <1>9, <1>10 DEF Types
<1>13. FragsInv'
    <2> SUFFICES ASSUME NEW j \in 1 .. Len(frags'), NEW k \in 1 .. Len(frags'), j < k
                 PROVE  FragEnd(frags'[j]) <= frags'[k].ulTextSrcOffset
        BY DEF FragsInv, FragEnd
    <2>1. j \in 1 .. Len(frags) /\ frags'[j] = frags[j] /\ FragEnd(frags[j]) \in Nat
        BY <1>2, <1>9, FragTypes
    <2>2. CASE k \in 1 .. Len(frags)
        BY <1>9, <2>1, <2>2 DEF FragsInv
    <2>3. CASE k = Len(frags) + 1
        <3>1. frags'[k].ulTextSrcOffset = start + gap
            BY <1>7, <1>9, <2>3
        <3>2. start = FragEnd(frags[Len(frags)])
            BY <1>2, <1>8, <2>1, EmptySeq DEF Types
        <3>3. CASE j = Len(frags)
            BY <1>3, <2>1, <3>1, <3>2, <3>3
        <3>4. CASE j < Len(frags)
            <4>1. Len(frags) \in 1 .. Len(frags)
                BY <1>2, <2>1
            <4>2. FragEnd(frags[j]) <= frags[Len(frags)].ulTextSrcOffset
                BY <2>1, <3>4, <4>1 DEF FragsInv
            <4>3. /\ frags[Len(frags)].ulTextSrcOffset \in Nat
                  /\ Len(frags[Len(frags)].text) \in Nat
                  /\ start = frags[Len(frags)].ulTextSrcOffset + Len(frags[Len(frags)].text)
                BY <3>2, <4>1, FragTypes
            <4> QED
                BY <1>3, <2>1, <3>1, <4>2, <4>3
        <3> QED
            BY <1>2, <2>1, <3>3, <3>4
    <2> QED
        BY <1>2, <1>9, <2>2, <2>3
<1>14. ClientInv' /\ AheadInv' /\ AscendingInv'
    BY <1>10, <1>11 DEF ClientInv, AheadInv, AscendingInv
<1>15. PlacedInv' /\ WordInv' /\ DocumentInv' /\ PlainInv'
    BY <1>10, <1>11 DEF PlacedInv, WordInv, DocumentInv, PlainInv
<1> QED
    BY <1>12, <1>13, <1>14, <1>15

-----------------------------------------------------------------------------
(* Documents. *)

\* What is behind the sentinel, and what SSML is made of, are characters.
LEMMA DocumentTypes ==
    ASSUME Types, HasSentinel
    PROVE  /\ 1 \in 1 .. Len(frags)
           /\ Len(frags[1].text) \in Nat
           /\ Payload \in Seq(Characters)
           /\ \A i \in 1 .. Len(Payload) : i + 3 \in 1 .. Len(frags[1].text)
           /\ \A i \in 1 .. Len(Payload) : Payload[i] = frags[1].text[i + 3]
           /\ Normalized(Payload) \in Seq(Characters)
<1> DEFINE t == frags[1].text
<1>1. 1 \in 1 .. Len(frags)
    BY EmptySeq DEF HasSentinel, Types
<1>2. t \in Seq(Characters) /\ Len(t) \in Nat /\ Len(t) >= 3
    BY <1>1, FragTypes DEF HasSentinel
<1>3. Payload = SubSeq(t, 4, Len(t))
    BY DEF Payload
<1> HIDE DEF t
<1>4. 4 \in Nat \ {0} /\ 4 <= Len(t) + 1
    BY <1>2
<1>5. /\ Payload \in Seq(Characters)
      /\ Len(Payload) = Len(t) + 1 - 4
      /\ \A i \in 1 .. Len(t) + 1 - 4 : Payload[i] = t[i + 4 - 1]
    BY <1>2, <1>3, <1>4, SuffixProperties
<1>6. Len(Payload) \in Nat /\ Len(Payload) = Len(t) - 3
    BY <1>2, <1>4, <1>5
<1>7. \A i \in 1 .. Len(Payload) : i + 3 \in 1 .. Len(t)
    BY <1>2, <1>6
<1>8. ASSUME NEW i \in 1 .. Len(Payload) PROVE Payload[i] = t[i + 3]
    <2>1. i \in 1 .. Len(t) + 1 - 4 /\ i + 4 - 1 = i + 3
        BY <1>2, <1>6
    <2> QED
        BY <1>5, <2>1
<1>9. ASSUME NEW p \in Seq(Characters) PROVE Normalized(p) \in Seq(Characters)
    <2>1. Len(p) \in Nat /\ Len(BareTag) \in Nat
        BY TagsAssumption, LenProperties
    <2>2. StartsWith(p, BareTag) => Len(BareTag) + 1 \in Nat \ {0} /\ Len(BareTag) + 1 <= Len(p) + 1
        BY <2>1 DEF StartsWith
    <2>3. StartsWith(p, BareTag) => SubSeq(p, Len(BareTag) + 1, Len(p)) \in Seq(Characters)
        BY <2>2, SuffixProperties
    <2>4. Append(p, EndTag) \in Seq(Characters)
        BY TagsAssumption, AppendProperties
    <2>5. \A s \in Seq(Characters) : FullTag \o s \in Seq(Characters)
        BY TagsAssumption, ConcatProperties
    <2> QED
        BY <2>3, <2>4, <2>5 DEF Normalized
<1> QED
    BY <1>1, <1>2, <1>5, <1>7, <1>8, <1>9 DEF t

\* The inductive step where a document is found.
LEMMA OffsetInvDocument ==
    ASSUME OffsetInv, SpeakDocument \/ SpeakEmptyDocument
    PROVE  OffsetInv'
<1> USE DEF OffsetInv
<1>1. CASE SpeakDocument
    <2> USE <1>1 DEF SpeakDocument
    <2>1. /\ HasSentinel /\ HasSentinel' /\ Payload' = Payload /\ UNCHANGED <<frags, next>>
          /\ phase' = "spoken"
        BY DEF HasSentinel, Payload
    <2>2. out' \in Seq(Characters)
        BY <2>1, DocumentTypes
    <2>3. Len(out') \in Nat
        BY <2>2, LenProperties
    <2>4. map' = [i \in 1 .. Len(out') |-> (i - 1) + 3]
        OBVIOUS
    <2>5. map' \in [1 .. Len(out') -> Nat]
        BY <2>3, <2>4
    <2>6. map' \in Seq(Nat)
        BY <2>3, <2>5, SeqDef
    <2>7. Len(map') = Len(out')
        BY <2>3, <2>5, <2>6, LenProperties
    <2>8. \A i \in 1 .. Len(map') : map'[i] = i + 2
        BY <2>3, <2>4, <2>7
    <2>9. kind' \in {Ssml, Markdown} /\ (kind' # Ssml => out' = Payload)
        BY DEF HasSentinel
    <2>10. Types'
        BY <2>1, <2>2, <2>6, <2>7, <2>9 DEF Types
    <2>11. AscendingInv'
        BY <2>3, <2>7, <2>8 DEF AscendingInv
    <2>12. FragsInv'
        BY <2>1 DEF FragsInv, FragEnd
    <2>13. ClientInv' /\ AheadInv' /\ PlacedInv' /\ WordInv' /\ PlainInv'
        BY <2>1 DEF ClientInv, AheadInv, PlacedInv, WordInv, PlainInv
    <2>14. DocumentInv'
        BY <2>1, <2>8, <2>9 DEF DocumentInv
    <2> QED
        BY <2>10, <2>11, <2>12, <2>13, <2>14
<1>2. CASE SpeakEmptyDocument
    <2> USE <1>2 DEF SpeakEmptyDocument
    <2>1. HasSentinel' /\ UNCHANGED <<frags, next, out, map>> /\ phase' = "silent"
        BY DEF HasSentinel
    <2>2. kind' \in {Ssml, Markdown}
        BY DEF HasSentinel
    <2>3. Types'
        BY <2>1, <2>2 DEF Types
    <2>4. FragsInv' /\ AscendingInv'
        BY <2>1 DEF FragsInv, FragEnd, AscendingInv
    <2>5. ClientInv' /\ AheadInv' /\ PlacedInv' /\ WordInv' /\ DocumentInv' /\ PlainInv'
        BY <2>1 DEF ClientInv, AheadInv, PlacedInv, WordInv, DocumentInv, PlainInv
    <2> QED
        BY <2>3, <2>4, <2>5
<1> QED
    BY <1>1, <1>2

-----------------------------------------------------------------------------
(* Fragments. *)

\* The inductive step where nothing is written.
LEMMA OffsetInvQuiet ==
    ASSUME OffsetInv, SpeakPlain \/ SkipFragment \/ Extracted \/ UNCHANGED vars
    PROVE  OffsetInv'
<1> USE DEF OffsetInv
<1>1. /\ UNCHANGED <<frags, kind, out, map>>
      /\ HasSentinel' = HasSentinel /\ Payload' = Payload
      /\ \A c, i : IsAt(c, i)' = IsAt(c, i)
      /\ \A k : FragEnd(frags[k])' = FragEnd(frags[k])
    BY DEF SpeakPlain, SkipFragment, Extracted, vars, HasSentinel, Payload, IsAt, FragEnd
<1>2. Types' /\ (\A k \in next' .. Len(frags) : k \in next .. Len(frags))
    BY <1>1, OutTypes DEF SpeakPlain, SkipFragment, Extracted, vars, Types
<1>3. ClientInv'
    BY <1>1 DEF SpeakPlain, SkipFragment, Extracted, vars, ClientInv
<1>4. FragsInv' /\ AscendingInv'
    BY <1>1 DEF FragsInv, AscendingInv
<1>5. AheadInv'
    BY <1>1, <1>2 DEF SpeakPlain, SkipFragment, Extracted, vars, AheadInv
<1>6. PlacedInv' /\ WordInv'
    BY <1>1 DEF PlacedInv, WordInv
<1>7. DocumentInv' /\ PlainInv'
    BY <1>1 DEF SpeakPlain, SkipFragment, Extracted, vars, DocumentInv, PlainInv
<1> QED
    BY <1>2, <1>3, <1>4, <1>5, <1>6, <1>7

\* The inductive step where the text and the map become shorter.
LEMMA OffsetInvTrim == ASSUME OffsetInv, TrimBlank PROVE OffsetInv'
<1> USE DEF OffsetInv
<1>1. /\ UNCHANGED <<frags, phase, kind, next>> /\ phase = "fragments" /\ ~HasSentinel
      /\ HasSentinel' = HasSentinel
      /\ \A c, i : IsAt(c, i)' = IsAt(c, i)
      /\ \A k : FragEnd(frags[k])' = FragEnd(frags[k])
    BY DEF TrimBlank, PlainInv, HasSentinel, IsAt, FragEnd
<1>2. out # <<>> /\ map # <<>> /\ out \in Seq(Characters) /\ map \in Seq(Nat)
    BY OutTypes DEF TrimBlank, EndsBlank, Types
<1>3. /\ Len(out) \in Nat \ {0} /\ Len(map) = Len(out)
      /\ out' \in Seq(Characters) /\ Len(out') = Len(out) - 1
      /\ \A i \in 1 .. Len(out) - 1 : out'[i] = out[i]
    BY <1>2, DroppedLast DEF TrimBlank, Types
<1>4. /\ map' \in Seq(Nat) /\ Len(map') = Len(map) - 1
      /\ \A i \in 1 .. Len(map) - 1 : map'[i] = map[i]
    BY <1>2, DroppedLast DEF TrimBlank
<1>5. \A i \in 1 .. Len(out') : i \in 1 .. Len(out) /\ out'[i] = out[i] /\ map'[i] = map[i]
    BY <1>3, <1>4
<1>6. Len(map') = Len(out')
    BY <1>3, <1>4
<1>7. Types'
    BY <1>1, <1>3, <1>4, <1>6 DEF Types
<1>8. ClientInv' /\ FragsInv' /\ DocumentInv' /\ PlainInv'
    BY <1>1 DEF ClientInv, FragsInv, DocumentInv, PlainInv
<1>9. AheadInv'
    BY <1>1, <1>3, <1>5, <1>6 DEF AheadInv
<1>10. AscendingInv'
    BY <1>3, <1>5, <1>6 DEF AscendingInv
<1>11. PlacedInv'
    BY <1>1, <1>5 DEF PlacedInv
<1>12. WordInv'
    <2> SUFFICES ASSUME NEW i \in 1 .. Len(out'), NEW j \in 1 .. Len(out'), i <= j,
                        \A m \in i .. j : out'[m] # Blank
                 PROVE  map'[j] = map'[i] + (j - i)
        BY DEF WordInv
    <2>1. i \in 1 .. Len(out) /\ j \in 1 .. Len(out) /\ map'[i] = map[i] /\ map'[j] = map[j]
        BY <1>5
    <2>2. \A m \in i .. j : out[m] # Blank
        <3> TAKE m \in i .. j
        <3>1. m \in 1 .. Len(out')
            BY <1>3
        <3> QED
            BY <1>5, <3>1
    <2> QED
        BY <1>1, <2>1, <2>2 DEF WordInv
<1> QED
    BY <1>7, <1>8, <1>9, <1>10, <1>11, <1>12

\* The inductive step where a fragment is appended.
LEMMA OffsetInvAppend == ASSUME OffsetInv, AppendFragment PROVE OffsetInv'
<1> USE DEF OffsetInv
<1> DEFINE f == frags[next]
           spaced == out # <<>> /\ ~EndsBlank(out)
           n == Len(out) + (IF spaced THEN 1 ELSE 0)
<1>1. /\ UNCHANGED <<frags, phase, kind>> /\ phase = "fragments" /\ ~HasSentinel
      /\ next \in 1 .. Len(frags) /\ next' = next + 1
      /\ HasSentinel' = HasSentinel
      /\ \A c, i : IsAt(c, i)' = IsAt(c, i)
      /\ \A k : FragEnd(frags[k])' = FragEnd(frags[k])
    BY OutTypes DEF AppendFragment, PlainInv, HasSentinel, IsAt, FragEnd, Types
<1>2. /\ f.text \in Seq(Characters) /\ Len(f.text) \in Nat /\ f.ulTextSrcOffset \in Nat
      /\ FragEnd(f) = f.ulTextSrcOffset + Len(f.text)
    BY <1>1, FragTypes
<1>3. /\ out' \in Seq(Characters) /\ Len(out') = n + Len(f.text)
      /\ map' \in Seq(Nat) /\ Len(map') = n + Len(f.text)
      /\ \A i \in 1 .. Len(out) : out'[i] = out[i] /\ map'[i] = map[i]
      /\ spaced => out'[n] = Blank /\ map'[n] = map[Len(map)]
      /\ \A i \in 1 .. Len(f.text) :
             out'[n + i] = f.text[i] /\ map'[n + i] = f.ulTextSrcOffset + (i - 1)
    BY Appended
<1>4. /\ Len(out) \in Nat /\ Len(map) = Len(out) /\ Len(frags) \in Nat /\ next \in Nat
      /\ n \in Nat /\ (spaced => n = Len(out) + 1 /\ Len(out) \in 1 .. Len(out))
      /\ (~spaced => n = Len(out))
      /\ (~spaced /\ Len(out) # 0 => out[Len(out)] = Blank)
      /\ \A i \in 1 .. Len(out) : map[i] \in Nat
    BY OutTypes DEF Types, EndsBlank
<1>5. \A i \in 1 .. Len(out) : map[i] < f.ulTextSrcOffset
    BY <1>1, <1>4 DEF AheadInv
<1>6. \A k \in next + 1 .. Len(frags) :
          FragEnd(f) <= frags[k].ulTextSrcOffset /\ frags[k].ulTextSrcOffset \in Nat
    BY <1>1, <1>4, FragTypes DEF FragsInv
<1> HIDE DEF f, spaced, n
\* A place of the new text is one of the old, the blank, or in the fragment.
<1>7. ASSUME NEW j \in 1 .. n + Len(f.text)
      PROVE  \/ j \in 1 .. Len(out)
             \/ spaced /\ j = n
             \/ \E i \in 1 .. Len(f.text) : j = n + i
    <2>1. CASE j > n
        <3>1. j - n \in 1 .. Len(f.text) /\ j = n + (j - n)
            BY <1>2, <1>4, <2>1
        <3> QED
            BY <3>1
    <2>2. CASE j <= n
        BY <1>2, <1>4, <2>2
    <2> QED
        BY <1>2, <1>4, <2>1, <2>2
<1>8. Types'
    BY <1>1, <1>3, <1>4 DEF Types
<1>9. ClientInv' /\ FragsInv' /\ DocumentInv' /\ PlainInv'
    BY <1>1 DEF ClientInv, FragsInv, DocumentInv, PlainInv
<1>10. ASSUME NEW j \in 1 .. Len(map')
       PROVE  /\ map'[j] \in Nat
              /\ j <= n => map'[j] < f.ulTextSrcOffset
              /\ map'[j] < FragEnd(f)
    <2>1. CASE j \in 1 .. Len(out)
        <3>1. map'[j] \in Nat /\ map'[j] < f.ulTextSrcOffset
            BY <1>3, <1>4, <1>5, <2>1
        <3> QED
            BY <1>2, <3>1
    <2>2. CASE spaced /\ j = n
        <3>1. map'[j] \in Nat /\ map'[j] < f.ulTextSrcOffset
            BY <1>3, <1>4, <1>5, <2>2
        <3> QED
            BY <1>2, <3>1
    <2>3. ASSUME NEW i \in 1 .. Len(f.text), j = n + i
          PROVE  /\ map'[j] \in Nat
                 /\ j <= n => map'[j] < f.ulTextSrcOffset
                 /\ map'[j] < FragEnd(f)
        <3>1. map'[j] = f.ulTextSrcOffset + (i - 1)
            BY <1>3, <2>3
        <3> QED
            BY <1>2, <1>4, <2>3, <3>1
    <2> QED
        BY <1>3, <1>7, <2>1, <2>2, <2>3
<1>11. AheadInv'
    <2> SUFFICES ASSUME NEW i \in 1 .. Len(map'), NEW k \in next' .. Len(frags')
                 PROVE  map'[i] < frags'[k].ulTextSrcOffset
        BY DEF AheadInv
    <2>1. /\ FragEnd(f) <= frags[k].ulTextSrcOffset /\ frags[k].ulTextSrcOffset \in Nat
          /\ frags'[k] = frags[k]
        BY <1>1, <1>6
    <2>2. map'[i] < FragEnd(f) /\ map'[i] \in Nat /\ FragEnd(f) \in Nat
        BY <1>2, <1>10
    <2> QED
        BY <2>1, <2>2
<1>12. AscendingInv'
    <2> SUFFICES ASSUME NEW i \in 1 .. Len(map'), NEW j \in 1 .. Len(map'), i < j
                 PROVE  map'[i] <= map'[j]
        BY DEF AscendingInv
    <2>1. CASE j \in 1 .. Len(out)
        <3>1. i \in 1 .. Len(out)
            BY <1>4, <2>1
        <3> QED
            BY <1>3, <1>4, <2>1, <3>1 DEF AscendingInv
    <2>2. CASE spaced /\ j = n
        <3>1. i \in 1 .. Len(out) /\ Len(out) \in 1 .. Len(out)
            BY <1>4, <2>2
        <3>2. map[i] <= map[Len(map)]
            <4>1. CASE i = Len(map)
                BY <1>4, <3>1, <4>1
            <4>2. CASE i # Len(map)
                BY <1>4, <3>1, <4>2 DEF AscendingInv
            <4> QED
                BY <4>1, <4>2
        <3> QED
            BY <1>3, <2>2, <3>1, <3>2
    <2>3. ASSUME NEW x \in 1 .. Len(f.text), j = n + x PROVE map'[i] <= map'[j]
        <3>1. map'[j] = f.ulTextSrcOffset + (x - 1)
            BY <1>3, <2>3
        <3>2. CASE i <= n
            <4>1. map'[i] < f.ulTextSrcOffset /\ map'[i] \in Nat
                BY <1>10, <3>2
            <4> QED
                BY <1>2, <3>1, <4>1
        <3>3. CASE i > n
            <4>1. PICK y \in 1 .. Len(f.text) : i = n + y
                BY <1>3, <1>4, <1>7, <3>3
            <4>2. map'[i] = f.ulTextSrcOffset + (y - 1) /\ y < x
                BY <1>2, <1>3, <1>4, <2>3, <4>1
            <4> QED
                BY <1>2, <3>1, <4>2
        <3> QED
            BY <1>3, <1>4, <3>2, <3>3
    <2> QED
        BY <1>3, <1>7, <2>1, <2>2, <2>3
<1>13. PlacedInv'
    <2> SUFFICES ASSUME NEW j \in 1 .. Len(out'), out'[j] # Blank
                 PROVE  IsAt(out'[j], map'[j])
        BY <1>1 DEF PlacedInv
    <2>1. CASE j \in 1 .. Len(out)
        BY <1>1, <1>3, <2>1 DEF PlacedInv
    <2>2. CASE spaced /\ j = n
        BY <1>3, <2>2
    <2>3. ASSUME NEW i \in 1 .. Len(f.text), j = n + i PROVE IsAt(out'[j], map'[j])
        <3>1. out'[j] = f.text[i] /\ map'[j] = f.ulTextSrcOffset + (i - 1)
            BY <1>3, <2>3
        <3>2. map'[j] - f.ulTextSrcOffset + 1 = i
            BY <1>2, <3>1
        <3>3. f = frags[next]
            BY DEF f
        <3> QED
            BY <1>1, <3>1, <3>2, <3>3 DEF IsAt
    <2> QED
        BY <1>3, <1>7, <2>1, <2>2, <2>3
<1>14. WordInv'
    <2> SUFFICES ASSUME NEW i \in 1 .. Len(out'), NEW j \in 1 .. Len(out'), i <= j,
                        \A m \in i .. j : out'[m] # Blank
                 PROVE  map'[j] = map'[i] + (j - i)
        BY DEF WordInv
    <2>1. CASE j \in 1 .. Len(out)
        <3>1. i \in 1 .. Len(out) /\ \A m \in i .. j : m \in 1 .. Len(out)
            BY <1>4, <2>1
        <3>2. \A m \in i .. j : out[m] # Blank
            BY <1>3, <3>1
        <3>3. map[j] = map[i] + (j - i)
            BY <1>1, <2>1, <3>1, <3>2 DEF WordInv
        <3> QED
            BY <1>3, <2>1, <3>1, <3>3
    <2>2. CASE spaced /\ j = n
        <3>1. j \in i .. j
            BY <1>3
        <3> QED
            BY <1>3, <2>2, <3>1
    <2>3. ASSUME NEW x \in 1 .. Len(f.text), j = n + x PROVE map'[j] = map'[i] + (j - i)
        <3>1. i > n
            <4> SUFFICES ASSUME i <= n PROVE FALSE
                BY <1>4
            <4>1. n \in i .. j /\ n >= 1
                BY <1>2, <1>3, <1>4, <2>3
            <4>2. out'[n] # Blank
                BY <4>1
            <4>3. ~spaced
                BY <1>3, <4>2
            <4>4. out[Len(out)] = Blank /\ n = Len(out) /\ Len(out) \in 1 .. Len(out)
                BY <1>4, <4>1, <4>3
            <4> QED
                BY <1>3, <4>2, <4>4
        <3>2. PICK y \in 1 .. Len(f.text) : i = n + y
            BY <1>3, <1>4, <1>7, <3>1
        <3>3. map'[i] = f.ulTextSrcOffset + (y - 1) /\ map'[j] = f.ulTextSrcOffset + (x - 1)
            BY <1>3, <2>3, <3>2
        <3> QED
            BY <1>2, <1>4, <2>3, <3>2, <3>3
    <2> QED
        BY <1>3, <1>7, <2>1, <2>2, <2>3
<1> QED
    BY <1>8, <1>9, <1>11, <1>12, <1>13, <1>14

-----------------------------------------------------------------------------
\* The invariant is inductive.
LEMMA OffsetInvNext == OffsetInv /\ [Next]_vars => OffsetInv'
    BY OffsetInvClient, OffsetInvDocument, OffsetInvQuiet, OffsetInvAppend, OffsetInvTrim DEF Next

\* However the client's text is made up.
THEOREM OffsetInvAlways == Spec => []OffsetInv
    BY OffsetInvInit, OffsetInvNext, PTL DEF Spec

\* The map is made of positions, and has one for every place of the text, so
\* no boundary in the text is taken for its end.
THEOREM TypesHold == Spec => []TypeOK
<1>1. OffsetInv => TypeOK  BY DEF OffsetInv, Types, TypeOK
<1> QED
    BY <1>1, OffsetInvAlways, PTL

\* A word boundary that a client is told of covers this word in its own text,
\* whatever markup, blanks and fragments there are.
THEOREM BoundariesFindWords == Spec => []BoundaryFindsItsWord
<1>1. OffsetInv => BoundaryFindsItsWord
    <2> SUFFICES ASSUME OffsetInv, phase = "spoken", kind # Ssml,
                        kind = Markdown => frags[1].ulTextSrcOffset = 0,
                        NEW b \in 0 .. Len(out) - 1, NEW e \in b + 1 .. Len(out), IsWord(b, e),
                        NEW i \in 0 .. e - b - 1
                 PROVE  IsAt(out[b + i + 1], TranslateOffset(b) + i)
        BY DEF BoundaryFindsItsWord, FindsItsWord
    <2> USE DEF OffsetInv
    <2>1. Len(out) \in Nat /\ Len(map) = Len(out) /\ (map = <<>> <=> Len(map) = 0)
        BY OutTypes DEF Types
    <2>2. b + 1 \in 1 .. Len(out) /\ b + i + 1 \in b + 1 .. e /\ b + i + 1 \in 1 .. Len(out)
        BY <2>1
    <2>3. TranslateOffset(b) = map[b + 1] /\ map[b + 1] \in Nat
        BY <2>1, <2>2, OutTypes DEF TranslateOffset
    <2>4. CASE HasSentinel
        <3>1. out = Payload /\ map[b + 1] = (b + 1) + 2 /\ frags[1].ulTextSrcOffset = 0
            BY <2>1, <2>2, <2>4 DEF DocumentInv
        <3>2. /\ 1 \in 1 .. Len(frags)
              /\ (b + i + 1) + 3 \in 1 .. Len(frags[1].text)
              /\ out[b + i + 1] = frags[1].text[(b + i + 1) + 3]
            BY <2>2, <2>4, <3>1, DocumentTypes
        <3>3. (TranslateOffset(b) + i) - frags[1].ulTextSrcOffset + 1 = (b + i + 1) + 3
            <4>1. TranslateOffset(b) = b + 3 /\ b \in Int /\ i \in Int
                BY <2>1, <2>2, <2>3, <3>1
            <4>2. ((b + 3) + i) - 0 + 1 = (b + i + 1) + 3
                BY <4>1
            <4> QED
                BY <3>1, <4>1, <4>2
        <3> QED
            BY <3>2, <3>3 DEF IsAt
    <2>5. CASE ~HasSentinel
        <3>1. \A m \in b + 1 .. b + i + 1 : out[m] # Blank
            BY <2>1, <2>2 DEF IsWord
        <3>2. map[b + i + 1] = map[b + 1] + ((b + i + 1) - (b + 1))
            BY <2>2, <2>5, <3>1 DEF WordInv
        <3>3. map[b + i + 1] = TranslateOffset(b) + i
            BY <2>1, <2>2, <2>3, <3>2
        <3>4. out[b + i + 1] # Blank
            BY <2>2 DEF IsWord
        <3> QED
            BY <2>2, <2>5, <3>3, <3>4 DEF PlacedInv
    <2> QED
        BY <2>4, <2>5
<1> QED
    BY <1>1, OffsetInvAlways, PTL

\* The positions a client is told of do not go back while the text goes on.
THEOREM OffsetsAscend == Spec => []OffsetsNeverGoBack
<1>1. OffsetInv => OffsetsNeverGoBack
    <2> SUFFICES ASSUME OffsetInv, NEW p \in 0 .. Len(out), NEW q \in 0 .. Len(out), p < q
                 PROVE  TranslateOffset(p) <= TranslateOffset(q)
        BY DEF OffsetsNeverGoBack
    <2>1. /\ Len(out) \in Nat /\ Len(map) = Len(out) /\ (map = <<>> <=> Len(map) = 0)
          /\ \A i \in 1 .. Len(map) : map[i] \in Nat
        BY OutTypes DEF OffsetInv, Types
    <2>2. p + 1 \in 1 .. Len(map) /\ TranslateOffset(p) = map[p + 1]
        BY <2>1 DEF TranslateOffset
    <2>3. CASE q < Len(map)
        <3>1. q + 1 \in 1 .. Len(map) /\ TranslateOffset(q) = map[q + 1] /\ p + 1 < q + 1
            BY <2>1, <2>3 DEF TranslateOffset
        <3> QED
            BY <2>2, <3>1 DEF OffsetInv, AscendingInv
    <2>4. CASE q = Len(map)
        <3>1. TranslateOffset(q) = map[Len(map)] + 1 /\ Len(map) \in 1 .. Len(map)
            BY <2>1, <2>2, <2>4 DEF TranslateOffset
        <3>2. map[p + 1] <= map[Len(map)]
            <4>1. CASE p + 1 = Len(map)
                BY <2>1, <2>2, <4>1
            <4>2. CASE p + 1 < Len(map)
                BY <2>2, <3>1, <4>2 DEF OffsetInv, AscendingInv
            <4> QED
                BY <2>1, <2>2, <4>1, <4>2
        <3> QED
            BY <2>1, <2>2, <3>1, <3>2
    <2> QED
        BY <2>1, <2>3, <2>4
<1> QED
    BY <1>1, OffsetInvAlways, PTL
=============================================================================
