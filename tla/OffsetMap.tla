------------------------------ MODULE OffsetMap ------------------------------
(***************************************************************************)
(* How CTTSEngine::Speak turns the text fragments of a SAPI client into    *)
(* the one text it hands to the wrapper, and the map m_plainToSapiMap by   *)
(* which TranslateOffset turns positions in that text back into positions  *)
(* in the client's text (TTSEngine.cpp).  SpeechEngine.tla says when this  *)
(* happens and who reads the map; here is what is in it.                   *)
(*                                                                         *)
(* The client's text is a row of fragments with a gap of markup between    *)
(* some of them.  A first fragment that begins with the sentinel carries a *)
(* document in SSML or Speech Markdown; any other text is plain.           *)
(* Characters are model values: what matters is which are blank, which     *)
(* form the sentinel, and which are a <speak> tag.  Positions count from 0 *)
(* as in the code, elements of sequences from 1.                           *)
(***************************************************************************)
EXTENDS Integers, Sequences

CONSTANTS MaxFrags,   \* bound: fragments of one Speak call
          Characters,
          Texts,      \* what the text of a fragment may be
          Gaps,       \* how much markup there may be before a fragment
          Blank,      \* a character for which iswspace holds
          Mark,       \* the two characters every sentinel begins with
          Ssml,       \* the third character: the rest is SSML ...
          Markdown,   \* ... or Speech Markdown
          FullTag,    \* <speak> with the attributes Azure wants, a sequence
          BareTag,    \* <speak> without them, a sequence
          EndTag      \* </speak>

ASSUME MaxFragsAssumption == MaxFrags \in Nat
ASSUME GapsAssumption == Gaps \subseteq Nat
ASSUME TextsAssumption == Texts \subseteq Seq(Characters)
ASSUME MarkAssumption == Mark \in Seq(Characters) /\ Len(Mark) = 2
ASSUME TagsAssumption ==
    /\ FullTag \in Seq(Characters) \ {<<>>} /\ BareTag \in Seq(Characters) \ {<<>>}
    /\ {EndTag, Blank} \subseteq Characters

VARIABLES
    frags,    \* the fragment list: action, text, and position of the text
    phase,    \* where Speak is: "client", "fragments", "spoken", "silent"
    kind,     \* what it takes the text for: "plain", Ssml or Markdown
    next,     \* the fragment the loop is at
    out,      \* the text for the wrapper
    map       \* m_plainToSapiMap

vars == <<frags, phase, kind, next, out, map>>

SpokenActions == {"SPVA_Speak", "SPVA_SpellOut", "SPVA_Pronounce"}

TypeOK ==
    /\ phase \in {"client", "fragments", "spoken", "silent"}
    /\ kind \in {"plain", Ssml, Markdown}
    /\ next \in 1 .. Len(frags) + 1
    /\ map \in Seq(Nat)
    /\ Len(map) = Len(out)   \* no boundary in the text is taken for its end

Init ==
    /\ frags = <<>>
    /\ phase = "client"
    /\ kind = "plain"
    /\ next = 1
    /\ out = <<>>
    /\ map = <<>>

FragEnd(f) == f.ulTextSrcOffset + Len(f.text)

\* The client's text, as SAPI hands it over when Speak is called: fragments
\* follow one another, with markup in between or none.
ClientFragment ==
    /\ phase = "client"
    /\ Len(frags) < MaxFrags
    /\ \E action \in {"SPVA_Speak", "SPVA_Bookmark"}, text \in Texts, gap \in Gaps :
         LET end == IF frags = <<>> THEN 0 ELSE FragEnd(frags[Len(frags)])
         IN  frags' = Append(frags, [eAction |-> action, text |-> text,
                                     ulTextSrcOffset |-> end + gap])
    /\ UNCHANGED <<phase, kind, next, out, map>>

EndsBlank(s) == s # <<>> /\ s[Len(s)] = Blank
StartsWith(s, p) == Len(s) >= Len(p) /\ SubSeq(s, 1, Len(p)) = p
EndsWith(s, c) == s # <<>> /\ s[Len(s)] = c

-----------------------------------------------------------------------------
(* The sentinel. *)

HasSentinel ==
    /\ frags # <<>>
    /\ Len(frags[1].text) >= 3
    /\ StartsWith(frags[1].text, Mark)
    /\ frags[1].text[3] \in {Ssml, Markdown}

Payload == SubSeq(frags[1].text, 4, Len(frags[1].text))

\* SSML gets a <speak> tag with attributes, in place of one without or, if
\* there was none, around everything.
Normalized(p) ==
    IF StartsWith(p, FullTag) THEN p
    ELSE IF StartsWith(p, BareTag)
      THEN IF EndsWith(p, EndTag)
             THEN FullTag \o SubSeq(p, Len(BareTag) + 1, Len(p))
             ELSE p
    ELSE FullTag \o Append(p, EndTag)

\* A document: its text, and a map from position i to position i + 3.
SpeakDocument ==
    /\ phase = "client"
    /\ HasSentinel
    /\ Payload # <<>>
    /\ kind' = frags[1].text[3]
    /\ out' = IF kind' = Ssml THEN Normalized(Payload) ELSE Payload
    /\ map' = [i \in 1 .. Len(out') |-> (i - 1) + 3]
    /\ phase' = "spoken"
    /\ UNCHANGED <<frags, next>>

SpeakEmptyDocument ==
    /\ phase = "client"
    /\ HasSentinel
    /\ Payload = <<>>
    /\ kind' = frags[1].text[3]
    /\ phase' = "silent"
    /\ UNCHANGED <<frags, next, out, map>>

-----------------------------------------------------------------------------
(* ExtractSherpaPlainTextWithMap. *)

SpeakPlain ==
    /\ phase = "client"
    /\ ~HasSentinel
    /\ phase' = "fragments"
    /\ UNCHANGED <<frags, kind, next, out, map>>

Spoken(f) == f.text # <<>> /\ f.eAction \in SpokenActions

SkipFragment ==
    /\ phase = "fragments"
    /\ next <= Len(frags)
    /\ ~Spoken(frags[next])
    /\ next' = next + 1
    /\ UNCHANGED <<frags, phase, kind, out, map>>

\* Mutant: positions are taken within the fragment.
PositionsInFragment(f) == [i \in 1 .. Len(f.text) |-> i - 1]

Positions(f) == [i \in 1 .. Len(f.text) |-> f.ulTextSrcOffset + (i - 1)]

\* Mutant: fragments are joined without a space.
AppendFragmentJoined ==
    /\ phase = "fragments"
    /\ next <= Len(frags)
    /\ Spoken(frags[next])
    /\ out' = out \o frags[next].text
    /\ map' = map \o Positions(frags[next])
    /\ next' = next + 1
    /\ UNCHANGED <<frags, phase, kind>>

\* Mutant: the space between two fragments has no entry in the map.
AppendFragmentSpaceUnmapped ==
    /\ phase = "fragments"
    /\ next <= Len(frags)
    /\ Spoken(frags[next])
    /\ out' = (IF out # <<>> /\ ~EndsBlank(out) THEN Append(out, Blank) ELSE out)
                 \o frags[next].text
    /\ map' = map \o Positions(frags[next])
    /\ next' = next + 1
    /\ UNCHANGED <<frags, phase, kind>>

\* The space put between two fragments is given the position of the last
\* character before it.
AppendFragment ==
    /\ phase = "fragments"
    /\ next <= Len(frags)
    /\ Spoken(frags[next])
    /\ LET spaced == out # <<>> /\ ~EndsBlank(out)
       IN  /\ out' = (IF spaced THEN Append(out, Blank) ELSE out) \o frags[next].text
           /\ map' = (IF spaced THEN Append(map, map[Len(map)]) ELSE map)
                        \o Positions(frags[next])
    /\ next' = next + 1
    /\ UNCHANGED <<frags, phase, kind>>

\* Blanks at the end are dropped from the text and from the map.
TrimBlank ==
    /\ phase = "fragments"
    /\ next > Len(frags)
    /\ EndsBlank(out)
    /\ out' = SubSeq(out, 1, Len(out) - 1)
    /\ map' = SubSeq(map, 1, Len(map) - 1)
    /\ UNCHANGED <<frags, phase, kind, next>>

Extracted ==
    /\ phase = "fragments"
    /\ next > Len(frags)
    /\ ~EndsBlank(out)
    /\ phase' = IF out = <<>> THEN "silent" ELSE "spoken"
    /\ UNCHANGED <<frags, kind, next, out, map>>

Next ==
    \/ ClientFragment
    \/ SpeakDocument \/ SpeakEmptyDocument
    \/ SpeakPlain \/ SkipFragment \/ AppendFragment \/ TrimBlank \/ Extracted

Spec == Init /\ [][Next]_vars

-----------------------------------------------------------------------------
\* What a boundary at a position of the text becomes for the client.
TranslateOffset(plainOffset) ==
    IF map = <<>> THEN plainOffset
    ELSE IF plainOffset >= Len(map) THEN map[Len(map)] + 1
    ELSE map[plainOffset + 1]

\* Is character c at this position of the client's text?
IsAt(c, position) ==
    \E k \in 1 .. Len(frags) :
        LET i == position - frags[k].ulTextSrcOffset + 1
        IN  i \in 1 .. Len(frags[k].text) /\ frags[k].text[i] = c

\* A word of the text, from position b up to position e.
IsWord(b, e) == \A i \in b + 1 .. e : out[i] # Blank

FindsItsWord(b, e) ==
    \A i \in 0 .. e - b - 1 : IsAt(out[b + i + 1], TranslateOffset(b) + i)

-----------------------------------------------------------------------------
(* Properties. *)

\* A boundary of a word, translated, covers exactly this word in the text of
\* the client: the word is in one piece there, at the place the map gives.
\* This is said of plain text only.  The map of a document ignores where its
\* fragment was: Speech Markdown counts as long as it begins the client's text,
\* and SSML, whose map counts the inserted tag as well, not at all.
BoundaryFindsItsWord ==
    phase = "spoken" /\ (kind = Markdown => frags[1].ulTextSrcOffset = 0) /\ kind # Ssml =>
        \A b \in 0 .. Len(out) - 1 : \A e \in b + 1 .. Len(out) :
            IsWord(b, e) => FindsItsWord(b, e)

\* Boundaries that advance in the text advance in the client's text, and one
\* beyond the end comes after all others.
OffsetsNeverGoBack ==
    \A p, q \in 0 .. Len(out) : p < q => TranslateOffset(p) <= TranslateOffset(q)
=============================================================================
