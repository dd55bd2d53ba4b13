----------------------------- MODULE MCOffsetMap -----------------------------
(***************************************************************************)
(* Texts of a few characters for OffsetMap: letters and blanks in all the  *)
(* orders that matter at the ends of a fragment, and sentinels with a      *)
(* document of every form.                                                 *)
(***************************************************************************)
EXTENDS OffsetMap

MCMark == <<"E000", "E001">>
MCFullTag == <<"<speak", "attributes>">>
MCBareTag == <<"<speak>">>

MCCharacters ==
    {"a", "b", "_", "E000", "E001", "E002", "E003", "<speak", "attributes>", "<speak>", "</speak>"}

PlainTexts == {<<>>, <<"a">>, <<"_">>, <<"a", "b">>, <<"_", "a">>, <<"a", "_">>, <<"_", "_">>}

Documents ==
    {<<>>, <<"a">>, <<"a", "_", "b">>} \union
    {MCFullTag \o <<"a", "</speak>">>, MCBareTag \o <<"a", "</speak>">>, MCBareTag \o <<"a">>}

MCTexts ==
    PlainTexts
    \union {MCMark \o <<"E002">> \o d : d \in Documents}
    \union {MCMark \o <<"E003">> \o d : d \in {<<>>, <<"a", "_", "b">>}}
    \union {MCMark \o <<"a">>, MCMark}
=============================================================================
