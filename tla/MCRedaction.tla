---------------------------- MODULE MCRedaction ----------------------------
(* Redaction with secrets that overlap, contain and split one another.     *)
EXTENDS Redaction

Secret(patterns) == [patterns |-> patterns, short |-> FALSE]

MCSecretSets ==
  { {Secret({<<"a", "b">>, <<"a", "b", "a">>, <<"b", "b">>})},
    {Secret({<<"[">>, <<".", "a">>}), Secret({<<"a", "b">>})},
    {Secret({<<"L", "C", "a">>, <<"C", "a">>}), Secret({<<"h", "a">>})},
    {Secret({<<"a">>}), [patterns |-> {<<"b">>}, short |-> TRUE]},
    {} }

MCByte == {"a", "b", "L", "T", "C", "[", "]", "\\", "x", "h", "."}
MCChunks == SeqOf({"a", "b", "L", "T", "C", "["}, 2)
MCOtherTexts == { <<>>, << <<"a">>, <<"a">> >>,
                  << <<"L", "C">>, <<"L", "C">>, <<"a">>, <<"L", "C">> >> }
MCMarker == <<"[", "]">>
MCFewOmitted == << <<".">> >>
MCManyOmitted == << <<".">>, <<".">> >>
=============================================================================
