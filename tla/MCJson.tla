------------------------------- MODULE MCJson -------------------------------
(***************************************************************************)
(* Values of a few kinds, strings that need every sort of escape, and texts*)
(* that no serialiser wrote.                                               *)
(***************************************************************************)
EXTENDS Json

McNames == {<<"a">>, <<"b">>}
McPaths == {<<"a", DOT, "b">>}

McStrings == {<<QUOTE, "A", BACKSLASH>>}

McTexts == {
  <<"{", QUOTE, "a", QUOTE, ":", "1", ",", " ", QUOTE, "a", QUOTE, ":", "1", "}">>,  \* a name twice
  <<"{", QUOTE, BACKSLASH, "u", "0000", QUOTE, ":", "null", "}">>,      \* a name with \0
  <<"[", "-0.5", " ", ",", "{", "}", "]">>,
  <<"[", "false", ",", "]">>,
  <<QUOTE, BACKSLASH, "u", Half, QUOTE>>, <<QUOTE, LF, QUOTE>>, <<QUOTE, BACKSLASH, QUOTE>> }
=============================================================================
