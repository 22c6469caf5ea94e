---------------------------- MODULE MCTokenizer ----------------------------
(***************************************************************************)
(* Source files for TLC: every text of a few pieces from each of some      *)
(* alphabets, one for each thing that can go wrong.                        *)
(***************************************************************************)
EXTENDS TokensAsC

\* The texts of up to four pieces, of five, and one letter pieces.
Texts(pieces) == LET P == pieces \cup {<<>>} IN {a \o b \o c \o d : a, b, c, d \in P}
Longer(pieces) == LET P == pieces \cup {<<>>} IN {t \o e : t \in Texts(pieces), e \in P}
Letters(chars) == {<<c>> : c \in chars}

Lines == Longer(Letters({"a", "\n", "\r", "\\"}))
Comments ==
  Texts({<<"/", "*">>, <<"*", "/">>, <<"/">>, <<"\\", "\n">>, <<"\n">>, <<"a">>, <<" ">>})
  \cup Texts({<<"/", "/">>, <<"#">>, <<"\\", "\n">>, <<"\r", "\n">>, <<"a">>, <<"/", "*", "*", "/">>})
Punctuators == Texts(Letters({"<", "=", "-", ">", ".", "1"}))
IntConstants ==
  Texts(Letters({"1", "7", "8", "L", "l", "U"}))
  \cup Texts({<<"0">>, <<"1">>, <<"a">>, <<"0", "x">>, <<"0", "b">>, <<"l">>, <<"u">>})
Floats == Texts({<<"0">>, <<"1">>, <<"0", "x">>, <<".">>, <<"e">>, <<"p">>, <<"-">>, <<"f">>})
Names == Texts({<<"a">>, <<"\\">>, <<"u">>, <<"U">>, <<"1">>, <<"0">>, <<"\"">>})
Identifiers == Texts(Letters({"a", "1", "U+00E9", "U+0301", "U+2028", "U+FEFF"}))
StringBodies == Longer(Letters({"\"", "\\", "x", "1", "U+00E9"}))
StringRuns == Texts({<<"\"">>, <<"a", "\"">>, <<"L", "\"">>, <<"u", "8", "\"">>, <<"u", "\"">>, <<"U", "\"">>,
                     <<"U+1F600">>, <<"\\", "1">>})
CharConstants == Texts(Letters({"'", "\\", "u", "x", "1", "\n"}))

Files == Lines \cup Comments \cup Punctuators \cup IntConstants \cup Floats \cup Names \cup Identifiers
           \cup StringBodies \cup StringRuns \cup CharConstants
Words == {<<"a", "a">>}
=============================================================================
