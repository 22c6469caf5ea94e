----------------------------- MODULE TokensAsC -----------------------------
(***************************************************************************)
(* What C says of the tokens of a source file, in its own terms: the       *)
(* translation phases on the characters of the file, each with the line it *)
(* is on; a token is the longest sequence of characters that is one by the *)
(* grammar; an integer constant has the first type of its list that holds  *)
(* it; adjacent strings are one, of the encoding either has a prefix for.  *)
(***************************************************************************)
EXTENDS Tokenizer, FiniteSets

-----------------------------------------------------------------------------
(* Phases 1 and 2: characters with the line their logical line starts on. *)

Logical(text) ==
  LET crlf == {k \in 2..Len(text) : text[k] = "\n" /\ text[k - 1] = "\r"}
      ends == {k \in 1..Len(text) : text[k] \in {"\n", "\r"}} \ crlf
      continued == {k \in ends : k > 1 /\ text[k - 1] = "\\"}
      spliced == crlf \cup continued \cup {k - 1 : k \in continued}
      LastEnd(k) == Max({0} \cup {e \in ends \ continued : e < k})
      LineOf(k) == 1 + Cardinality({e \in ends : e <= LastEnd(k)})
      kept == SelectSeq(Places(text), LAMBDA k : k \notin spliced)
  IN  [j \in 1..Len(kept) |-> [ch |-> IF kept[j] \in ends THEN "\n" ELSE text[kept[j]], line |-> LineOf(kept[j])]]

\* A universal character name is a character; a backslash behind another one
\* starts none.
Hex(text, j, n) == /\ j + n - 1 <= Len(text) /\ \A i \in j..(j + n - 1) : text[i].ch \in HexDigit
                   /\ \E i \in j..(j + n - 1) : text[i].ch # "0"
Backslashes(text, j) ==
  j - 1 - (CHOOSE i \in 0..(j - 1) : /\ i = 0 \/ text[i].ch # "\\"
                                     /\ \A h \in (i + 1)..(j - 1) : text[h].ch = "\\")
NameLength(text, j) ==
  IF text[j].ch # "\\" \/ Backslashes(text, j) % 2 = 1 \/ j = Len(text) THEN 0
  ELSE CASE text[j + 1].ch = "u" /\ Hex(text, j + 2, ShortName) -> 2 + ShortName
         [] text[j + 1].ch = "U" /\ Hex(text, j + 2, LongName) -> 2 + LongName
         [] OTHER -> 0
Named(text) ==
  LET kept == SelectSeq([j \in 1..Len(text) |-> j],
                LAMBDA j : ~ \E i \in 1..(j - 1) : i + NameLength(text, i) > j)
  IN  [i \in 1..Len(kept) |-> [text[kept[i]] EXCEPT !.ch = IF NameLength(text, kept[i]) > 0 THEN "U+00E9" ELSE @]]

-----------------------------------------------------------------------------
(* Phase 3: the grammar of tokens, over a sequence of characters *)

All(s, D) == \A k \in 1..Len(s) : s[k] \in D

IsIdentifier(s) == s[1] \in Ident1 /\ All(s, Ident2)
IsNumber(s) ==
  /\ s[1] \in Digit \/ (Len(s) > 1 /\ s[1] = "." /\ s[2] \in Digit)
  /\ \A k \in 2..Len(s) : \/ s[k] \in Digit \cup Letter \cup {"."}
                          \/ s[k] \in {"+", "-"} /\ s[k - 1] \in {"e", "p"}

\* What one character of a literal may be written as.
IsEscape(s) ==
  /\ Len(s) > 1 /\ s[1] = "\\"
  /\ \/ Len(s) = 2 /\ s[2] \in {"\\", "'", "\"", "a", "b", "f", "n"}
     \/ Len(s) <= 4 /\ All(Tail(s), OctDigit)
     \/ Len(s) > 2 /\ s[2] = "x" /\ All(SubSeq(s, 3, Len(s)), HexDigit)
IsPart(s, quote) == IsEscape(s) \/ (Len(s) = 1 /\ s[1] \notin {quote, "\\", "\n"})

\* The characters of a literal: as few parts as possible, each the longest.
RECURSIVE Parts(_, _)
Parts(s, quote) ==
  LET ends == {k \in 1..Len(s) : IsPart(SubSeq(s, 1, k), quote)}
      last == CHOOSE k \in ends : \A j \in ends : j <= k
  IN  IF s = <<>> THEN {<<>>}
      ELSE IF ends = {} THEN {}
      ELSE {<<SubSeq(s, 1, last)>> \o rest : rest \in Parts(SubSeq(s, last + 1, Len(s)), quote)}

StringPrefixes == {<<>>, <<"u", "8">>, <<"u">>, <<"U">>, <<"L">>}
CharPrefixes == {<<>>, <<"u">>, <<"U">>, <<"L">>}
Body(s, prefix) == SubSeq(s, Len(prefix) + 2, Len(s) - 1)
Quoted(s, prefix, quote) ==
  Len(s) >= Len(prefix) + 2 /\ At(s, 1, Append(prefix, quote)) /\ s[Len(s)] = quote
IsString(s) == \E p \in StringPrefixes : Quoted(s, p, "\"") /\ Parts(Body(s, p), "\"") # {}
IsChar(s) == \E p \in CharPrefixes : Quoted(s, p, "'") /\ \E c \in Parts(Body(s, p), "'") : Len(c) = 1

IsPunctuator(s) == \/ s \in Long3 \cup Long2
                   \/ Len(s) = 1 /\ s[1] \in Punctuation \ {"'", "\""}

KindOf(s) == CASE IsIdentifier(s) -> "Ident" [] IsNumber(s) -> "PpNum" [] IsString(s) -> "Str"
               [] IsChar(s) -> "Num" [] IsPunctuator(s) -> "Punct" [] OTHER -> "none"

CommentEnds(text, p) ==
  CASE At(text, p, <<"/", "/">>) -> {q \in p..Len(text) : text[q] = "\n" /\ \A r \in p..(q - 1) : text[r] # "\n"}
    [] At(text, p, <<"/", "*">>) ->
         LET closing == {q \in (p + 4)..(Len(text) + 1) : At(text, q - 2, <<"*", "/">>)}
         IN  {q \in closing : \A r \in closing : q <= r}
    [] OTHER -> {p}

\* The tokens from p on: their spelling, the flags and the line. A text with a
\* quote or a comment that is not closed ends in a token of kind "none".
RECURSIVE Lex(_, _, _, _)
Lex(text, p, first, blank) ==
  LET chars == [k \in 1..Len(text) |-> text[k].ch]
      ends == {q \in p..Len(text) : KindOf(SubSeq(chars, p, q)) # "none"}
      last == CHOOSE q \in ends : \A r \in ends : r <= q
      word == SubSeq(chars, p, last)
      Tok(kind, s) == [kind |-> kind, spelling |-> s, at_bol |-> first, has_space |-> blank,
                       line_no |-> IF p > Len(text) THEN 0 ELSE text[p].line]
  IN  IF p > Len(text) THEN <<Tok("Eof", <<>>)>>
      ELSE IF chars[p] = "\n" THEN Lex(text, p + 1, TRUE, FALSE)
      ELSE IF chars[p] \in {" ", "\t", "\f"} THEN Lex(text, p + 1, first, TRUE)
      ELSE IF CommentEnds(chars, p) = {} THEN <<Tok("none", <<>>)>>
      ELSE IF CommentEnds(chars, p) # {p} THEN Lex(text, CHOOSE q \in CommentEnds(chars, p) : TRUE, first, TRUE)
      ELSE IF ends = {} THEN <<Tok("none", <<>>)>>
      ELSE <<Tok(KindOf(word), word)>> \o Lex(text, last + 1, FALSE, FALSE)

Lexed == Lex(<<>> \o Named(<<>> \o Logical(WithNewline(WithoutMark(source)))), 1, TRUE, FALSE)

-----------------------------------------------------------------------------
(* Constants and strings *)

IsInteger(s) ==
  \E k \in 1..Len(s) :
    /\ SubSeq(s, k + 1, Len(s)) \in
         {<<>>, <<"u">>, <<"U">>} \cup {u \o l : u \in {<<>>, <<"u">>, <<"U">>}, l \in {<<"l">>, <<"L">>, <<"l", "l">>, <<"L", "L">>}}
           \cup {l \o u : u \in {<<"u">>, <<"U">>}, l \in {<<"l">>, <<"L">>, <<"l", "l">>, <<"L", "L">>}}
    /\ LET n == SubSeq(s, 1, k)
       IN  \/ n[1] # "0" /\ All(n, Digit)
           \/ n[1] = "0" /\ All(n, OctDigit)
           \/ k > 2 /\ At(n, 1, <<"0", "x">>) /\ All(SubSeq(n, 3, k), HexDigit)
           \/ k > 2 /\ At(n, 1, <<"0", "b">>) /\ All(SubSeq(n, 3, k), {"0", "1"})

\* The types C tries in turn for a decimal constant, another one, and a suffix.
TypeList(s) ==
  LET u == \E k \in 1..Len(s) : s[k] \in {"u", "U"}
      l == \E k \in 1..Len(s) : s[k] \in {"l", "L"}
  IN  SelectSeq(<<"int", "uint", "long", "ulong">>,
        LAMBDA t : /\ u => t \in {"uint", "ulong"}
                   /\ l => t \in {"long", "ulong"}
                   /\ (t \in {"uint", "ulong"} /\ ~u) => s[1] = "0")
Limit(ty) == CASE ty = "int" -> 2^(IntBits - 1) [] ty = "uint" -> 2^IntBits
               [] ty = "long" -> 2^(LongBits - 1) [] ty = "ulong" -> 2^LongBits

Written(s) ==
  LET base == CASE At(s, 1, <<"0", "x">>) -> 16 [] At(s, 1, <<"0", "b">>) -> 2
                [] s[1] = "0" /\ ~At(s, 1, <<"0", "x">>) /\ ~At(s, 1, <<"0", "b">>) -> 8 [] OTHER -> 10
      digits == SelectSeq(IF base \in {2, 16} THEN SubSeq(s, 3, Len(s)) ELSE s, LAMBDA c : c \in HexDigit)
      Sum[k \in 0..Len(digits)] == IF k = 0 THEN 0 ELSE Sum[k - 1] * base + DigitValue(digits[k])
  IN  Sum[Len(digits)]

Holding(s) == SelectSeq(TypeList(s), LAMBDA t : Written(s) < Limit(t))

IsFloating(s) ==
  LET bare == IF s[Len(s)] \in {"f", "l", "L"} THEN SubSeq(s, 1, Len(s) - 1) ELSE s
      Digits(d, D) == d # <<>> /\ All(d, D)
      Fraction(d, D) == \E k \in 1..Len(d) : d[k] = "." /\ Digits(RemoveAt(d, k), D)
      Exponent(d) == Digits(d, Digit) \/ (d # <<>> /\ d[1] \in {"+", "-"} /\ Digits(Tail(d), Digit))
      Scaled(d, D, e) == \E k \in 1..Len(d) : /\ d[k] = e /\ Exponent(SubSeq(d, k + 1, Len(d)))
                                              /\ LET m == SubSeq(d, 1, k - 1) IN Digits(m, D) \/ Fraction(m, D)
  IN  \/ Fraction(bare, Digit) \/ Scaled(bare, Digit, "e")
      \/ At(s, 1, <<"0", "x">>) /\ Scaled(SubSeq(bare, 3, Len(bare)), HexDigit, "p")

\* The elements of a string literal, and the number of them in an encoding.
Encodes(prefix) == CASE prefix \in {<<>>, <<"u", "8">>} -> "char" [] prefix = <<"u">> -> "ushort"
                     [] prefix = <<"U">> -> "uint" [] prefix = <<"L">> -> "int"
PrefixOf(s) == CHOOSE p \in StringPrefixes : Quoted(s, p, "\"")
Encoded(s, ty) ==
  LET parts == CHOOSE c \in Parts(Body(s, PrefixOf(s)), "\"") : TRUE
      Of(part) == IF Len(part) > 1 THEN 1 ELSE Elements(part[1], SizeOf(ty))
  IN  FoldLeft(LAMBDA n, part : n + Of(part), 0, parts)

\* The tokens without the strings that go on the one before, and those.
Strings(c, k) == {j \in k..Len(c) : \A i \in k..j : c[i].kind = "Str"}
PrefixesFrom(c, k) == {PrefixOf(c[j].spelling) : j \in Strings(c, k)} \ {<<>>}
Heads(c) == SelectSeq([k \in 1..Len(c) |-> k],
           LAMBDA k : ~(k > 1 /\ c[k].kind = "Str" /\ c[k - 1].kind = "Str"))

\* The sources C gives a meaning, and this compiler claims to read.
Meaningful(c) ==
  /\ c[Len(c)].kind = "Eof"
  /\ \A k \in 1..Len(c) : LET s == c[k].spelling IN
       /\ c[k].kind = "PpNum" => (IF IsInteger(s) THEN Holding(s) # <<>> ELSE IsFloating(s))
       /\ c[k].kind = "Str" => Cardinality(PrefixesFrom(c, k)) <= 1

Read(c) == pc \in {"done", "refused"} /\ Meaningful(c)
Pairs(c) == {<<c[Heads(c)[k]], tokens[k]>> : k \in 1..Len(Heads(c))}

-----------------------------------------------------------------------------

\* Tokens follow each other within the text, none of them empty; the list has
\* one end, which is that of the file unless there was an error: its token is
\* where the error is, has no line, and is as long as the message
\* (make_error_token).
TypeOK ==
  /\ pc \in {"reading", "tokenizing", "converting", "joining", "done", "refused"}
  /\ pc # "reading" => pos \in 1..(Len(contents) + 1)
  /\ at_bol \in BOOLEAN /\ has_space \in BOOLEAN
  /\ \A k \in 1..Len(tokens) : LET t == tokens[k] IN
       /\ t.kind \in {"Str", "Num", "PpNum", "Ident", "Keyword", "Punct", "Eof"}
       /\ t.len \in Nat /\ t.loc \in 1..(Len(contents) + 1)
       /\ t.kind # "Eof" => t.len > 0 /\ t.loc + t.len <= Len(contents) + 1
       /\ k < Len(tokens) => t.kind # "Eof" /\ t.loc + t.len <= tokens[k + 1].loc
       /\ t.kind = "Eof" /\ t.line_no > 0 => t.loc = Len(contents) + 1 /\ t.len = 0

\* A source that is C is read, as the tokens C has for it: each the longest
\* that is one by the grammar, none lost in a comment, a literal or a continued
\* line (tokenize, read_punct, the passes of read_file).
SpelledAsC ==
  LET c == Lexed IN Read(c) =>
    /\ pc = "done" /\ Len(tokens) = Len(Heads(c))
    /\ \A p \in Pairs(c) :
         /\ p[2].kind = CASE p[1].kind = "PpNum" -> "Num"
                          [] p[1].kind = "Ident" /\ p[1].spelling \in Keywords -> "Keyword"
                          [] OTHER -> p[1].kind
         /\ Spelling(contents, p[2]) = p[1].spelling

\* A token knows whether it is the first of its line, which makes a # a
\* directive, whether white space is before it, which a stringized argument
\* keeps, and the line of the file its logical line starts on, however many
\* lines were continued and whatever ends them (add_line_numbers,
\* remove_backslash_newline).
PlacedAsC ==
  LET c == Lexed IN Read(c) => \A p \in Pairs(c) : p[1].kind # "Eof" => \A f \in {"at_bol", "has_space", "line_no"} : p[2][f] = p[1][f]

\* The file is read as C reads it, passes over its text included.
ReadAsC == SpelledAsC /\ PlacedAsC

\* An integer constant has its value, and the first type of C's list for its
\* base and suffix that holds it; a floating constant has the type of its
\* suffix (convert_pp_number).
ConstantsAsC ==
  LET c == Lexed IN Read(c) => \A p \in Pairs(c) : p[1].kind = "PpNum" => LET s == p[1].spelling IN
    IF IsInteger(s) THEN /\ p[2].ty = Head(Holding(s))
                         /\ p[2].val \in {Written(s), Written(s) - 2^LongBits}
                         /\ p[2].val >= 0 <=> Written(s) < 2^(LongBits - 1)
    ELSE p[2].ty = CASE s[Len(s)] = "f" -> "float" [] s[Len(s)] \in {"l", "L"} -> "ldouble" [] OTHER -> "double"

\* Adjacent string literals are one array, of the encoding of the one that has
\* a prefix, with an element for each of theirs in it and one NUL
\* (join_adjacent_string_literals).
StringsAsC ==
  LET c == Lexed IN Read(c) => \A k \in 1..Len(Heads(c)) : c[Heads(c)[k]].kind = "Str" =>
    LET prefixes == PrefixesFrom(c, Heads(c)[k])
        ty == Encodes(IF prefixes = {} THEN <<>> ELSE CHOOSE p \in prefixes : TRUE)
    IN  /\ tokens[k].ty = ty
        /\ tokens[k].array_len = 1 + FoldLeft(LAMBDA n, j : n + Encoded(c[j].spelling, ty), 0,
                                             [i \in 1..Cardinality(Strings(c, Heads(c)[k])) |-> Heads(c)[k] + i - 1])
=============================================================================
