----------------------------- MODULE Tokenizer -----------------------------
(***************************************************************************)
(* How a source file becomes tokens: read_file with its three passes over  *)
(* the text (newlines, continued lines, universal character names), the    *)
(* loop of tokenize with one action per kind of token or blank, the pass   *)
(* that gives tokens their lines, and what preprocess does to the tokens   *)
(* at its end: numbers are converted and adjacent strings joined.          *)
(*                                                                         *)
(* A character is a string; one or two stand for each class the code tells *)
(* apart. Of a string literal its element type and length are kept, of an  *)
(* integer constant its value and type, of a floating constant its type.   *)
(***************************************************************************)
EXTENDS Integers, SequencesExt

CONSTANTS
  Sources,    \* the files: sequences of characters
  Keywords,   \* spellings is_keyword_bytes knows
  ShortName,  \* hexadecimal digits of a \u name: 4 in C
  LongName,   \* and of a \U name: 8
  IntBits,    \* the width of int and unsigned int: 32
  LongBits    \* of long and unsigned long: 64

ASSUME SourcesAssumption == Sources \subseteq Seq(STRING)
ASSUME WidthsAssumption ==
  /\ ShortName \in Nat \ {0} /\ LongName \in Nat \ {0}
  /\ IntBits \in Nat \ {0} /\ LongBits \in Nat /\ IntBits < LongBits

VARIABLES
  source,     \* the file
  contents,   \* File.contents
  pos,        \* the next character of it, and the two flags of tokenize
  at_bol,
  has_space,
  tokens,     \* the list, Eof last
  pc          \* "reading", "tokenizing", "converting", "joining", "done" or "refused"

vars == <<source, contents, pos, at_bol, has_space, tokens, pc>>

-----------------------------------------------------------------------------
(* Characters *)

OctDigit == {"0", "1", "7"}
Digit == OctDigit \cup {"8"}
HexDigit == Digit \cup {"a", "b", "e", "f"}
Letter == {"a", "b", "e", "f", "n", "p", "x", "l", "u", "L", "U"}
Blank == {" ", "\t", "\f", "U+2028"}
Rare == {"U+00E9", "U+0301", "U+1F600", "U+2028", "U+FEFF"}
Punctuation == {"!", "\"", "#", "%", "&", "'", "(", "*", "+", "-", ".", "/", "<", "=", ">", "\\", "^", "|", "~"}
Character == Digit \cup Letter \cup {"_", "$"} \cup Blank \cup Rare \cup Punctuation \cup {"\n", "\r"}

Ident1 == Letter \cup {"_", "$", "U+00E9", "U+1F600", "U+FEFF"}
Ident2 == Ident1 \cup Digit \cup {"U+0301"}

\* How many char, 16-bit and 32-bit elements a character of a string takes.
Elements(c, size) ==
  IF size = 1 THEN CASE c \in {"U+00E9", "U+0301"} -> 2
                     [] c \in {"U+2028", "U+FEFF"} -> 3
                     [] c = "U+1F600" -> 4
                     [] OTHER -> 1
  ELSE IF size = 2 /\ c = "U+1F600" THEN 2 ELSE 1

At(text, p, word) ==
  /\ p + Len(word) - 1 <= Len(text)
  /\ \A k \in 1..Len(word) : text[p + k - 1] = word[k]

\* The first place from p on that is not of the class, or the end of the text.
Past(text, p, Class) ==
  CHOOSE q \in p..(Len(text) + 1) :
    /\ q > Len(text) \/ text[q] \notin Class
    /\ \A r \in p..(q - 1) : text[r] \in Class

Spelling(text, tok) == SubSeq(text, tok.loc, tok.loc + tok.len - 1)

-----------------------------------------------------------------------------
(* The passes of read_file *)

WithoutMark(text) == IF text # <<>> /\ text[1] = "U+FEFF" THEN Tail(text) ELSE text
WithNewline(text) == IF text # <<>> /\ text[Len(text)] # "\n" THEN Append(text, "\n") ELSE text

Places(text) == [k \in 1..Len(text) |-> k]

canonicalize_newline(text) ==
  LET kept == SelectSeq(Places(text), LAMBDA k : ~(k > 1 /\ text[k] = "\n" /\ text[k - 1] = "\r"))
  IN  [k \in 1..Len(kept) |-> IF text[kept[k]] = "\r" THEN "\n" ELSE text[kept[k]]]

\* The newlines taken out are put back behind the next one that stays.
remove_backslash_newline(text) ==
  LET Starts(k) == At(text, k, <<"\\", "\n">>)
      Newlines(n) == [k \in 1..n |-> "\n"]
      Step(b, k) ==
        IF Starts(k) THEN [b EXCEPT !.n = @ + 1]
        ELSE IF k > 1 /\ Starts(k - 1) THEN b
        ELSE IF text[k] = "\n" THEN [out |-> b.out \o Newlines(b.n + 1), n |-> 0]
        ELSE [b EXCEPT !.out = Append(@, text[k])]
      end == FoldLeft(Step, [out |-> <<>>, n |-> 0], Places(text))
  IN  end.out \o Newlines(end.n)

\* A name of any value but 0 stands for a letter beyond ASCII here; that of
\* another character becomes that character, or ends the compiler in a panic if
\* there is none.
convert_universal_chars(text) ==
  LET Size(k) == CASE At(text, k, <<"\\", "u">>) -> ShortName
                   [] At(text, k, <<"\\", "U">>) -> LongName
                   [] OTHER -> 0
      digits(k) == SubSeq(text, k + 2, k + 1 + Size(k))
      Named(k) == /\ Size(k) > 0 /\ k + 1 + Size(k) <= Len(text)
                  /\ \A d \in 1..Size(k) : digits(k)[d] \in HexDigit
                  /\ \E d \in 1..Size(k) : digits(k)[d] # "0"
      Step(b, k) ==
        IF k < b.next THEN b
        ELSE IF Named(k) THEN [out |-> Append(b.out, "U+00E9"), next |-> k + 2 + Size(k)]
        ELSE IF Size(k) > 0 \/ text[k] # "\\" \/ k = Len(text)
             THEN [out |-> Append(b.out, text[k]), next |-> k + 1]
        ELSE [out |-> b.out \o <<text[k], text[k + 1]>>, next |-> k + 2]
  IN  FoldLeft(Step, [out |-> <<>>, next |-> 1], Places(text)).out

-----------------------------------------------------------------------------
(* Numbers *)

Ints == {"int", "uint", "long", "ulong"}

\* The prefix of an integer constant, if a digit of its base follows it.
Base(s) ==
  LET Prefixed(c, D) == Len(s) > 2 /\ s[1] = "0" /\ s[2] = c /\ s[3] \in D
  IN  IF Prefixed("x", HexDigit) THEN 16 ELSE IF Prefixed("b", {"0", "1"}) THEN 2 ELSE IF s[1] = "0" THEN 8 ELSE 10

DigitsOf(base) == CASE base = 2 -> {"0", "1"} [] base = 8 -> OctDigit [] base = 10 -> Digit [] base = 16 -> HexDigit
DigitValue(c) == CASE c = "0" -> 0 [] c = "1" -> 1 [] c = "7" -> 7 [] c = "8" -> 8
                   [] c = "a" -> 10 [] c = "b" -> 11 [] c = "e" -> 14 [] c = "f" -> 15
Value(digits, base) == FoldLeft(LAMBDA v, c : v * base + DigitValue(c), 0, digits)

\* IntSuffixes are compared in capitals.
Capitals(s) == [k \in 1..Len(s) |-> CASE s[k] = "u" -> "U" [] s[k] = "l" -> "L" [] OTHER -> s[k]]
LongSuffixes == {<<"L">>, <<"L", "L">>}
BothSuffixes == {<<"U", "L">>, <<"L", "U">>, <<"U", "L", "L">>, <<"L", "L", "U">>}
IntSuffixes == {<<>>, <<"U">>} \cup LongSuffixes \cup BothSuffixes

\* Seeded fault: every constant tries the unsigned types.
IntTypeUnsigned(val, base, u, l) ==
  CASE l -> IF u \/ val \div 2^(LongBits - 1) # 0 THEN "ulong" ELSE "long"
    [] ~l -> CASE val \div 2^(LongBits - 1) # 0 -> "ulong"
               [] val \div 2^(LongBits - 1) = 0 /\ val \div 2^IntBits # 0 -> IF u THEN "ulong" ELSE "long"
               [] val \div 2^IntBits = 0 /\ val \div 2^(IntBits - 1) # 0 -> "uint"
               [] OTHER -> IF u THEN "uint" ELSE "int"

IntType(val, base, u, l) ==
  IF base = 10 THEN CASE l /\ u -> "ulong"
                      [] l /\ ~u -> "long"
                      [] u /\ ~l -> IF val \div 2^IntBits # 0 THEN "ulong" ELSE "uint"
                      [] ~u /\ ~l -> IF val \div 2^(IntBits - 1) # 0 THEN "long" ELSE "int"
  ELSE CASE l /\ u -> "ulong"
         [] l /\ ~u -> IF val \div 2^(LongBits - 1) # 0 THEN "ulong" ELSE "long"
         [] u /\ ~l -> IF val \div 2^IntBits # 0 THEN "ulong" ELSE "uint"
         [] ~u /\ ~l -> CASE val \div 2^(LongBits - 1) # 0 -> "ulong"
                          [] val \div 2^(LongBits - 1) = 0 /\ val \div 2^IntBits # 0 -> "long"
                          [] val \div 2^IntBits = 0 /\ val \div 2^(IntBits - 1) # 0 -> "uint"
                          [] OTHER -> "int"

AsI64(val) == IF val >= 2^(LongBits - 1) THEN val - 2^LongBits ELSE val

\* What try_parse_int_literal returns, as a set of at most one value and type.
try_parse_int_literal(s) ==
  LET base == Base(s)
      first == IF base \in {2, 16} THEN 3 ELSE 1
      end == Past(s, first, DigitsOf(base))
      val == Value(SubSeq(s, first, end - 1), base)
      suffix == Capitals(SubSeq(s, end, Len(s)))
      l == suffix \in LongSuffixes \cup BothSuffixes
      u == suffix \in {<<"U">>} \cup BothSuffixes
  IN  IF end = first \/ val >= 2^LongBits \/ suffix \notin IntSuffixes THEN {}
      ELSE {[val |-> AsI64(val), ty |-> IntType(val, base, u, l)]}

\* The number str::parse and parse_hex_float take; the second stops at what it
\* does not know and asks only that an exponent be a number.
ParsesAsFloat(s) ==
  LET Number(d) == d # <<>> /\ \A k \in 1..Len(d) : d[k] \in Digit
      Signed(d) == Number(d) \/ (d # <<>> /\ d[1] \in {"+", "-"} /\ Number(Tail(d)))
      Fraction(d) == Number(d) \/ \E k \in 1..Len(d) : (d[k] = "." /\ Number(RemoveAt(d, k)))
      stop == Past(s, 3, HexDigit \cup {"."})
  IN  IF At(s, 1, <<"0", "x">>)
      THEN stop <= Len(s) /\ s[stop] = "p"
             => Signed(SubSeq(s, stop + 1, Past(s, stop + 1, Digit \cup {"+", "-"}) - 1))
      ELSE Fraction(s) \/ \E k \in 2..Len(s) : /\ s[k] = "e" /\ Fraction(SubSeq(s, 1, k - 1))
                                               /\ Signed(SubSeq(s, k + 1, Len(s)))

FloatType(s) == LET c == s[Len(s)] IN
  IF Len(s) > 1 /\ c = "f" THEN "float" ELSE IF Len(s) > 1 /\ c \in {"l", "L"} THEN "ldouble" ELSE "double"

\* The value and type convert_pp_number gives a number, none where it fails.
convert_pp_number(s) ==
  LET number == IF FloatType(s) = "double" THEN s ELSE SubSeq(s, 1, Len(s) - 1)
  IN  IF try_parse_int_literal(s) # {} THEN try_parse_int_literal(s)
      ELSE IF ParsesAsFloat(number) THEN {[val |-> 0, ty |-> FloatType(s)]} ELSE {}

-----------------------------------------------------------------------------
(* Literals *)

SizeOf(elem) == CASE elem = "char" -> 1 [] elem = "ushort" -> 2 [] OTHER -> 4

\* The encoding a literal's prefix names, none if no literal starts here. Of a
\* character constant, u8 is no prefix.
StringKind(text, p) ==
  CASE At(text, p, <<"\"">>) -> "plain"
    [] At(text, p, <<"u", "8", "\"">>) -> "utf8"
    [] At(text, p, <<"u", "\"">>) -> "utf16"
    [] At(text, p, <<"U", "\"">>) -> "utf32"
    [] At(text, p, <<"L", "\"">>) -> "wide"
    [] OTHER -> "none"
CharKind(text, p) ==
  CASE At(text, p, <<"'">>) -> "plain"
    [] At(text, p, <<"u", "'">>) -> "utf16"
    [] At(text, p, <<"U", "'">>) -> "utf32"
    [] At(text, p, <<"L", "'">>) -> "wide"
    [] OTHER -> "none"

PrefixLength(kind) == CASE kind = "plain" -> 0 [] kind = "utf8" -> 2 [] OTHER -> 1
ElementType(kind) == CASE kind \in {"plain", "utf8"} -> "char" [] kind = "utf16" -> "ushort"
                       [] kind = "utf32" -> "uint" [] kind = "wide" -> "int"
CharType(kind) == IF kind = "plain" THEN "int" ELSE ElementType(kind)

\* How far an escape sequence reaches behind its backslash; 0 if there is none.
EscapeLength(text, p) ==
  LET octal == Past(text, p, OctDigit)
      hex == Past(text, p + 1, HexDigit)
  IN  IF p > Len(text) THEN 0
      ELSE IF text[p] \in OctDigit THEN IF octal > p + 3 THEN 3 ELSE octal - p
      ELSE IF text[p] = "x" THEN IF hex = p + 1 THEN 0 ELSE hex - p
      ELSE 1

\* The characters of a literal up to its closing quote or to what is wrong with
\* it, and the number of elements; an escape sequence is one element.
StringScan(text, first, size) ==
  LET Step(b, k) ==
        IF k < b.next \/ b.state # "open" THEN b
        ELSE IF text[k] = "\"" THEN [b EXCEPT !.state = "closed"]
        ELSE IF text[k] = "\n" THEN [b EXCEPT !.state = "broken"]
        ELSE IF text[k] # "\\" THEN [b EXCEPT !.next = k + 1, !.n = @ + Elements(text[k], size)]
        ELSE IF EscapeLength(text, k + 1) = 0 THEN [b EXCEPT !.next = k + 1, !.state = "escape"]
        ELSE [b EXCEPT !.next = k + 1 + EscapeLength(text, k + 1), !.n = @ + 1]
  IN  FoldLeft(Step, [next |-> first, n |-> 0, state |-> "open"], Places(text))

\* The place of the closing quote and the number of elements, if it is closed.
StringBody(text, first, size) ==
  LET body == StringScan(text, first, size)
  IN  IF body.state = "closed" THEN {[end |-> body.next, n |-> body.n]} ELSE {}

\* The place of the closing quote of a character constant: one character.
CharBody(text, first) ==
  LET escaped == At(text, first, <<"\\">>)
      long == IF escaped THEN 1 + EscapeLength(text, first + 1) ELSE 1
  IN  IF first <= Len(text) /\ (escaped => long > 1) /\ At(text, first + long, <<"'">>) THEN {first + long} ELSE {}

-----------------------------------------------------------------------------
(* The loop of tokenize *)

LineCommentAt(p) == At(contents, p, <<"/", "/">>)
BlockCommentAt(p) == At(contents, p, <<"/", "*">>)
LiteralAt(p) == StringKind(contents, p) # "none" \/ CharKind(contents, p) # "none"
StringAt(p) ==
  LET kind == StringKind(contents, p)
  IN  IF kind = "none" THEN {} ELSE StringBody(contents, p + PrefixLength(kind) + 1, SizeOf(ElementType(kind)))
CharAt(p) ==
  LET kind == CharKind(contents, p)
  IN  IF kind = "none" THEN {} ELSE CharBody(contents, p + PrefixLength(kind) + 1)
NumberAt(p) ==
  contents[p] \in Digit \/ (contents[p] = "." /\ p < Len(contents) /\ contents[p + 1] \in Digit)

\* Seeded fault: the closing characters are skipped even if there are none.
BlockCommentEndPast(p) ==
  LET closing == {q \in (p + 2)..Len(contents) : At(contents, q, <<"*", "/">>)}
  IN  IF closing # {} THEN (CHOOSE q \in closing : \A r \in closing : q <= r) + 2 ELSE Len(contents) + 2

\* Behind the comment that opens at p; one that is not closed leaves the last
\* character of the file, its newline.
BlockCommentEnd(p) ==
  LET closing == {q \in (p + 2)..Len(contents) : At(contents, q, <<"*", "/">>)}
  IN  IF closing # {} THEN (CHOOSE q \in closing : \A r \in closing : q <= r) + 2
      ELSE IF p + 2 > Len(contents) THEN p + 2 ELSE Len(contents)

\* Seeded fault: a sign belongs to a number wherever it stands behind a letter.
NumberEndAnySign(p) ==
  LET Part(q) == \/ contents[q] \in Digit \cup Letter \cup {"."}
                 \/ contents[q] \in {"+", "-"} /\ contents[q - 1] \in Letter
  IN  CHOOSE q \in (p + 1)..(Len(contents) + 1) :
        (q > Len(contents) \/ ~Part(q)) /\ \A r \in (p + 1)..(q - 1) : Part(r)

\* A sign belongs to a number behind the e or p of an exponent.
NumberEnd(p) ==
  LET Sign(q) == q > p + 1 /\ contents[q] \in {"+", "-"} /\ contents[q - 1] \in {"e", "p"}
      Part(q) == contents[q] \in Digit \cup Letter \cup {"."} \/ Sign(q)
  IN  CHOOSE q \in (p + 1)..(Len(contents) + 1) :
        (q > Len(contents) \/ ~Part(q)) /\ \A r \in (p + 1)..(q - 1) : Part(r)

Long3 == {<<"<", "<", "=">>, <<">", ">", "=">>, <<".", ".", ".">>}
Long2 == {<<"=", "=">>, <<"!", "=">>, <<"<", "=">>, <<">", "=">>, <<"-", ">">>, <<"+", "=">>, <<"-", "=">>,
          <<"*", "=">>, <<"/", "=">>, <<"%", "=">>, <<"&", "=">>, <<"|", "=">>, <<"^", "=">>, <<"+", "+">>,
          <<"-", "-">>, <<"&", "&">>, <<"|", "|">>, <<"<", "<">>, <<">", ">">>, <<"#", "#">>}

read_punct(p) == IF \E w \in Long3 : At(contents, p, w) THEN 3
                 ELSE IF \E w \in Long2 : At(contents, p, w) THEN 2 ELSE 1

new_token(kind, start, end) ==
  [kind |-> kind, loc |-> start, len |-> end - start, at_bol |-> at_bol, has_space |-> has_space,
   line_no |-> 0, ty |-> "none", val |-> 0, array_len |-> 0]

Reading == pc = "tokenizing" /\ pos <= Len(contents)

Emit(tok) ==
  /\ tokens' = Append(tokens, tok)
  /\ pos' = tok.loc + tok.len
  /\ at_bol' = FALSE /\ has_space' = FALSE
  /\ UNCHANGED <<source, contents, pc>>

\* The list ends with a token of kind Eof at the error, as long as the message,
\* and its tokens get no lines.
MessageLength == [token |-> 13, escape |-> 27, string |-> 23, char |-> 21]
Fail(error) ==
  /\ tokens' = Append(tokens, [new_token("Eof", error.loc, error.loc + MessageLength[error.message])
                                EXCEPT !.at_bol = FALSE, !.has_space = FALSE])
  /\ pc' = "converting"
  /\ UNCHANGED <<source, contents, pos, at_bol, has_space>>

Skip(to) ==
  /\ pos' = to /\ has_space' = TRUE
  /\ UNCHANGED <<source, contents, at_bol, tokens, pc>>

ReadFile ==
  /\ pc = "reading"
  /\ contents' = convert_universal_chars(remove_backslash_newline(canonicalize_newline(
                   WithNewline(WithoutMark(source)))))
  /\ pc' = "tokenizing"
  /\ UNCHANGED <<source, pos, at_bol, has_space, tokens>>

Newline ==
  /\ Reading /\ contents[pos] = "\n"
  /\ pos' = pos + 1 /\ at_bol' = TRUE /\ has_space' = FALSE
  /\ UNCHANGED <<source, contents, tokens, pc>>

WhiteSpace == Reading /\ contents[pos] \in Blank /\ Skip(pos + 1)

LineComment == Reading /\ LineCommentAt(pos) /\ Skip(Past(contents, pos, Character \ {"\n"}))

BlockComment == Reading /\ BlockCommentAt(pos) /\ Skip(BlockCommentEnd(pos))

StringLiteral ==
  /\ Reading
  /\ \E body \in StringAt(pos) : LET ty == ElementType(StringKind(contents, pos)) IN
       Emit([new_token("Str", pos, body.end + 1) EXCEPT !.ty = ty, !.array_len = body.n + 1])

CharLiteral ==
  /\ Reading
  /\ \E end \in CharAt(pos) :
       Emit([new_token("Num", pos, end + 1) EXCEPT !.ty = CharType(CharKind(contents, pos))])

\* What is wrong with the literal that starts at p.
StringError(p) ==
  LET kind == StringKind(contents, p)
      body == StringScan(contents, p + PrefixLength(kind) + 1, SizeOf(ElementType(kind)))
  IN  IF body.state = "escape" /\ body.next <= Len(contents) THEN [loc |-> body.next, message |-> "escape"]
      ELSE [loc |-> p, message |-> "string"]
CharError(p) ==
  LET first == p + PrefixLength(CharKind(contents, p)) + 1
      escaped == At(contents, first, <<"\\">>)
      read == IF escaped THEN EscapeLength(contents, first + 1) ELSE 1
      code == IF escaped THEN first + 1 ELSE first
  IN  IF code > Len(contents) THEN [loc |-> p, message |-> "char"]
      ELSE IF read = 0 THEN [loc |-> code, message |-> "escape"]
      ELSE [loc |-> code + read, message |-> "char"]

Unclosed ==
  /\ Reading /\ LiteralAt(pos) /\ StringAt(pos) = {} /\ CharAt(pos) = {}
  /\ Fail(IF StringKind(contents, pos) # "none" THEN StringError(pos) ELSE CharError(pos))

Number == Reading /\ NumberAt(pos) /\ Emit(new_token("PpNum", pos, NumberEnd(pos)))

Identifier ==
  /\ Reading /\ contents[pos] \in Ident1 /\ ~LiteralAt(pos)
  /\ Emit(new_token("Ident", pos, Past(contents, pos, Ident2)))

Punctuator ==
  /\ Reading /\ contents[pos] \in Punctuation
  /\ ~LineCommentAt(pos) /\ ~BlockCommentAt(pos) /\ ~LiteralAt(pos) /\ ~NumberAt(pos)
  /\ Emit(new_token("Punct", pos, pos + read_punct(pos)))

Invalid == Reading /\ contents[pos] \in Rare \ (Ident1 \cup Blank) /\ Fail([loc |-> pos, message |-> "token"])

add_line_numbers(toks) ==
  [k \in 1..Len(toks) |-> [toks[k] EXCEPT !.line_no = 1 + Len(SelectSeq(SubSeq(contents, 1, toks[k].loc - 1), LAMBDA c : c = "\n"))]]

EndOfFile ==
  /\ pc = "tokenizing" /\ pos > Len(contents)
  /\ tokens' = add_line_numbers(Append(tokens, new_token("Eof", pos, pos)))
  /\ pc' = "converting"
  /\ UNCHANGED <<source, contents, pos, at_bol, has_space>>

-----------------------------------------------------------------------------
(* The end of preprocess *)

Converted(tok) ==
  CASE tok.kind = "PpNum" -> {[tok EXCEPT !.kind = "Num", !.val = n.val, !.ty = n.ty] :
                                n \in convert_pp_number(Spelling(contents, tok))}
    [] tok.kind = "Ident" /\ Spelling(contents, tok) \in Keywords -> {[tok EXCEPT !.kind = "Keyword"]}
    [] OTHER -> {tok}

convert_pp_tokens ==
  /\ pc = "converting"
  /\ IF \E k \in 1..Len(tokens) : Converted(tokens[k]) = {}
     THEN pc' = "refused" /\ UNCHANGED tokens
     ELSE /\ tokens' = [k \in 1..Len(tokens) |-> CHOOSE t \in Converted(tokens[k]) : TRUE]
          /\ pc' = "joining"
  /\ UNCHANGED <<source, contents, pos, at_bol, has_space>>

\* Runs of string literals: the places they start, and the last of each.
IsStr(k) == tokens[k].kind = "Str"
RunStarts == SelectSeq(Places(tokens), LAMBDA k : ~(k > 1 /\ IsStr(k) /\ IsStr(k - 1)))
RunEnd(k) == IF IsStr(k) THEN CHOOSE j \in k..Len(tokens) : (\A i \in k..j : IsStr(i)) /\ ~IsStr(j + 1) ELSE k
Run(k) == SubSeq(tokens, k, RunEnd(k))

\* The encoding of a run is the first prefix in it; another prefix is refused.
Kinds(run) == [k \in 1..Len(run) |-> StringKind(contents, run[k].loc)]
RunKind(run) ==
  LET Prefixed(k) == k # "plain"
      prefixed == SelectSeq(Kinds(run), Prefixed)
  IN  IF prefixed = <<>> THEN "plain" ELSE Head(prefixed)
Refused(run) == \E k \in 1..Len(run) : Kinds(run)[k] \notin {"plain", RunKind(run)}

\* The narrow literals of a run with a prefix are read again as it says.
Widened(tok, kind) ==
  LET ty == ElementType(kind)
  IN  IF SizeOf(ty) = 1 \/ SizeOf(tok.ty) > 1 THEN tok
      ELSE [tok EXCEPT !.ty = ty,
              !.array_len = 1 + (CHOOSE b \in StringBody(contents, tok.loc + PrefixLength(StringKind(contents, tok.loc)) + 1,
                                                         SizeOf(ty)) : TRUE).n]

\* Seeded fault: a joined string keeps the NUL of each of its parts.
MergedWithNuls(run) ==
  LET wide == [k \in 1..Len(run) |-> Widened(run[k], RunKind(run))]
  IN  IF Len(run) = 1 THEN run[1]
      ELSE [wide[1] EXCEPT !.array_len = FoldLeft(LAMBDA n, t : n + t.array_len, @, Tail(wide))]

Merged(run) ==
  LET wide == [k \in 1..Len(run) |-> Widened(run[k], RunKind(run))]
  IN  IF Len(run) = 1 THEN run[1]
      ELSE [wide[1] EXCEPT !.array_len = FoldLeft(LAMBDA n, t : n + t.array_len - 1, @, Tail(wide))]

join_adjacent_string_literals ==
  /\ pc = "joining"
  /\ IF \E k \in 1..Len(RunStarts) : LET r == Run(RunStarts[k]) IN Len(r) > 1 /\ Refused(r)
     THEN pc' = "refused" /\ UNCHANGED tokens
     ELSE /\ tokens' = [k \in 1..Len(RunStarts) |-> Merged(Run(RunStarts[k]))]
          /\ pc' = "done"
  /\ UNCHANGED <<source, contents, pos, at_bol, has_space>>

-----------------------------------------------------------------------------

Init ==
  /\ source \in Sources /\ contents = <<>> /\ pos = 1
  /\ at_bol = TRUE /\ has_space = FALSE
  /\ tokens = <<>> /\ pc = "reading"

Next ==
  \/ ReadFile \/ Newline \/ WhiteSpace \/ LineComment \/ BlockComment
  \/ StringLiteral \/ CharLiteral \/ Unclosed \/ Number \/ Identifier \/ Punctuator \/ Invalid
  \/ EndOfFile \/ convert_pp_tokens \/ join_adjacent_string_literals

Spec == Init /\ [][Next]_vars

=============================================================================
