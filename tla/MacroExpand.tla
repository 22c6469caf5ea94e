---------------------------- MODULE MacroExpand ----------------------------
(***************************************************************************)
(* Macro expansion in src/src/preprocess.rs: the part of preprocess2 that  *)
(* passes over tokens, expand_macro with its hidesets, and subst.          *)
(*                                                                         *)
(* preprocess2 calls subst and subst calls preprocess2 for the arguments,  *)
(* so the state is a stack of activations of preprocess2, innermost first: *)
(*   todo  the tokens it has not passed, out those it has;                 *)
(*   call  the subst it is waiting for, NoCall if none;                    *)
(*   open  history only: <<name, k>> while the replacement of name is      *)
(*         being read, which is until k tokens are left.                   *)
(* A token is its spelling and its hideset, a macro body a sequence of     *)
(* spellings.  An error in a macro call is dropped by expand_macro and     *)
(* leaves the name as it stands.                                           *)
(***************************************************************************)
EXTENDS Sequences, Integers, FiniteSets, FiniteSetsExt, SequencesExt

CONSTANTS
  Inputs,        \* pairs of a macro table and a program
  Spliced(_, _), \* the token two spellings paste to, "" if they make none
  Quoted(_)      \* the string literal of a sequence of spellings

IsSeq(s) == s \in Seq(Range(s))

ASSUME InputsAssumption ==
  \A input \in Inputs :
    /\ IsSeq(input[2])
    /\ \A name \in DOMAIN input[1] :
         IsSeq(input[1][name].body) /\ IsSeq(input[1][name].params)

VARIABLES macros, frames, panicked

vars == <<macros, frames, panicked>>

Fresh(word) == [w |-> word, hs |-> {}]
Words(toks) == [n \in DOMAIN toks |-> toks[n].w]
Freshly(words) == [n \in DOMAIN words |-> Fresh(words[n])]
add_hideset(toks, hs) == [n \in DOMAIN toks |-> [w |-> toks[n].w, hs |-> toks[n].hs \cup hs]]

NoCall == <<>>
Frame(toks, open) == [todo |-> toks, out |-> <<>>, open |-> open, call |-> NoCall]

Init ==
  /\ \E input \in Inputs : macros = input[1] /\ frames = <<Frame(Freshly(input[2]), {})>>
  /\ panicked = FALSE

(***************************************************************************)
(* Arguments.                                                              *)
(***************************************************************************)
\* How many parentheses are open before the n-th word.
Level(words, n) ==
  LET count(p) == Cardinality({j \in 1..(n - 1) : words[j] = p}) IN count("(") - count(")")

Closings(words) == {n \in DOMAIN words : words[n] = ")" /\ Level(words, n) = 0}
Closing(words)  == Min(Closings(words))
Commas(words) ==
  {n \in 1..Closing(words) : words[n] = "," /\ Level(words, n) = 0}

\* read_macro_args succeeds on the words after "(".
Readable(m, words) ==
  /\ Closings(words) # {}
  /\ LET given == Cardinality(Commas(words)) + 1
         asked == Len(m.params)
     IN  CASE m.va # "" -> asked = 0 \/ given >= asked
           [] m.va = "" /\ asked = 0 -> Closing(words) = 1
           [] OTHER -> given = asked

\* Where the j-th argument begins: behind j - 1 commas, else past the end.
ArgStart(words, j) ==
  LET commas(n) == Cardinality({c \in Commas(words) : c < n})
  IN  Min({n \in 1..Closing(words) : commas(n) >= j - 1} \cup {Closing(words) + 1})

\* What it returns: the tokens of each parameter.
read_macro_args(m, toks) ==
  LET words == Words(toks)
      last  == Len(m.params) + 1
      end(j) == IF j = last THEN Closing(words) - 1 ELSE ArgStart(words, j + 1) - 2
      name  == Append(m.params, m.va)
      given == {j \in 1..last : name[j] # ""}
  IN  [p \in {name[j] : j \in given} |->
         LET j == CHOOSE j \in given : name[j] = p
         IN  SubSeq(toks, ArgStart(words, j), end(j))]

(***************************************************************************)
(* preprocess2 and expand_macro.                                           *)
(***************************************************************************)
Top    == frames[1]
Scanning == ~panicked /\ Top.call = NoCall /\ Top.todo # <<>>
Tok    == Head(Top.todo)
After  == Tail(Top.todo)
MacroOf == macros[Tok.w]

Expandable ==
  /\ Tok.w \in DOMAIN macros /\ Tok.w \notin Tok.hs
  /\ ~MacroOf.objlike =>
       After # <<>> /\ Head(After).w = "(" /\ Readable(MacroOf, Words(Tail(After)))

Pass(f) == [f EXCEPT !.todo = Tail(@), !.out = Append(@, Head(f.todo)), !.call = NoCall]

\* A token that expand_macro leaves alone.
Emit ==
  /\ Scanning /\ ~Expandable
  /\ frames' = [frames EXCEPT ![1] = Pass(@)]
  /\ UNCHANGED <<macros, panicked>>

\* The replacements that the last token before rest lies in.
OpenBefore(f, rest) == {o \in f.open : o[2] <= Len(rest)}

\* The replacement of name stands before the tokens of rest.
Rescan(f, name, toks, rest) ==
  [f EXCEPT !.todo = toks \o rest, !.call = NoCall,
            !.open = OpenBefore(f, rest) \cup {<<name, Len(rest)>>}]

ExpandObjlike ==
  /\ Scanning /\ Expandable /\ MacroOf.objlike
  /\ frames' = [frames EXCEPT ![1] =
       Rescan(@, Tok.w, add_hideset(Freshly(MacroOf.body), Tok.hs \cup {Tok.w}), After)]
  /\ UNCHANGED <<macros, panicked>>

Rparen == Tail(After)[Closing(Words(Tail(After)))]

Call(hs) ==
  LET toks == Tail(After)
      end  == Closing(Words(toks))
      args == read_macro_args(MacroOf, toks)
  IN  [name |-> Tok.w, args |-> args, hs |-> hs,
       after |-> SubSeq(toks, end + 1, Len(toks)),
       rest |-> MacroOf.body, built |-> <<>>,
       full |-> [p \in DOMAIN args |-> <<"?">>]]  \* history: args as expanded

\* Seeded fault: the macro itself is not hidden in its replacement.
BeginCallUnhidden ==
  /\ Scanning /\ Expandable /\ ~MacroOf.objlike
  /\ frames' = [frames EXCEPT ![1].call = Call(Tok.hs \cap Rparen.hs)]
  /\ UNCHANGED <<macros, panicked>>

\* The arguments are read; subst starts on the body.
BeginCall ==
  /\ Scanning /\ Expandable /\ ~MacroOf.objlike
  /\ frames' = [frames EXCEPT ![1].call = Call((Tok.hs \cap Rparen.hs) \cup {Tok.w})]
  /\ UNCHANGED <<macros, panicked>>

(***************************************************************************)
(* subst, one action per branch of its loop.                               *)
(***************************************************************************)
Va(c) == macros[c.name].va
HasVarargs(c) == Va(c) # "" /\ c.args[Va(c)] # <<>>
IsParam(c, n) == Len(c.rest) >= n /\ c.rest[n] \in DOMAIN c.args
IsWord(c, n, word) == Len(c.rest) >= n /\ c.rest[n] = word

AtVaComma(c) ==
  Va(c) # "" /\ IsWord(c, 1, ",") /\ IsWord(c, 2, "##") /\ IsWord(c, 3, Va(c))
AtVaOpt(c)   == IsWord(c, 1, "__VA_OPT__") /\ IsWord(c, 2, "(")
AtOperand(c) == IsParam(c, 1) /\ IsWord(c, 2, "##")
AtParam(c)   == IsParam(c, 1) /\ ~AtOperand(c)
VaOptText(c) == SubSeq(c.rest, 3, Len(c.rest))

\* The word after ## when it names no parameter, else the argument's tokens.
Operand(c, n) == IF IsParam(c, n) THEN c.args[c.rest[n]] ELSE <<Fresh(c.rest[n])>>

Pasting(c) == Spliced(Last(c.built).w, Head(Operand(c, 2)).w)

\* The branches that return an error, and the one that unwraps a None.
Fails(c) ==
  \/ IsWord(c, 1, "#") /\ ~IsParam(c, 2)
  \/ IsWord(c, 1, "##") /\ (c.built = <<>> \/ Len(c.rest) = 1)
  \/ IsWord(c, 1, "##") /\ c.built # <<>> /\ Len(c.rest) > 1
       /\ Operand(c, 2) # <<>> /\ Pasting(c) = ""
  \/ AtVaOpt(c) /\ Closings(VaOptText(c)) = {}
Panics(c) == AtOperand(c) /\ Len(c.rest) = 2 /\ c.args[c.rest[1]] = <<>>

Substituting == ~panicked /\ Top.call # NoCall /\ ~Fails(Top.call) /\ ~Panics(Top.call)

\* Past n words of the body, with built as given.
Turn(n, built) ==
  /\ frames' = [frames EXCEPT ![1].call =
       [Top.call EXCEPT !.rest = SubSeq(@, n + 1, Len(@)), !.built = built]]
  /\ UNCHANGED <<macros, panicked>>
Add(n, toks) == Turn(n, Top.call.built \o toks)

Stringize ==
  LET c == Top.call IN
  /\ Substituting /\ IsWord(c, 1, "#")
  /\ Add(2, <<Fresh(Quoted(Words(c.args[c.rest[2]])))>>)

\* [GNU] ,## before the variadic parameter.
VaComma ==
  LET c == Top.call IN
  /\ Substituting /\ AtVaComma(c)
  /\ IF HasVarargs(c) THEN Add(2, <<Fresh(",")>>) ELSE Add(3, <<>>)

\* Seeded fault: only the first token of the right argument is kept.
PasteFirst ==
  LET c == Top.call IN
  /\ Substituting /\ IsWord(c, 1, "##")
  /\ IF Operand(c, 2) = <<>> THEN Add(2, <<>>)
     ELSE Turn(2, Append(Front(c.built), Fresh(Pasting(c))))

Paste ==
  LET c == Top.call IN
  /\ Substituting /\ IsWord(c, 1, "##")
  /\ IF Operand(c, 2) = <<>> THEN Add(2, <<>>)
     ELSE Turn(2, Front(c.built) \o <<Fresh(Pasting(c))>> \o Tail(Operand(c, 2)))

\* The text of __VA_OPT__ is copied as it stands.
VaOpt ==
  LET c    == Top.call
      text == VaOptText(c)
      end  == Closing(text)
  IN
  /\ Substituting /\ AtVaOpt(c)
  /\ Add(end + 2, IF HasVarargs(c) THEN Freshly(SubSeq(text, 1, end - 1)) ELSE <<>>)

\* The left operand of ## is not expanded; if it is empty the right one is
\* taken along with it.
LeftOperand ==
  LET c == Top.call IN
  /\ Substituting /\ AtOperand(c)
  /\ IF c.args[c.rest[1]] = <<>> THEN Add(3, Operand(c, 3)) ELSE Add(1, c.args[c.rest[1]])

\* What an argument of the call lies within.
OpenAround(f) == {<<o[1], -1>> : o \in OpenBefore(f, f.call.after)}

\* Any other parameter: its argument is expanded by itself.
ExpandArg ==
  LET c == Top.call IN
  /\ Substituting /\ AtParam(c)
  /\ frames' = <<Frame(c.args[c.rest[1]], OpenAround(Top))>> \o frames
  /\ UNCHANGED <<macros, panicked>>

\* Seeded fault: an argument that expands to nothing is waited for.
ArgExpandedNonempty ==
  LET below == frames[2].call IN
  /\ ~panicked /\ Len(frames) > 1 /\ Top.call = NoCall /\ Top.todo = <<>> /\ Top.out # <<>>
  /\ frames' = [Tail(frames) EXCEPT ![1].call =
       [below EXCEPT !.rest = Tail(@), !.built = @ \o Top.out,
                     !.full[Head(below.rest)] = Words(Top.out)]]
  /\ UNCHANGED <<macros, panicked>>

\* The expanded argument is added to what subst has built.
ArgExpanded ==
  LET below == frames[2].call IN
  /\ ~panicked /\ Len(frames) > 1 /\ Top.call = NoCall /\ Top.todo = <<>>
  /\ frames' = [Tail(frames) EXCEPT ![1].call =
       [below EXCEPT !.rest = Tail(@), !.built = @ \o Top.out,
                     !.full[Head(below.rest)] = Words(Top.out)]]
  /\ UNCHANGED <<macros, panicked>>

CopyWord ==
  LET c == Top.call IN
  /\ Substituting /\ c.rest # <<>>
  /\ Head(c.rest) \notin {"#", "##"} \cup DOMAIN c.args /\ ~AtVaComma(c) /\ ~AtVaOpt(c)
  /\ Add(1, <<Fresh(Head(c.rest))>>)

SubstFails ==
  /\ ~panicked /\ Top.call # NoCall /\ Fails(Top.call)
  /\ frames' = [frames EXCEPT ![1] = Pass(@)]
  /\ UNCHANGED <<macros, panicked>>

SubstPanics ==
  /\ ~panicked /\ Top.call # NoCall /\ Panics(Top.call)
  /\ panicked' = TRUE
  /\ UNCHANGED <<macros, frames>>

\* The end of the body: the replacement, hidden from, takes the call's place.
EndSubst ==
  LET c == Top.call IN
  /\ Substituting /\ c.rest = <<>>
  /\ frames' = [frames EXCEPT ![1] = Rescan(@, c.name, add_hideset(c.built, c.hs), c.after)]
  /\ UNCHANGED <<macros, panicked>>

Next ==
  \/ Emit \/ ExpandObjlike \/ BeginCall \/ Stringize \/ VaComma \/ Paste \/ VaOpt
  \/ LeftOperand \/ ExpandArg \/ ArgExpanded \/ CopyWord \/ SubstFails \/ SubstPanics
  \/ EndSubst

Spec == Init /\ [][Next]_vars /\ WF_vars(Next)
-----------------------------------------------------------------------------
(***************************************************************************)
(* Properties.                                                             *)
(***************************************************************************)

\* src/README.md:292 and 298, "Do not expand a token more than once for the
\* same objlike (funclike) macro": no name is expanded while its replacement is
\* still being read, be it in an argument, through another macro, or in a call
\* whose closing parenthesis lies further on.  The hidesets, though they are
\* intersected and pasted tokens start without one, never let one through.
NotReentered ==
  Scanning /\ Expandable =>
    \A o \in Top.open : o[1] = Tok.w => o[2] >= Len(Top.todo)

\* Every expansion comes to an end, whatever the macros name in their bodies.
Terminates == <>(panicked \/ (Len(frames) = 1 /\ Top.call = NoCall /\ Top.todo = <<>>))

\* The replacement as the standard describes it (6.10.3.1-3): operands of #
\* and ## stand for the argument as written, an empty one for a placemarker,
\* other parameters for the expanded argument; then ## is applied from left
\* to right, a placemarker joining with anything.
Placemarker == ""

\* __VA_OPT__ is its text where there are variadic arguments.
Opted(c) ==
  LET body == macros[c.name].body
      opt  == {n \in DOMAIN body : body[n] = "__VA_OPT__"}
      from == Min(opt)
      to   == Min({n \in DOMAIN body : n > from /\ body[n] = ")"})
  IN  IF opt = {} THEN body
      ELSE SubSeq(body, 1, from - 1)
             \o (IF HasVarargs(c) THEN SubSeq(body, from + 2, to - 1) ELSE <<Placemarker>>)
             \o SubSeq(body, to + 1, Len(body))

Parts(c) ==
  LET body == Opted(c)
      raw(p)  == IF c.args[p] = <<>> THEN <<Placemarker>> ELSE Words(c.args[p])
      hash(n) == n \in DOMAIN body /\ body[n] = "##"
      after(n, word) == n > 1 /\ body[n - 1] = word
      gnu(n)  == /\ n + 2 \in DOMAIN body /\ body[n] = "," /\ hash(n + 1)
                 /\ Va(c) # "" /\ body[n + 2] = Va(c)
      dropped(n) == \/ body[n] = "#"
                    \/ gnu(n) /\ ~HasVarargs(c)
                    \/ n > 1 /\ gnu(n - 1)
                    \/ n > 2 /\ gnu(n - 2) /\ ~HasVarargs(c)
      part(n) ==
        CASE dropped(n) -> <<>>
          [] ~dropped(n) /\ body[n] \notin DOMAIN c.args -> <<body[n]>>
          [] ~dropped(n) /\ body[n] \in DOMAIN c.args ->
               IF after(n, "#") THEN <<Quoted(Words(c.args[body[n]]))>>
               ELSE IF hash(n + 1) \/ (after(n, "##") /\ ~(n > 2 /\ gnu(n - 2))) THEN raw(body[n])
               ELSE c.full[body[n]]
  IN  FlattenSeq([n \in DOMAIN body |-> part(n)])

Joined(l, r) == IF l = Placemarker THEN r ELSE IF r = Placemarker THEN l
                ELSE IF Spliced(l, r) = "" THEN "bad" ELSE Spliced(l, r)

Standard(c) ==
  LET step(acc, part) ==
        IF part = "##" THEN [acc EXCEPT !.join = TRUE]
        ELSE IF acc.join
          THEN [words |-> Append(Front(acc.words), Joined(Last(acc.words), part)), join |-> FALSE]
          ELSE [acc EXCEPT !.words = Append(@, part)]
      end == FoldLeft(step, [words |-> <<>>, join |-> FALSE], Parts(c))
  IN  SelectSeq(end.words, LAMBDA w : w # Placemarker)

\* A body that breaks the constraints on # and ##.
Malformed(c) ==
  LET body == macros[c.name].body IN
  \/ \E n \in DOMAIN body :
       body[n] = "#" /\ (n = Len(body) \/ body[n + 1] \notin DOMAIN c.args)
  \/ body # <<>> /\ "##" \in {Head(body), Last(body)}

\* subst builds that replacement, and gives up only on a body that breaks the
\* constraints or a paste that makes no token, with any arguments empty.
SubstIsStandard ==
  Top.call # NoCall /\ ~Malformed(Top.call) =>
    /\ Top.call.rest = <<>> => Words(Top.call.built) = Standard(Top.call)
    /\ Fails(Top.call) => "bad" \in Range(Standard(Top.call))
=============================================================================
