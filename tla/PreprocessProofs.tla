------------------------- MODULE PreprocessProofs -------------------------
(***************************************************************************)
(* Safety of the directive loop, for every program and every set of files. *)
(***************************************************************************)
EXTENDS Preprocess, TLAPS

Cond == [ctx : {"then", "elif", "else"}, included : BOOLEAN]

\* What a section being read may look like: it was selected.
Selected(ci) == ci.included \/ ci.ctx = "else"

IInv == TypeOK /\ InsideSelected

\* A conditional pushed, or put in the place of the innermost, on COND_INCL.
LEMMA PushType ==
  ASSUME NEW s \in Seq(Cond), NEW c \in Cond
  PROVE  /\ <<c>> \o s \in Seq(Cond)
         /\ <<c>> \o s # <<>>
         /\ Len(<<c>> \o s) = Len(s) + 1
         /\ (<<c>> \o s)[1] = c
         /\ \A n \in 2..(Len(s) + 1) : (<<c>> \o s)[n] = s[n - 1]
  OBVIOUS

LEMMA EmptyType == <<>> \in Seq(Cond)
  OBVIOUS

\* COND_INCL without its innermost conditional.
LEMMA PopType ==
  ASSUME NEW s \in Seq(Cond), s # <<>>
  PROVE  /\ Tail(s) \in Seq(Cond)
         /\ Len(Tail(s)) = Len(s) - 1
         /\ \A n \in 1..(Len(s) - 1) : Tail(s)[n] = s[n + 1]
         /\ Head(s) \in Cond /\ Head(s) = s[1]
  OBVIOUS

LEMMA HoldsBoolean == Holds \in BOOLEAN
<1>1. CASE Dir.word = "ifndef"
  BY <1>1 DEF Holds
<1>2. CASE Dir.word # "ifndef"
  BY <1>2 DEF Holds
<1> QED BY <1>1, <1>2

LEMMA InitIInv == Init => IInv
<1> SUFFICES ASSUME Init PROVE IInv
  OBVIOUS
<1>1. TypeOK
  <2>1. stack \in Seq(Cond)
    BY EmptyType DEF Init
  <2>2. /\ bol = TRUE /\ skipping = FALSE /\ nest = 0 /\ status = "running"
    BY DEF Init
  <2>3. bol \in BOOLEAN /\ skipping \in BOOLEAN /\ nest \in Nat
    BY <2>2
  <2>4. status \in {"running", "done", "stray", "unterminated", "error"}
    BY <2>2
  <2>5. ~(skipping /\ status = "running")
    BY <2>2
  <2>6. ~(nest > 0)
    BY <2>2
  <2>7. stack \in Seq([ctx : {"then", "elif", "else"}, included : BOOLEAN])
    BY <2>1 DEF Cond
  <2> QED BY <2>3, <2>4, <2>5, <2>6, <2>7 DEF TypeOK
<1>2. InsideSelected
  BY DEF Init, InsideSelected
<1> QED BY <1>1, <1>2 DEF IInv

\* A step that leaves COND_INCL alone.
LEMMA KeepIInv ==
  ASSUME IInv, stack' = stack, skipping' = skipping, status' = status,
         nest' \in Nat, nest' > 0 => skipping, bol' \in BOOLEAN
  PROVE  IInv'
<1>1. TypeOK'
  BY DEF IInv, TypeOK
<1>2. InsideSelected'
  BY DEF IInv, InsideSelected
<1> QED BY <1>1, <1>2 DEF IInv

\* A step that ends the loop.
LEMMA StopIInv ==
  ASSUME IInv, stack' \in Seq(Cond), status' \in {"done", "stray", "unterminated", "error"},
         skipping' \in BOOLEAN, nest' \in Nat, nest' > 0 => skipping', bol' = bol
  PROVE  IInv'
<1>1. TypeOK'
  BY DEF IInv, TypeOK, Cond
<1>2. InsideSelected'
  BY DEF InsideSelected
<1> QED BY <1>1, <1>2 DEF IInv

\* #if, #ifdef, #ifndef open a group in one that is being read.
LEMMA IfIInv == IInv /\ If => IInv'
<1> SUFFICES ASSUME IInv, If PROVE IInv'
  OBVIOUS
<1> USE DEF IInv, TypeOK
<1> DEFINE c == CondIncl("then", Holds)
<1>1. Holds \in BOOLEAN
  BY HoldsBoolean
<1>2. c \in Cond /\ c.included = Holds
  BY <1>1 DEF CondIncl, Cond
<1>3. stack' = <<c>> \o stack /\ skipping' = ~Holds /\ nest' = 0 /\ bol' = TRUE
      /\ status' = status /\ status = "running" /\ ~skipping
  BY DEF If, Directive, Reading, GoOn
<1>4. stack \in Seq(Cond)
  BY DEF Cond
<1> HIDE DEF c
<1>5. /\ stack' \in Seq(Cond) /\ stack' # <<>> /\ Len(stack') = Len(stack) + 1
      /\ stack'[1] = c
      /\ \A n \in 2..(Len(stack) + 1) : stack'[n] = stack[n - 1]
  BY <1>2, <1>3, <1>4, PushType
<1>6. TypeOK'
  BY <1>1, <1>3, <1>5 DEF Cond
<1>7. ASSUME NEW n \in DOMAIN stack', n > 1 \/ ~skipping'
      PROVE  Selected(stack'[n])
  <2>1. n \in 1..(Len(stack) + 1)
    BY <1>4, <1>5
  <2>2. CASE n = 1
    <3>1. ~skipping'
      BY <2>2, <1>7
    <3>2. Holds
      BY <3>1, <1>3, <1>1
    <3> QED BY <2>2, <3>2, <1>2, <1>5 DEF Selected
  <2>3. CASE n > 1
    <3>1. n \in 2..(Len(stack) + 1) /\ n - 1 \in DOMAIN stack
      BY <2>1, <2>3, <1>4
    <3>2. Selected(stack[n - 1])
      BY <3>1, <1>3 DEF InsideSelected, Selected
    <3> QED BY <3>1, <3>2, <1>5
  <2> QED BY <2>1, <2>2, <2>3
<1> QED BY <1>6, <1>7 DEF InsideSelected, Selected

\* #elif and #else put the innermost group's next section in the place of the
\* last; the section is selected or skipping goes on.
LEMMA ReplaceIInv ==
  ASSUME IInv, stack # <<>>, NEW c \in Cond, NEW skip \in BOOLEAN,
         stack' = <<c>> \o Tail(stack), skip \/ Selected(c),
         GoOn(skip), status' = status, status = "running"
  PROVE  IInv'
<1> USE DEF IInv, TypeOK
<1>1. stack \in Seq(Cond)
  BY DEF Cond
<1>2. skipping' = skip /\ nest' = 0 /\ bol' = TRUE
  BY DEF GoOn
<1>3. Tail(stack) \in Seq(Cond) /\ Len(Tail(stack)) = Len(stack) - 1
      /\ \A n \in 1..(Len(stack) - 1) : Tail(stack)[n] = stack[n + 1]
  BY <1>1, PopType
<1>4. /\ stack' \in Seq(Cond) /\ stack' # <<>> /\ Len(stack') = Len(Tail(stack)) + 1
      /\ stack'[1] = c
      /\ \A n \in 2..(Len(Tail(stack)) + 1) : stack'[n] = Tail(stack)[n - 1]
  BY <1>3, PushType
<1>5. TypeOK'
  BY <1>2, <1>4 DEF Cond
<1>6. ASSUME NEW n \in DOMAIN stack', n > 1 \/ ~skipping'
      PROVE  Selected(stack'[n])
  <2>1. n \in 1..Len(stack)
    BY <1>1, <1>3, <1>4
  <2>2. CASE n = 1
    BY <2>2, <1>2, <1>4, <1>6
  <2>3. CASE n > 1
    <3>1. stack'[n] = stack[n]
      <4>1. n \in 2..(Len(Tail(stack)) + 1) /\ n - 1 \in 1..(Len(stack) - 1)
        BY <2>1, <2>3, <1>1, <1>3
      <4>2. stack'[n] = Tail(stack)[n - 1]
        BY <4>1, <1>4
      <4>3. Tail(stack)[n - 1] = stack[(n - 1) + 1]
        BY <4>1, <1>3
      <4>4. (n - 1) + 1 = n
        BY <2>1, <1>1
      <4> QED BY <4>2, <4>3, <4>4
    <3>2. Selected(stack[n])
      BY <2>1, <2>3, <1>1 DEF InsideSelected, Selected
    <3> QED BY <3>1, <3>2
  <2> QED BY <2>1, <2>2, <2>3
<1> QED BY <1>5, <1>6 DEF InsideSelected, Selected

LEMMA ElifIInv == IInv /\ Elif => IInv'
<1> SUFFICES ASSUME IInv, Elif PROVE IInv'
  OBVIOUS
<1>1. CASE stack = <<>> \/ Head(stack).ctx = "else"
  <2>1. stack' = <<>> /\ status' = "stray" /\ bol' = bol /\ skipping' = skipping /\ nest' = nest
    BY <1>1 DEF Elif, Err, skipper
  <2> QED BY <2>1, StopIInv, EmptyType DEF IInv, TypeOK
<1>2. CASE ~(stack = <<>> \/ Head(stack).ctx = "else")
  <2> DEFINE ci == Head(stack)
             selected == ~ci.included /\ Holds
             c == CondIncl("elif", ci.included \/ selected)
  <2>1. ci \in Cond
    BY <1>2, PopType DEF IInv, TypeOK, Cond
  <2>2. c \in Cond /\ (~selected) \in BOOLEAN /\ (~selected \/ Selected(c))
    <3>1. ci.included \in BOOLEAN /\ selected \in BOOLEAN
      BY <2>1, HoldsBoolean DEF Cond
    <3> HIDE DEF selected, ci
    <3>2. (ci.included \/ selected) \in BOOLEAN /\ (~selected) \in BOOLEAN
      BY <3>1
    <3>3. c \in Cond
      BY <3>2 DEF Cond, CondIncl
    <3>4. ~selected \/ Selected(c)
      BY <3>1 DEF Selected, CondIncl
    <3>5. (~selected) \in BOOLEAN
      BY <3>1
    <3> HIDE DEF c
    <3> QED BY <3>3, <3>4, <3>5
  <2>3. stack' = <<c>> \o Tail(stack) /\ GoOn(~selected) /\ status' = status
        /\ status = "running"
    BY <1>2 DEF Elif, Resume, Reading
  <2> QED BY <1>2, <2>2, <2>3, ReplaceIInv
<1> QED BY <1>1, <1>2

LEMMA ElseIInv == IInv /\ Else => IInv'
<1> SUFFICES ASSUME IInv, Else PROVE IInv'
  OBVIOUS
<1>1. CASE stack = <<>> \/ Head(stack).ctx = "else"
  <2>1. stack' = <<>> /\ status' = "stray" /\ bol' = bol /\ skipping' = skipping /\ nest' = nest
    BY <1>1 DEF Else, Err, skipper
  <2> QED BY <2>1, StopIInv, EmptyType DEF IInv, TypeOK
<1>2. CASE ~(stack = <<>> \/ Head(stack).ctx = "else")
  <2> DEFINE ci == Head(stack)
             c == CondIncl("else", ci.included)
  <2>1. ci \in Cond
    BY <1>2, PopType DEF IInv, TypeOK, Cond
  <2>2. c \in Cond /\ ci.included \in BOOLEAN /\ Selected(c)
    BY <2>1 DEF Cond, CondIncl, Selected
  <2>3. stack' = <<c>> \o Tail(stack) /\ GoOn(ci.included) /\ status' = status
        /\ status = "running"
    BY <1>2 DEF Else, Resume, Reading
  <2> QED BY <1>2, <2>2, <2>3, ReplaceIInv
<1> QED BY <1>1, <1>2

\* #endif uncovers a group in whose section the closed one stood.
LEMMA EndifIInv == IInv /\ Endif => IInv'
<1> SUFFICES ASSUME IInv, Endif PROVE IInv'
  OBVIOUS
<1>1. CASE stack = <<>>
  <2>1. stack' = stack /\ status' = "stray" /\ bol' = bol /\ skipping' = skipping /\ nest' = nest
    BY <1>1 DEF Endif, Err, skipper
  <2> QED BY <1>1, <2>1, StopIInv, EmptyType DEF IInv, TypeOK
<1>2. CASE stack # <<>>
  <2> USE DEF IInv, TypeOK
  <2>1. stack \in Seq(Cond)
    BY DEF Cond
  <2>2. stack' = Tail(stack) /\ skipping' = FALSE /\ nest' = 0 /\ bol' = TRUE
        /\ status' = status /\ status = "running"
    BY <1>2 DEF Endif, Resume, Reading, GoOn
  <2>3. stack' \in Seq(Cond) /\ Len(stack') = Len(stack) - 1
        /\ \A n \in 1..(Len(stack) - 1) : stack'[n] = stack[n + 1]
    BY <1>2, <2>1, <2>2, PopType
  <2>4. TypeOK'
    <3>1. status' \in {"running", "done", "stray", "unterminated", "error"}
      BY <2>2
    <3>2. bol' \in BOOLEAN /\ skipping' \in BOOLEAN /\ nest' \in Nat
      BY <2>2
    <3>3. ~skipping' /\ ~(nest' > 0)
      BY <2>2
    <3>4. stack' \in Seq([ctx : {"then", "elif", "else"}, included : BOOLEAN])
      BY <2>3 DEF Cond
    <3> QED BY <3>1, <3>2, <3>3, <3>4
  <2>5. ASSUME NEW n \in DOMAIN stack' PROVE Selected(stack'[n])
    <3>1. n \in 1..(Len(stack) - 1) /\ n + 1 \in DOMAIN stack /\ n + 1 > 1
      BY <2>1, <2>3, <2>5
    <3> QED BY <3>1, <2>2, <2>3 DEF InsideSelected, Selected
  <2> QED BY <2>4, <2>5 DEF InsideSelected, Selected
<1> QED BY <1>1, <1>2

LEMMA StepIInv == IInv /\ [Next]_vars => IInv'
<1> SUFFICES ASSUME IInv, [Next]_vars PROVE IInv'
  OBVIOUS
<1>1. CASE Text
  <2>1. stack' = stack /\ skipping' = skipping /\ nest' = nest /\ status' = status
    BY <1>1 DEF Text, skipper
  <2>2. bol' \in BOOLEAN
    BY <1>1 DEF Text
  <2> QED BY <2>1, <2>2, KeepIInv DEF IInv, TypeOK
<1>2. CASE If
  BY <1>2, IfIInv
<1>3. CASE Elif
  BY <1>3, ElifIInv
<1>4. CASE Else
  BY <1>4, ElseIInv
<1>5. CASE Endif
  BY <1>5, EndifIInv
<1>6. CASE Skip
  <2> DEFINE word == IF IsHash THEN Dir.word ELSE ""
  <2>1. /\ stack' = stack /\ skipping' = skipping /\ status' = status /\ bol' = TRUE
        /\ skipping
        /\ nest = 0 => word # "endif"
        /\ nest' = IF word \in Opening THEN nest + 1 ELSE IF word = "endif" THEN nest - 1 ELSE nest
    BY <1>6 DEF Skip, Resuming
  <2> HIDE DEF word
  <2>2. nest' \in Nat
    BY <2>1 DEF IInv, TypeOK
  <2> QED BY <2>1, <2>2, KeepIInv
<1>7. CASE Define
  <2>1. stack' = stack /\ skipping' = FALSE /\ ~skipping /\ nest' = 0 /\ status' = status /\ bol' = TRUE
    BY <1>7 DEF Define, Directive, GoOn
  <2>2. skipping' = skipping
    BY <2>1 DEF IInv, TypeOK
  <2> QED BY <2>1, <2>2, KeepIInv
<1>8. CASE Include
  <2>1. stack' = stack /\ skipping' = skipping /\ nest' = nest /\ status' = status /\ bol' = TRUE
    BY <1>8 DEF Include, skipper
  <2> QED BY <2>1, KeepIInv DEF IInv, TypeOK
<1>9. CASE NullDirective
  <2>1. stack' = stack /\ skipping' = FALSE /\ ~skipping /\ nest' = 0 /\ status' = status /\ bol' = TRUE
    BY <1>9 DEF NullDirective, Directive, GoOn
  <2>2. skipping' = skipping
    BY <2>1 DEF IInv, TypeOK
  <2> QED BY <2>1, <2>2, KeepIInv
<1>10. CASE Error
  <2>1. stack' = stack /\ status' = "error" /\ bol' = bol /\ skipping' = skipping /\ nest' = nest
    BY <1>10 DEF Error, Err, skipper
  <2>2. stack \in Seq(Cond)
    BY DEF IInv, TypeOK, Cond
  <2>3. skipping \in BOOLEAN /\ nest \in Nat /\ (nest > 0 => skipping)
    BY DEF IInv, TypeOK
  <2> QED BY <2>1, <2>2, <2>3, StopIInv
<1>11. CASE Finish
  <2>1. stack' = <<>> /\ status' \in {"done", "unterminated"} /\ skipping' = FALSE /\ nest' = 0
        /\ bol' = bol
    BY <1>11 DEF Finish
  <2>2. /\ stack' \in Seq(Cond) /\ status' \in {"done", "stray", "unterminated", "error"}
        /\ skipping' \in BOOLEAN /\ nest' \in Nat
    BY <2>1, EmptyType
  <2>3. ~(nest' > 0)
    BY <2>1
  <2> QED BY <2>1, <2>2, <2>3, StopIInv
<1>12. CASE UNCHANGED vars
  BY <1>12, KeepIInv DEF vars, skipper, IInv, TypeOK
<1> QED BY <1>1, <1>2, <1>3, <1>4, <1>5, <1>6, <1>7, <1>8, <1>9, <1>10, <1>11, <1>12 DEF Next

\* The invariant holds along every behaviour of the loop.
THEOREM LoopInvariant == Spec => []IInv
  BY InitIInv, StepIInv, PTL DEF Spec

\* The types of the variables, and: skip_cond_incl runs only inside an open
\* conditional.
THEOREM TypeCorrect == Spec => []TypeOK
  BY LoopInvariant, PTL DEF IInv

\* Text is output only inside sections that were selected.
THEOREM OnlySelected == Spec => []InsideSelected
  BY LoopInvariant, PTL DEF IInv

(***************************************************************************)
(* The loop implements the standard's description of groups.               *)
(***************************************************************************)
\* What is left to read is plain, where at_bol was lost there is text that does
\* not hand the loss on, and a line whose first macro leaves a # in front is met
\* only there, or in what is skipped.
RInv ==
  /\ IInv
  /\ todo \in Seq(Lines)
  /\ \A n \in 1..(Len(todo) - 1) : Plain(todo[n], todo[n + 1])
  /\ ~bol => todo = <<>> \/ (~Head(todo).hash /\ Head(todo).empty # "all")
  /\ bol /\ ~skipping => todo = <<>> \/ ~Head(todo).made

\* The first line and the rest.
LEMMA HeadTail ==
  ASSUME NEW s \in Seq(Lines), s # <<>>
  PROVE  /\ Head(s) \in Lines /\ Head(s) = s[1]
         /\ Tail(s) \in Seq(Lines) /\ Len(Tail(s)) = Len(s) - 1 /\ Len(s) \in Nat \ {0}
         /\ \A n \in 1..(Len(s) - 1) : Tail(s)[n] = s[n + 1]
         /\ Tail(s) # <<>> => Len(s) > 1 /\ Head(Tail(s)) = s[2]
  OBVIOUS

LEMMA LineType ==
  ASSUME NEW l \in Lines
  PROVE  /\ l.hash \in BOOLEAN /\ l.made \in BOOLEAN /\ l.empty \in {"no", "end", "all"}
         /\ l.hash => ~l.made
         /\ l.hash => l.word \in {"if", "ifdef", "ifndef", "elif", "else", "endif", "define",
                                  "undef", "include", "error", ""}
         /\ l.hash /\ l.word = "include" => l.name \in DOMAIN Files
BY LinesAssumption

\* Where the lines are plain the code takes a directive for what it is.
LEMMA SeesDirective ==
  ASSUME RInv, todo # <<>>
  PROVE  /\ IsHash <=> Head(todo).hash
         /\ IsHash => Dir = Head(todo) /\ After = Tail(todo)
<1>1. /\ todo \in Seq(Lines) /\ Head(todo) = todo[1] /\ Head(todo) \in Lines
      /\ Len(todo) \in Nat \ {0}
  BY HeadTail DEF RInv
<1>2. /\ Head(todo).hash \in BOOLEAN /\ Head(todo).made \in BOOLEAN
      /\ bol \in BOOLEAN /\ skipping \in BOOLEAN
  BY <1>1, LineType DEF RInv, IInv, TypeOK
<1>3. IsHash <=> Head(todo).hash
  BY <1>2 DEF RInv, IsHash
<1>4. ASSUME IsHash
      PROVE  ~OnNextLine
  <2> SUFFICES ASSUME Head(todo).word = "", Len(todo) > 1
               PROVE  todo[2].hash \/ todo[2].word = ""
    BY DEF OnNextLine
  <2>1. 1 \in 1..(Len(todo) - 1) /\ 1 + 1 = 2
    <3>1. Len(todo) \in Nat /\ Len(todo) > 1
      BY <1>1
    <3> QED BY ONLY <3>1
  <2>2. \A n \in 1..(Len(todo) - 1) : Plain(todo[n], todo[n + 1])
    BY DEF RInv
  <2>3. Plain(todo[1], todo[2])
    BY <2>1, <2>2
  <2>4. todo[1].hash /\ todo[1].word = ""
    BY <1>1, <1>3, <1>4
  <2> QED BY <2>3, <2>4 DEF Plain
<1> QED BY <1>3, <1>4 DEF Dir, After

\* The rest of plain lines is plain, also after the lines of a file.
LEMMA PlainTail ==
  ASSUME NEW s \in Seq(Lines), s # <<>>,
         \A n \in 1..(Len(s) - 1) : Plain(s[n], s[n + 1])
  PROVE  \A n \in 1..(Len(Tail(s)) - 1) : Plain(Tail(s)[n], Tail(s)[n + 1])
<1> SUFFICES ASSUME NEW n \in 1..(Len(Tail(s)) - 1)
             PROVE  Plain(Tail(s)[n], Tail(s)[n + 1])
  OBVIOUS
<1>1. /\ Len(Tail(s)) = Len(s) - 1 /\ Len(s) \in Nat \ {0}
      /\ \A i \in 1..(Len(s) - 1) : Tail(s)[i] = s[i + 1]
  BY HeadTail
<1>2. n \in 1..(Len(s) - 1) /\ n + 1 \in 1..(Len(s) - 1)
  BY <1>1
<1> QED BY <1>1, <1>2

LEMMA PlainFile ==
  ASSUME PlainSources, NEW f \in DOMAIN Files, NEW s \in Seq(Lines),
         \A n \in 1..(Len(s) - 1) : Plain(s[n], s[n + 1]),
         s # <<>> => ~s[1].made
  PROVE  /\ Files[f] \o s \in Seq(Lines)
         /\ Files[f] \o s # <<>> => ~Head(Files[f] \o s).made
         /\ \A n \in 1..(Len(Files[f] \o s) - 1) :
              Plain((Files[f] \o s)[n], (Files[f] \o s)[n + 1])
<1> DEFINE p == Files[f]
           t == p \o s
<1>1. /\ p \in Seq(Lines)
      /\ p # <<>> => ~p[1].made
      /\ \A n \in 1..(Len(p) - 1) : Plain(p[n], p[n + 1])
      /\ p # <<>> => \A l \in Lines : ~l.made => Plain(p[Len(p)], l)
  BY LinesAssumption DEF PlainSources, Sources
<1> HIDE DEF p
<1>2. /\ t \in Seq(Lines) /\ Len(t) = Len(p) + Len(s)
      /\ \A n \in 1..Len(p) : t[n] = p[n]
      /\ \A n \in (Len(p) + 1)..(Len(p) + Len(s)) : t[n] = s[n - Len(p)]
      /\ Len(p) \in Nat /\ Len(s) \in Nat
  BY <1>1
<1> HIDE DEF t
<1>3. ASSUME NEW n \in 1..(Len(t) - 1)
      PROVE  Plain(t[n], t[n + 1])
  <2>1. CASE n < Len(p)
    <3>1. n \in 1..(Len(p) - 1) /\ n \in 1..Len(p) /\ n + 1 \in 1..Len(p)
      BY <1>2, <2>1
    <3> QED BY <1>1, <1>2, <3>1
  <2>2. CASE n = Len(p)
    <3>1. /\ n \in 1..Len(p) /\ 1 \in 1..Len(s) /\ p # <<>>
          /\ n + 1 \in (Len(p) + 1)..(Len(p) + Len(s)) /\ (n + 1) - Len(p) = 1
      BY <1>1, <1>2, <2>2
    <3>2. t[n] = p[Len(p)] /\ s[1] \in Lines /\ ~s[1].made
      BY <1>2, <2>2, <3>1
    <3>3. t[n + 1] = s[(n + 1) - Len(p)]
      BY <1>2, <3>1
    <3> QED BY <1>1, <3>1, <3>2, <3>3
  <2>3. CASE n > Len(p)
    <3>1. /\ n - Len(p) \in 1..(Len(s) - 1) /\ (n + 1) - Len(p) = (n - Len(p)) + 1
          /\ n \in (Len(p) + 1)..(Len(p) + Len(s)) /\ n + 1 \in (Len(p) + 1)..(Len(p) + Len(s))
      BY <1>2, <2>3
    <3> QED BY <1>2, <3>1
  <2> QED BY <1>2, <2>1, <2>2, <2>3
<1>4. ASSUME t # <<>>
      PROVE  ~Head(t).made
  <2>1. Head(t) = t[1] /\ Len(t) \in Nat \ {0}
    BY <1>2, <1>4, HeadTail
  <2>2. CASE p = <<>>
    <3>1. Len(p) = 0 /\ 1 \in (Len(p) + 1)..(Len(p) + Len(s)) /\ 1 - Len(p) = 1 /\ s # <<>>
      BY <1>2, <2>1, <2>2
    <3> QED BY <1>2, <2>1, <3>1
  <2>3. CASE p # <<>>
    <3>1. 1 \in 1..Len(p)
      BY <1>1, <1>2, <2>3
    <3> QED BY <1>1, <1>2, <2>1, <2>3, <3>1
  <2> QED BY <2>2, <2>3
<1> QED BY <1>2, <1>3, <1>4 DEF t, p

\* Every step leaves a plain rest.
LEMMA RInvStep == PlainSources /\ RInv /\ [Next]_vars => RInv'
<1> SUFFICES ASSUME PlainSources, RInv, [Next]_vars
             PROVE  RInv'
  OBVIOUS
<1>1. IInv'
  BY StepIInv DEF RInv
<1>2. todo \in Seq(Lines) /\ \A n \in 1..(Len(todo) - 1) : Plain(todo[n], todo[n + 1])
  BY DEF RInv
<1> DEFINE Same == todo' = todo /\ bol' = bol /\ (todo # <<>> => skipping' = skipping)
           OnText == /\ todo # <<>> /\ todo' = Tail(todo) /\ ~Head(todo).hash
                     /\ ~bol' => Head(todo).empty = "end"
                     /\ Head(todo).empty = "end" => ~bol' \/ skipping'
           OnHash == todo # <<>> /\ todo' = Tail(todo) /\ Head(todo).hash /\ bol' = TRUE
<1>3. CASE Same
  BY <1>1, <1>3 DEF RInv
<1>4. CASE OnText \/ OnHash
  <2>1. /\ todo' \in Seq(Lines)
        /\ \A n \in 1..(Len(todo') - 1) : Plain(todo'[n], todo'[n + 1])
    BY <1>2, <1>4, HeadTail, PlainTail
  <2>2. ASSUME todo' # <<>>
        PROVE  /\ ~bol' => ~Head(todo').hash /\ Head(todo').empty # "all"
               /\ bol' /\ ~skipping' => ~Head(todo').made
    <3>1. /\ Head(todo) = todo[1] /\ Len(todo) \in Nat /\ Len(todo) > 1
          /\ Head(todo') = todo[1 + 1]
      BY <1>2, <1>4, <2>2, HeadTail
    <3>2. Plain(todo[1], todo[1 + 1])
      BY <1>2, <3>1
    <3>3. Plain(Head(todo), Head(todo'))
      BY <3>1, <3>2
    <3> QED BY <1>4, <3>3 DEF Plain
  <2> QED BY <1>1, <2>1, <2>2 DEF RInv
<1>5. CASE /\ todo # <<>> /\ bol' = TRUE /\ Head(todo).hash
           /\ \E f \in DOMAIN Files : todo' = Files[f] \o Tail(todo)
  <2>1. PICK f \in DOMAIN Files : todo' = Files[f] \o Tail(todo)
    BY <1>5
  <2>2. /\ Tail(todo) \in Seq(Lines)
        /\ \A n \in 1..(Len(Tail(todo)) - 1) : Plain(Tail(todo)[n], Tail(todo)[n + 1])
    BY <1>2, <1>5, HeadTail, PlainTail
  <2>3. ASSUME Tail(todo) # <<>>
        PROVE  ~Tail(todo)[1].made
    <3>1. /\ Head(todo) = todo[1] /\ Len(todo) \in Nat /\ Len(todo) > 1
          /\ Tail(todo)[1] = todo[1 + 1]
      BY <1>2, <1>5, <2>3, HeadTail
    <3>2. Plain(todo[1], todo[1 + 1])
      BY <1>2, <3>1
    <3> QED BY <1>5, <3>1, <3>2 DEF Plain
  <2>4. /\ todo' \in Seq(Lines)
        /\ \A n \in 1..(Len(todo') - 1) : Plain(todo'[n], todo'[n + 1])
        /\ todo' # <<>> => ~Head(todo').made
    BY <2>1, <2>2, <2>3, PlainFile
  <2> QED BY <1>1, <1>5, <2>4 DEF RInv
<1>6. \/ Same \/ OnText \/ OnHash
      \/ /\ todo # <<>> /\ bol' = TRUE /\ Head(todo).hash
         /\ \E f \in DOMAIN Files : todo' = Files[f] \o Tail(todo)
  <2>1. CASE Text
    <3>1. /\ todo # <<>> /\ ~IsHash /\ todo' = Tail(todo)
          /\ bol' = (Head(todo).empty = "no" \/ (Head(todo).empty = "all" /\ bol))
      BY <2>1 DEF Text, Reading
    <3>2. ~Head(todo).hash /\ Head(todo).empty \in {"no", "end", "all"}
      BY <1>2, <3>1, SeesDirective, HeadTail, LineType
    <3>3. ~bol => Head(todo).empty # "all"
      BY <3>1 DEF RInv
    <3> QED BY <3>1, <3>2, <3>3
  <2>2. CASE If \/ Define \/ NullDirective
    BY <2>2, SeesDirective DEF If, Define, NullDirective, Directive, Reading, GoOn
  <2>3. CASE Elif
    BY <2>3, SeesDirective DEF Elif, Resume, Reading, GoOn, Err, skipper
  <2>4. CASE Else
    BY <2>4, SeesDirective DEF Else, Resume, Reading, GoOn, Err, skipper
  <2>5. CASE Endif
    BY <2>5, SeesDirective DEF Endif, Resume, Reading, GoOn, Err, skipper
  <2>6. CASE Skip
    <3>1. todo # <<>> /\ bol' = TRUE
      BY <2>6 DEF Skip, Reading
    <3>2. todo' = Tail(todo)
      BY <2>6, <3>1, SeesDirective DEF Skip, Opening
    <3>3. Head(todo).hash \in BOOLEAN /\ skipping' = skipping /\ skipping
      BY <1>2, <2>6, <3>1, HeadTail, LineType DEF Skip
    <3> QED BY <3>1, <3>2, <3>3
  <2>7. CASE Include
    <3>1. /\ todo # <<>> /\ IsHash /\ Dir.word = "include" /\ bol' = TRUE
          /\ todo' = Files[Dir.name] \o After
      BY <2>7 DEF Include, Directive, Reading
    <3>2. Dir = Head(todo) /\ After = Tail(todo) /\ Head(todo).hash /\ Head(todo) \in Lines
      BY <1>2, <3>1, SeesDirective, HeadTail
    <3>3. Dir.name \in DOMAIN Files
      BY <3>1, <3>2, LineType
    <3> QED BY <3>1, <3>2, <3>3
  <2>8. CASE Error \/ Finish
    BY <2>8 DEF Error, Finish, Err, skipper
  <2>9. CASE UNCHANGED vars
    BY <2>9 DEF vars
  <2> QED BY <2>1, <2>2, <2>3, <2>4, <2>5, <2>6, <2>7, <2>8, <2>9 DEF Next
<1> QED BY <1>3, <1>4, <1>5, <1>6

LEMMA InitRInv == PlainSources /\ Init => RInv
<1> SUFFICES ASSUME PlainSources, Init
             PROVE  RInv
  OBVIOUS
<1>1. todo \in Sources /\ bol = TRUE
  BY DEF Init, Sources
<1>2. todo \in Seq(Lines)
  BY <1>1, LinesAssumption
<1>3. todo # <<>> => ~Head(todo).made
  BY <1>1, <1>2, HeadTail DEF PlainSources
<1> QED BY <1>1, <1>2, <1>3, InitIInv DEF RInv, PlainSources

\* The group a conditional of COND_INCL stands for, and the groups that k
\* activations of skip_cond_incl2 and the conditionals in s stand for.
Opened(ci, live) ==
  [live |-> live, taken |-> ci.included \/ ci.ctx = "else", closed |-> ci.ctx = "else"]
LeftOut == [live |-> FALSE, taken |-> TRUE, closed |-> TRUE]
Nested(k, s, skip) ==
  [n \in 1..(k + Len(s)) |-> IF n <= k THEN LeftOut ELSE Opened(s[n - k], n - k > 1 \/ ~skip)]

\* A function on 1 .. N is a sequence.
LEMMA IsSequence ==
  ASSUME NEW N \in Nat, NEW u, DOMAIN u = 1..N, u = [n \in 1..N |-> u[n]]
  PROVE  u \in Seq({u[n] : n \in 1..N}) /\ Len(u) = N
  OBVIOUS

LEMMA NestedIs ==
  ASSUME NEW k \in Nat, NEW s \in Seq(Cond), NEW skip
  PROVE  [n \in 1..k |-> LeftOut] \o [n \in 1..Len(s) |-> Opened(s[n], n > 1 \/ ~skip)]
           = Nested(k, s, skip)
<1> DEFINE a == [n \in 1..k |-> LeftOut]
           b == [n \in 1..Len(s) |-> Opened(s[n], n > 1 \/ ~skip)]
<1>1. Len(s) \in Nat
  OBVIOUS
<1>2. a \in Seq({a[n] : n \in 1..k}) /\ Len(a) = k
  OBVIOUS
<1>3. b \in Seq({b[n] : n \in 1..Len(s)}) /\ Len(b) = Len(s)
  BY <1>1
<1>4. a \o b = [n \in 1..(k + Len(s)) |-> IF n <= k THEN a[n] ELSE b[n - k]]
  <2> HIDE DEF a, b
  <2>1. PICK A, B : A = a /\ B = b
    OBVIOUS
  <2>2. PICK S, T : A \in Seq(S) /\ B \in Seq(T)
    BY <2>1, <1>2, <1>3
  <2>3. Len(A) = k /\ Len(B) = Len(s)
    BY <2>1, <1>2, <1>3
  <2>4. A \o B = [n \in 1..(k + Len(s)) |-> IF n <= k THEN A[n] ELSE B[n - k]]
    <3>1. A \o B \in Seq(S \cup T) /\ Len(A \o B) = k + Len(s)
      BY ONLY <1>1, <2>2, <2>3, k \in Nat
    <3>2. \A n \in 1..(k + Len(s)) : (A \o B)[n] = IF n <= k THEN A[n] ELSE B[n - k]
      BY ONLY <1>1, <2>2, <2>3, k \in Nat
    <3>3. PICK C : C = A \o B
      OBVIOUS
    <3>4. C = [n \in 1..(k + Len(s)) |-> C[n]]
      <4>1. C \in Seq(S \cup T) /\ Len(C) = k + Len(s) /\ k + Len(s) \in Nat
        BY <1>1, <3>1, <3>3
      <4> QED BY ONLY <4>1
    <3> QED BY <3>2, <3>3, <3>4
  <2> QED BY <2>1, <2>4
<1>5. ASSUME NEW n \in 1..(k + Len(s))
      PROVE  (IF n <= k THEN a[n] ELSE b[n - k])
               = IF n <= k THEN LeftOut ELSE Opened(s[n - k], n - k > 1 \/ ~skip)
  <2>1. CASE n <= k
    BY <2>1
  <2>2. CASE ~(n <= k)
    <3>1. n - k \in 1..Len(s)
      BY <1>1, <2>2
    <3> QED BY <2>2, <3>1
  <2> QED BY <2>1, <2>2
<1> HIDE DEF a, b
<1>6. a \o b = Nested(k, s, skip)
  BY <1>4, <1>5 DEF Nested
<1> QED BY <1>6 DEF a, b

LEMMA GroupsAre ==
  /\ TypeOK => Groups = IF status = "running" THEN Nested(nest, stack, skipping) ELSE <<>>
  /\ TypeOK' => Groups' = IF status' = "running" THEN Nested(nest', stack', skipping') ELSE <<>>
<1>1. ASSUME TypeOK
      PROVE  Groups = IF status = "running" THEN Nested(nest, stack, skipping) ELSE <<>>
  <2>1. nest \in Nat /\ stack \in Seq(Cond)
    BY <1>1 DEF TypeOK, Cond
  <2> QED BY <2>1, NestedIs DEF Groups, Opened, LeftOut
<1>2. ASSUME TypeOK'
      PROVE  Groups' = IF status' = "running" THEN Nested(nest', stack', skipping') ELSE <<>>
  <2>1. nest' \in Nat /\ stack' \in Seq(Cond)
    BY <1>2 DEF TypeOK, Cond
  <2> QED BY <2>1, NestedIs DEF Groups, Opened, LeftOut
<1> QED BY <1>1, <1>2

\* What opening, replacing and closing a conditional does to the groups.
LEMMA NestedPush ==
  ASSUME NEW s \in Seq(Cond), NEW c \in Cond, NEW skip \in BOOLEAN
  PROVE  Nested(0, <<c>> \o s, skip) = <<Opened(c, ~skip)>> \o Nested(0, s, FALSE)
<1> DEFINE t == <<c>> \o s
           u == Nested(0, s, FALSE)
           g == Opened(c, ~skip)
<1>1. /\ t \in Seq(Cond) /\ Len(t) = Len(s) + 1 /\ t[1] = c /\ Len(s) \in Nat
      /\ \A n \in 2..(Len(s) + 1) : t[n] = s[n - 1]
  BY PushType
<1>2. /\ DOMAIN u = 1..Len(s) /\ u \in Seq({u[n] : n \in 1..Len(s)}) /\ Len(u) = Len(s)
      /\ \A n \in 1..Len(s) : u[n] = Opened(s[n], TRUE)
  <2>1. u = [n \in 1..Len(s) |-> Opened(s[n], TRUE)]
    <3>1. ASSUME NEW n \in 1..Len(s)
          PROVE  ~(n <= 0) /\ n - 0 = n /\ (n - 0 > 1 \/ ~FALSE) = TRUE
      BY <1>1
    <3>2. 0 + Len(s) = Len(s)
      BY <1>1
    <3> QED BY <3>1, <3>2 DEF Nested
  <2>2. DOMAIN u = 1..Len(s) /\ \A n \in 1..Len(s) : u[n] = Opened(s[n], TRUE)
    BY <2>1
  <2>3. u = [n \in 1..Len(s) |-> u[n]]
    BY <2>1
  <2> HIDE DEF u
  <2>4. u \in Seq({u[n] : n \in 1..Len(s)}) /\ Len(u) = Len(s)
    BY <1>1, <2>2, <2>3, IsSequence
  <2> QED BY <2>2, <2>4
<1> HIDE DEF u, g
<1>3. <<g>> \o u = [n \in 1..(Len(s) + 1) |-> IF n = 1 THEN g ELSE u[n - 1]]
  BY <1>1, <1>2
<1>4. ASSUME NEW n \in 1..(Len(s) + 1)
      PROVE  (<<g>> \o u)[n] = Opened(t[n], n > 1 \/ ~skip)
  <2>1. CASE n = 1
    <3>1. (n > 1 \/ ~skip) = ~skip
      BY <2>1
    <3> QED BY <1>1, <1>3, <2>1, <3>1 DEF g
  <2>2. CASE n # 1
    <3>1. (n > 1 \/ ~skip) = TRUE /\ n - 1 \in 1..Len(s) /\ n \in 2..(Len(s) + 1)
      BY <1>1, <2>2
    <3>2. u[n - 1] = Opened(s[n - 1], TRUE) /\ t[n] = s[n - 1]
      BY <1>1, <1>2, <3>1
    <3>3. (<<g>> \o u)[n] = u[n - 1]
      BY <1>3, <2>2
    <3> QED BY <3>1, <3>2, <3>3
  <2> QED BY <2>1, <2>2
<1>5. Nested(0, t, skip) = [n \in 1..(Len(s) + 1) |-> Opened(t[n], n > 1 \/ ~skip)]
  <2>1. ASSUME NEW n \in 1..(Len(s) + 1)
        PROVE  ~(n <= 0) /\ n - 0 = n
    BY <1>1
  <2>2. 0 + Len(t) = Len(s) + 1
    BY <1>1
  <2> HIDE DEF t
  <2> QED BY <2>1, <2>2 DEF Nested
<1> HIDE DEF t
<1>6. <<g>> \o u = Nested(0, t, skip)
  BY <1>3, <1>4, <1>5
<1> QED BY <1>6 DEF t, u, g

LEMMA NestedPop ==
  ASSUME NEW s \in Seq(Cond), s # <<>>, NEW skip \in BOOLEAN
  PROVE  /\ Nested(0, s, skip) # <<>>
         /\ Head(Nested(0, s, skip)) = Opened(s[1], ~skip)
         /\ Tail(Nested(0, s, skip)) = Nested(0, Tail(s), FALSE)
<1>1. s = <<Head(s)>> \o Tail(s) /\ Head(s) = s[1] /\ Head(s) \in Cond /\ Tail(s) \in Seq(Cond)
  OBVIOUS
<1>2. Nested(0, s, skip) = <<Opened(Head(s), ~skip)>> \o Nested(0, Tail(s), FALSE)
  BY <1>1, NestedPush
<1> DEFINE u == Nested(0, Tail(s), FALSE)
           g == Opened(Head(s), ~skip)
<1>3. u \in Seq({u[n] : n \in 1..Len(Tail(s))})
  <2>1. 0 + Len(Tail(s)) = Len(Tail(s)) /\ Len(Tail(s)) \in Nat
    BY <1>1
  <2>2. DOMAIN u = 1..Len(Tail(s)) /\ u = [n \in 1..Len(Tail(s)) |-> u[n]]
    BY <2>1 DEF Nested
  <2> HIDE DEF u
  <2> QED BY <2>1, <2>2
<1> HIDE DEF u, g
<1>4. /\ <<g>> \o u # <<>>
      /\ Head(<<g>> \o u) = g
      /\ Tail(<<g>> \o u) = u
  BY <1>3
<1> QED BY <1>1, <1>2, <1>4 DEF u, g

\* What starting and ending an activation of skip_cond_incl2 does to the groups.
LEMMA NestedSkip ==
  ASSUME NEW s \in Seq(Cond), NEW k \in Nat, NEW skip \in BOOLEAN
  PROVE  /\ Nested(k + 1, s, skip) = <<LeftOut>> \o Nested(k, s, skip)
         /\ Nested(k + 1, s, skip) # <<>>
         /\ Head(Nested(k + 1, s, skip)) = LeftOut
         /\ Tail(Nested(k + 1, s, skip)) = Nested(k, s, skip)
         /\ <<LeftOut>> \o Tail(Nested(k + 1, s, skip)) = Nested(k + 1, s, skip)
<1> DEFINE u == Nested(k, s, skip)
           v == Nested(k + 1, s, skip)
<1>1. Len(s) \in Nat /\ k + Len(s) \in Nat /\ (k + 1) + Len(s) = (k + Len(s)) + 1
  OBVIOUS
<1>2. /\ DOMAIN u = 1..(k + Len(s)) /\ u = [n \in 1..(k + Len(s)) |-> u[n]]
      /\ \A n \in 1..(k + Len(s)) :
           u[n] = IF n <= k THEN LeftOut ELSE Opened(s[n - k], n - k > 1 \/ ~skip)
  BY DEF Nested
<1>3. v = [n \in 1..((k + Len(s)) + 1) |->
             IF n <= k + 1 THEN LeftOut ELSE Opened(s[n - (k + 1)], n - (k + 1) > 1 \/ ~skip)]
  BY <1>1 DEF Nested
<1> HIDE DEF u, v
<1>4. u \in Seq({u[n] : n \in 1..(k + Len(s))}) /\ Len(u) = k + Len(s)
  BY <1>1, <1>2, IsSequence
<1>5. <<LeftOut>> \o u = [n \in 1..((k + Len(s)) + 1) |-> IF n = 1 THEN LeftOut ELSE u[n - 1]]
  BY <1>1, <1>4
<1>6. ASSUME NEW n \in 1..((k + Len(s)) + 1)
      PROVE  (IF n = 1 THEN LeftOut ELSE u[n - 1])
               = IF n <= k + 1 THEN LeftOut ELSE Opened(s[n - (k + 1)], n - (k + 1) > 1 \/ ~skip)
  <2>1. CASE n = 1
    BY <2>1, <1>1
  <2>2. CASE n # 1
    <3>1. /\ n - 1 \in 1..(k + Len(s)) /\ (n - 1 <= k <=> n <= k + 1)
          /\ (n - 1) - k = n - (k + 1)
      BY <1>1, <2>2
    <3> QED BY <1>2, <2>2, <3>1
  <2> QED BY <2>1, <2>2
<1>7. v = <<LeftOut>> \o u
  BY <1>3, <1>5, <1>6
<1>8. /\ <<LeftOut>> \o u # <<>>
      /\ Head(<<LeftOut>> \o u) = LeftOut
      /\ Tail(<<LeftOut>> \o u) = u
  BY <1>4
<1> QED BY <1>7, <1>8 DEF u, v

\* Where text is kept: no group is being skipped; and where a section may be
\* selected: none around the innermost is.
LEMMA LiveIs ==
  ASSUME TypeOK, status = "running"
  PROVE  /\ Standard!Live <=> ~skipping
         /\ Standard!LiveAround <=> nest = 0
         /\ Groups = <<>> <=> nest = 0 /\ stack = <<>>
<1>1. /\ nest \in Nat /\ stack \in Seq(Cond) /\ Len(stack) \in Nat /\ skipping \in BOOLEAN
      /\ (skipping => stack # <<>>) /\ (nest > 0 => skipping)
  BY DEF TypeOK, Cond
<1>2. Groups = Nested(nest, stack, skipping)
  BY GroupsAre
<1> DEFINE N == 1..(nest + Len(stack))
<1>3. /\ DOMAIN Groups = N
      /\ \A n \in N : Groups[n] = IF n <= nest THEN LeftOut
                                  ELSE Opened(stack[n - nest], n - nest > 1 \/ ~skipping)
  BY <1>2 DEF Nested
<1>4. ASSUME NEW n \in N
      PROVE  /\ n <= nest => ~Groups[n].live
             /\ ~(n <= nest) => (Groups[n].live <=> n - nest > 1 \/ ~skipping)
  <2>1. CASE n <= nest
    BY <1>3, <2>1 DEF LeftOut
  <2>2. CASE ~(n <= nest)
    <3>1. Groups[n] = Opened(stack[n - nest], n - nest > 1 \/ ~skipping)
      BY <1>3, <2>2
    <3>2. PICK b \in BOOLEAN : b <=> n - nest > 1 \/ ~skipping
      OBVIOUS
    <3>3. Groups[n] = Opened(stack[n - nest], b)
      BY <3>1, <3>2
    <3>4. Groups[n].live = b
      BY <3>3 DEF Opened
    <3> QED BY <2>2, <3>2, <3>4
  <2> QED BY <2>1, <2>2
<1>5. Standard!Live <=> ~skipping
  <2>1. CASE skipping
    <3>1. nest + 1 \in N /\ ~(nest + 1 <= nest) /\ ~((nest + 1) - nest > 1)
      BY <1>1, <2>1
    <3>2. ~Groups[nest + 1].live
      BY <1>4, <2>1, <3>1
    <3> QED BY <1>3, <2>1, <3>1, <3>2 DEF Standard!Live
  <2>2. CASE ~skipping
    <3>1. \A n \in N : ~(n <= nest)
      BY <1>1, <2>2
    <3>2. \A n \in N : Groups[n].live
      BY <1>4, <2>2, <3>1
    <3> QED BY <1>3, <2>2, <3>2 DEF Standard!Live
  <2> QED BY <2>1, <2>2
<1>6. Standard!LiveAround <=> nest = 0
  <2>1. CASE nest > 0
    <3>1. nest + 1 \in N /\ nest + 1 > 1 /\ ~(nest + 1 <= nest) /\ ~((nest + 1) - nest > 1) /\ skipping
      BY <1>1, <2>1
    <3>2. ~Groups[nest + 1].live
      BY <1>4, <3>1
    <3> QED BY <1>3, <2>1, <3>1, <3>2 DEF Standard!LiveAround
  <2>2. CASE nest = 0
    <3>1. \A n \in N : ~(n <= nest) /\ n - nest = n
      BY <1>1, <2>2
    <3>2. \A n \in N : n > 1 => Groups[n].live
      BY <1>4, <3>1
    <3> QED BY <1>3, <2>2, <3>2 DEF Standard!LiveAround
  <2> QED BY <1>1, <2>1, <2>2
<1>7. Groups = <<>> <=> nest = 0 /\ stack = <<>>
  <2>1. N = {} <=> nest = 0 /\ Len(stack) = 0
    <3>1. CASE nest = 0 /\ Len(stack) = 0
      BY <3>1
    <3>2. CASE ~(nest = 0 /\ Len(stack) = 0)
      <4>1. 1 \in N
        BY <1>1, <3>2
      <4> QED BY <3>2, <4>1
    <3> QED BY <3>1, <3>2
  <2>2. Groups = <<>> <=> N = {}
    BY <1>2, <1>3 DEF Nested
  <2>3. stack = <<>> <=> Len(stack) = 0
    BY <1>1
  <2> QED BY <2>1, <2>2, <2>3
<1> QED BY <1>5, <1>6, <1>7

(***************************************************************************)
(* The steps.                                                              *)
(***************************************************************************)
LEMMA Here ==
  ASSUME RInv, Reading
  PROVE  /\ status = "running" /\ todo # <<>> /\ Standard!Line = Head(todo)
         /\ IsHash <=> Head(todo).hash
         /\ IsHash => /\ Dir = Head(todo) /\ After = Tail(todo)
                      /\ Holds = Standard!Holds
                      /\ Head(todo).word \in {"if", "ifdef", "ifndef", "elif", "else", "endif",
                                              "define", "undef", "include", "error", ""}
<1>1. /\ status = "running" /\ todo # <<>> /\ Standard!Line = Head(todo)
  BY DEF Reading, Standard!Line
<1>2. /\ IsHash <=> Head(todo).hash
      /\ IsHash => Dir = Head(todo) /\ After = Tail(todo)
  BY <1>1, SeesDirective
<1>3. IsHash => Holds = Standard!Holds
  BY <1>1, <1>2 DEF Holds, Standard!Holds
<1>4. Head(todo) \in Lines
  BY <1>1, HeadTail DEF RInv
<1> QED BY <1>1, <1>2, <1>3, <1>4, LineType

\* The groups when text is read, and when a section of the innermost conditional
\* begins or ends.
LEMMA GroupsReading ==
  ASSUME TypeOK, status = "running", nest = 0
  PROVE  /\ Groups = Nested(0, stack, skipping)
         /\ stack \in Seq(Cond) /\ skipping \in BOOLEAN
         /\ Groups = <<>> <=> stack = <<>>
         /\ stack # <<>> =>
              /\ Head(stack) \in Cond
              /\ Head(Groups) = Opened(Head(stack), ~skipping)
              /\ Tail(Groups) = Nested(0, Tail(stack), FALSE)
<1>1. Groups = Nested(0, stack, skipping) /\ stack \in Seq(Cond) /\ skipping \in BOOLEAN
  BY GroupsAre DEF TypeOK, Cond
<1>2. Groups = <<>> <=> stack = <<>>
  BY LiveIs
<1>3. stack # <<>> => Head(stack) = stack[1] /\ Head(stack) \in Cond
  BY <1>1, PopType
<1> QED BY <1>1, <1>2, <1>3, NestedPop

LEMMA TextStep ==
  ASSUME RInv, Text
  PROVE  Standard!Text
<1>1. Reading /\ ~skipping /\ ~IsHash
  BY DEF Text
<1>2. /\ out' = Append(out, Head(todo)) /\ todo' = Tail(todo) /\ stack' = stack
      /\ skipping' = skipping /\ nest' = nest /\ macros' = macros /\ status' = status
  BY DEF Text, skipper
<1>3. Groups' = Groups
  BY <1>2 DEF Groups
<1>4. Standard!Live
  BY <1>1, Here, LiveIs DEF RInv, IInv
<1> QED BY <1>1, <1>2, <1>3, <1>4, Here DEF Standard!Text

\* A directive that is obeyed.
LEMMA Obeyed ==
  ASSUME RInv, NEW words, Directive(words)
  PROVE  /\ Standard!Directive(words) /\ Standard!Live
         /\ Dir = Standard!Line /\ After = Tail(todo) /\ Holds = Standard!Holds
         /\ status = "running" /\ nest = 0 /\ skipping = FALSE
<1>1. Reading /\ ~skipping /\ IsHash /\ Dir.word \in words
  BY DEF Directive
<1>2. /\ status = "running" /\ todo # <<>> /\ Standard!Line = Head(todo) /\ Head(todo).hash
      /\ Dir = Head(todo) /\ After = Tail(todo) /\ Holds = Standard!Holds
  BY <1>1, Here
<1>3. Standard!Live
  BY <1>1, <1>2, LiveIs DEF RInv, IInv
<1>4. nest = 0 /\ skipping = FALSE
  BY <1>1 DEF RInv, IInv, TypeOK
<1> QED BY <1>1, <1>2, <1>3, <1>4 DEF Standard!Directive

LEMMA IfStep ==
  ASSUME RInv, If, RInv'
  PROVE  Standard!Open
<1>1. /\ Standard!Directive(Opening) /\ Standard!Live
      /\ After = Tail(todo) /\ Holds = Standard!Holds
      /\ status = "running" /\ nest = 0 /\ skipping = FALSE
  BY Obeyed DEF If
<1> DEFINE c == CondIncl("then", Holds)
<1>2. /\ stack' = <<c>> \o stack /\ todo' = After /\ skipping' = ~Holds /\ nest' = 0
      /\ macros' = macros /\ out' = out /\ status' = status
  BY DEF If, GoOn
<1>3. Groups = Nested(0, stack, FALSE) /\ stack \in Seq(Cond)
  BY <1>1, GroupsReading DEF RInv, IInv
<1>4. Groups' = Nested(0, stack', skipping')
  BY <1>1, <1>2, GroupsAre DEF RInv, IInv
<1>5. c \in Cond /\ Holds \in BOOLEAN /\ (~Holds) \in BOOLEAN
  BY HoldsBoolean DEF Cond, CondIncl
<1>6. Groups' = <<Opened(c, ~~Holds)>> \o Groups
  <2> HIDE DEF c
  <2> QED BY <1>2, <1>3, <1>4, <1>5, NestedPush
<1>7. Opened(c, ~~Holds) = Standard!Group(Holds, Holds, FALSE)
  BY <1>5 DEF Opened, CondIncl, Standard!Group
<1>8. Standard!Opening = Opening
  BY DEF Standard!Opening, Opening
<1> QED BY <1>1, <1>2, <1>6, <1>7, <1>8 DEF Standard!Open

\* A directive that ends the section of the innermost conditional.
LEMMA Resumed ==
  ASSUME RInv, NEW word, Resume(word)
  PROVE  /\ Standard!Directive({word}) /\ Standard!LiveAround
         /\ Dir = Standard!Line /\ After = Tail(todo) /\ Holds = Standard!Holds
         /\ status = "running" /\ nest = 0
<1>1. Reading /\ (skipping => nest = 0) /\ IsHash /\ Dir.word = word
  BY DEF Resume
<1>2. /\ status = "running" /\ todo # <<>> /\ Standard!Line = Head(todo) /\ Head(todo).hash
      /\ Dir = Head(todo) /\ After = Tail(todo) /\ Holds = Standard!Holds
  BY <1>1, Here
<1>3. nest = 0
  BY <1>1 DEF RInv, IInv, TypeOK
<1>4. Standard!LiveAround
  BY <1>2, <1>3, LiveIs DEF RInv, IInv
<1> QED BY <1>1, <1>2, <1>3, <1>4 DEF Standard!Directive

\* It is a stray in the standard's description where it is one to the code.
LEMMA StrayIs ==
  ASSUME RInv, NEW word, Resume(word)
  PROVE  /\ Groups = <<>> <=> stack = <<>>
         /\ stack # <<>> => (Head(Groups).closed <=> Head(stack).ctx = "else")
<1>1. TypeOK /\ status = "running" /\ nest = 0
  BY Resumed DEF RInv, IInv
<1>2. stack # <<>> => Head(Groups) = Opened(Head(stack), ~skipping)
  BY <1>1, GroupsReading
<1>3. PICK b \in BOOLEAN : b <=> Head(stack).ctx = "else"
  OBVIOUS
<1>4. stack # <<>> => Head(Groups).closed = b
  BY <1>2, <1>3 DEF Opened
<1> QED BY <1>1, <1>3, <1>4, GroupsReading

\* The innermost conditional is replaced, and its group.
LEMMA SectionStep ==
  ASSUME RInv, RInv', status = "running", nest = 0, stack # <<>>, status' = status,
         NEW c \in Cond, stack' = <<c>> \o Tail(stack), NEW skip \in BOOLEAN,
         GoOn(skip), After = Tail(todo)
  PROVE  Standard!Section(Opened(c, ~skip))
<1>1. todo' = Tail(todo) /\ skipping' = skip /\ nest' = 0
  BY DEF GoOn
<1>2. Tail(Groups) = Nested(0, Tail(stack), FALSE) /\ stack \in Seq(Cond)
  BY GroupsReading DEF RInv, IInv
<1>3. Groups' = Nested(0, stack', skip)
  BY <1>1, GroupsAre DEF RInv, IInv
<1>4. Tail(stack) \in Seq(Cond)
  BY <1>2
<1>5. Groups' = <<Opened(c, ~skip)>> \o Tail(Groups)
  BY <1>2, <1>3, <1>4, NestedPush
<1> QED BY <1>1, <1>5 DEF Standard!Section

LEMMA StopStep ==
  ASSUME NEW how, how # "running", Err(how)
  PROVE  Standard!Stop(how)
<1>1. status' = how /\ todo' = todo
  BY DEF Err
<1>2. Groups' = <<>>
  BY <1>1 DEF Groups
<1> QED BY <1>1, <1>2 DEF Standard!Stop

LEMMA ElifStep ==
  ASSUME RInv, Elif, RInv'
  PROVE  Standard!Elif
<1>1. /\ Standard!Directive({"elif"}) /\ Standard!LiveAround
      /\ After = Tail(todo) /\ Holds = Standard!Holds
      /\ status = "running" /\ nest = 0
  BY Resumed DEF Elif
<1>2. /\ Groups = <<>> <=> stack = <<>>
      /\ stack # <<>> => (Head(Groups).closed <=> Head(stack).ctx = "else")
  BY StrayIs DEF Elif
<1>3. macros' = macros /\ out' = out
  BY DEF Elif
<1>4. CASE stack = <<>> \/ Head(stack).ctx = "else"
  <2>1. Err("stray")
    BY <1>4 DEF Elif
  <2>2. Standard!Stop("stray")
    BY <2>1, StopStep
  <2>3. Groups = <<>> \/ Head(Groups).closed
    BY <1>2, <1>4
  <2> QED BY <1>1, <1>3, <2>2, <2>3 DEF Standard!Elif
<1>5. CASE ~(stack = <<>> \/ Head(stack).ctx = "else")
  <2> DEFINE ci == Head(stack)
  <2>1. /\ Head(Groups) = Opened(ci, ~skipping) /\ ci \in Cond
        /\ Holds \in BOOLEAN
    BY <1>1, <1>5, GroupsReading, HoldsBoolean DEF RInv, IInv
  <2>2. PICK selected \in BOOLEAN : selected <=> ~ci.included /\ Holds
    OBVIOUS
  <2>3. PICK included \in BOOLEAN : included <=> ci.included
    OBVIOUS
  <2>4. PICK b \in BOOLEAN : b <=> included \/ selected
    OBVIOUS
  <2>5. ci.included = included /\ ci.ctx # "else"
    BY <1>5, <2>1, <2>3 DEF Cond
  <2> DEFINE c == CondIncl("elif", b)
  <2>6. stack' = <<c>> \o Tail(stack) /\ GoOn(~selected) /\ status' = status
    <3>1. /\ stack' = <<CondIncl("elif", ci.included \/ (~ci.included /\ Holds))>> \o Tail(stack)
          /\ GoOn(~(~ci.included /\ Holds)) /\ status' = status
      BY <1>5 DEF Elif
    <3>2. (ci.included \/ (~ci.included /\ Holds)) = b /\ (~ci.included /\ Holds) = selected
      BY <2>2, <2>3, <2>4
    <3> QED BY <3>1, <3>2
  <2>7. c \in Cond
    BY DEF Cond, CondIncl
  <2>8. Standard!Section(Opened(c, ~~selected))
    <3> HIDE DEF c
    <3> QED BY <1>1, <1>5, <2>6, <2>7, SectionStep
  <2>9. Opened(c, ~~selected) = Standard!Group(selected, b, FALSE)
    BY DEF Opened, CondIncl, Standard!Group
  <2>10. Head(Groups).taken = included
    BY <2>1, <2>5 DEF Opened
  <2>11. ~(Groups = <<>> \/ Head(Groups).closed)
    BY <1>2, <1>5
  <2>12. (~Head(Groups).taken /\ Standard!Holds) = selected
    BY <1>1, <2>1, <2>2, <2>3, <2>10
  <2>13. (Head(Groups).taken \/ selected) = b
    BY <2>4, <2>10
  <2> QED BY <1>1, <1>3, <2>8, <2>9, <2>11, <2>12, <2>13 DEF Standard!Elif
<1> QED BY <1>4, <1>5

LEMMA ElseStep ==
  ASSUME RInv, Else, RInv'
  PROVE  Standard!Else
<1>1. /\ Standard!Directive({"else"}) /\ Standard!LiveAround
      /\ After = Tail(todo) /\ status = "running" /\ nest = 0
  BY Resumed DEF Else
<1>2. /\ Groups = <<>> <=> stack = <<>>
      /\ stack # <<>> => (Head(Groups).closed <=> Head(stack).ctx = "else")
  BY StrayIs DEF Else
<1>3. macros' = macros /\ out' = out
  BY DEF Else
<1>4. CASE stack = <<>> \/ Head(stack).ctx = "else"
  <2>1. Err("stray")
    BY <1>4 DEF Else
  <2>2. Standard!Stop("stray")
    BY <2>1, StopStep
  <2>3. Groups = <<>> \/ Head(Groups).closed
    BY <1>2, <1>4
  <2> QED BY <1>1, <1>3, <2>2, <2>3 DEF Standard!Else
<1>5. CASE ~(stack = <<>> \/ Head(stack).ctx = "else")
  <2> DEFINE ci == Head(stack)
             c == CondIncl("else", ci.included)
  <2>1. Head(Groups) = Opened(ci, ~skipping) /\ ci \in Cond
    BY <1>1, <1>5, GroupsReading DEF RInv, IInv
  <2>2. c \in Cond /\ ci.included \in BOOLEAN /\ ci.ctx # "else"
    BY <1>5, <2>1 DEF Cond, CondIncl
  <2>3. stack' = <<c>> \o Tail(stack) /\ GoOn(ci.included) /\ status' = status
    BY <1>5 DEF Else
  <2>4. Standard!Section(Opened(c, ~ci.included))
    <3> HIDE DEF c
    <3> QED BY <1>1, <1>5, <2>2, <2>3, SectionStep
  <2>5. Head(Groups).taken = ci.included
    BY <2>1, <2>2 DEF Opened
  <2>6. Opened(c, ~ci.included) = Standard!Group(~Head(Groups).taken, TRUE, TRUE)
    BY <2>5 DEF Opened, CondIncl, Standard!Group
  <2>7. ~(Groups = <<>> \/ Head(Groups).closed)
    BY <1>2, <1>5
  <2> QED BY <1>1, <1>3, <2>4, <2>6, <2>7 DEF Standard!Else
<1> QED BY <1>4, <1>5

LEMMA EndifStep ==
  ASSUME RInv, Endif, RInv'
  PROVE  Standard!Endif
<1>1. /\ Standard!Directive({"endif"}) /\ After = Tail(todo) /\ status = "running" /\ nest = 0
  BY Resumed DEF Endif
<1>2. Groups = <<>> <=> stack = <<>>
  BY StrayIs DEF Endif
<1>3. macros' = macros /\ out' = out
  BY DEF Endif
<1>4. CASE stack = <<>>
  <2>1. Err("stray")
    BY <1>4 DEF Endif
  <2> QED BY <1>1, <1>2, <1>3, <1>4, <2>1, StopStep DEF Standard!Endif
<1>5. CASE stack # <<>>
  <2>1. stack' = Tail(stack) /\ GoOn(FALSE) /\ status' = status
    BY <1>5 DEF Endif
  <2>2. todo' = Tail(todo) /\ skipping' = FALSE /\ nest' = 0
    BY <1>1, <2>1 DEF GoOn
  <2>3. Groups' = Nested(0, Tail(stack), FALSE)
    BY <1>1, <2>1, <2>2, GroupsAre DEF RInv, IInv
  <2>4. Tail(Groups) = Nested(0, Tail(stack), FALSE)
    BY <1>1, <1>5, GroupsReading DEF RInv, IInv
  <2> QED BY <1>1, <1>2, <1>3, <1>5, <2>1, <2>2, <2>3, <2>4 DEF Standard!Endif
<1> QED BY <1>4, <1>5

\* The directives that leave the groups alone.
LEMMA SameGroups ==
  ASSUME stack' = stack, skipping' = skipping, nest' = nest, status' = status
  PROVE  Groups' = Groups
BY DEF Groups

LEMMA ObeyedKeeps ==
  ASSUME RInv, NEW words, Directive(words), GoOn(FALSE), stack' = stack, status' = status
  PROVE  Groups' = Groups /\ todo' = Tail(todo)
<1>1. nest = 0 /\ skipping = FALSE /\ After = Tail(todo)
  BY Obeyed
<1>2. todo' = After /\ skipping' = FALSE /\ nest' = 0
  BY DEF GoOn
<1> QED BY <1>1, <1>2, SameGroups

LEMMA DefineStep ==
  ASSUME RInv, Define
  PROVE  Standard!Define
<1>1. /\ Standard!Directive({"define", "undef"}) /\ Standard!Live /\ Dir = Standard!Line
  BY Obeyed DEF Define
<1>2. Groups' = Groups /\ todo' = Tail(todo)
  BY ObeyedKeeps DEF Define
<1> QED BY <1>1, <1>2 DEF Define, Standard!Define

LEMMA IncludeStep ==
  ASSUME RInv, Include
  PROVE  Standard!Include
<1>1. /\ Standard!Directive({"include"}) /\ Standard!Live /\ Dir = Standard!Line
      /\ After = Tail(todo)
  BY Obeyed DEF Include
<1>2. Groups' = Groups
  BY SameGroups DEF Include, skipper
<1> QED BY <1>1, <1>2 DEF Include, Standard!Include

LEMMA NullStep ==
  ASSUME RInv, NullDirective
  PROVE  Standard!NullDirective
<1>1. Standard!Directive({""})
  BY Obeyed DEF NullDirective
<1>2. Groups' = Groups /\ todo' = Tail(todo)
  BY ObeyedKeeps DEF NullDirective
<1> QED BY <1>1, <1>2 DEF NullDirective, Standard!NullDirective

LEMMA ErrorStep ==
  ASSUME RInv, Error
  PROVE  Standard!Error
<1>1. Standard!Directive({"error"}) /\ Standard!Live
  BY Obeyed DEF Error
<1>2. Standard!Stop("error")
  BY StopStep DEF Error
<1> QED BY <1>1, <1>2 DEF Error, Standard!Error

LEMMA FinishStep ==
  ASSUME RInv, Finish
  PROVE  Standard!Finish
<1>1. status = "running" /\ todo = <<>> /\ TypeOK
  BY DEF Finish, RInv, IInv
<1>2. Groups = <<>> <=> stack = <<>>
  BY <1>1, LiveIs DEF TypeOK
<1>3. status' = IF stack = <<>> THEN "done" ELSE "unterminated"
  BY DEF Finish
<1>4. Groups' = <<>>
  BY <1>3 DEF Groups
<1> QED BY <1>1, <1>2, <1>3, <1>4 DEF Finish, Standard!Finish

\* In what is left out only the nesting of conditionals is looked at.
LEMMA SkipStep ==
  ASSUME RInv, Skip, RInv'
  PROVE  Standard!Next
<1> DEFINE w == Head(todo).word
<1>1. Reading /\ skipping /\ stack' = stack /\ skipping' = skipping /\ status' = status
      /\ macros' = macros /\ out' = out
  BY DEF Skip
<1>2. /\ status = "running" /\ todo # <<>> /\ Standard!Line = Head(todo)
      /\ IsHash <=> Head(todo).hash
      /\ IsHash => /\ Dir = Head(todo) /\ After = Tail(todo)
                   /\ w \in {"if", "ifdef", "ifndef", "elif", "else", "endif",
                             "define", "undef", "include", "error", ""}
  BY <1>1, Here
<1>3. todo' = Tail(todo)
  BY <1>2 DEF Skip, Opening
<1>4. /\ nest \in Nat /\ stack \in Seq(Cond) /\ skipping \in BOOLEAN /\ TypeOK /\ TypeOK'
  BY DEF RInv, IInv, TypeOK, Cond
<1>5. ~Standard!Live /\ (Standard!LiveAround <=> nest = 0)
  BY <1>1, <1>2, <1>4, LiveIs
<1>6. /\ Groups = Nested(nest, stack, skipping)
      /\ Groups' = Nested(nest', stack, skipping)
  BY <1>1, <1>2, <1>4, GroupsAre
<1>7. CASE ~Head(todo).hash
  <2>1. nest' = nest
    BY <1>2, <1>7 DEF Skip, Opening
  <2>2. Groups' = Groups
    BY <1>6, <2>1
  <2> QED BY <1>1, <1>2, <1>3, <1>5, <1>7, <2>2 DEF Standard!Text, Standard!Next
<1>8. ASSUME Head(todo).hash, NEW words, w \in words
      PROVE  Standard!Directive(words)
  BY <1>2, <1>8 DEF Standard!Directive
<1>9. CASE Head(todo).hash /\ w \in Opening
  <2>1. nest' = nest + 1
    BY <1>2, <1>9 DEF Skip
  <2>2. Groups' = <<LeftOut>> \o Groups
    BY <1>4, <1>6, <2>1, NestedSkip
  <2>3. Standard!LeftOut = LeftOut /\ Standard!Opening = Opening
    BY DEF Standard!LeftOut, LeftOut, Standard!Group, Standard!Opening, Opening
  <2> QED BY <1>1, <1>3, <1>5, <1>8, <1>9, <2>2, <2>3 DEF Standard!Open, Standard!Next
<1>10. CASE Head(todo).hash /\ w \in Resuming
  <2>1. nest # 0
    BY <1>2, <1>10 DEF Skip
  <2>2. PICK k \in Nat : nest = k + 1
    <3>1. nest - 1 \in Nat /\ nest = (nest - 1) + 1
      BY <1>4, <2>1
    <3> QED BY <3>1
  <2>3. /\ Groups # <<>> /\ Head(Groups) = LeftOut
        /\ Tail(Groups) = Nested(k, stack, skipping)
        /\ <<LeftOut>> \o Tail(Groups) = Groups
    BY <1>4, <1>6, <2>2, NestedSkip
  <2>4. CASE w = "endif"
    <3>1. nest' = k
      <4>1. nest' = nest - 1
        BY <1>2, <1>10, <2>4 DEF Skip, Opening
      <4> QED BY <2>2, <4>1
    <3>2. Groups' = Tail(Groups)
      BY <1>6, <2>3, <3>1
    <3> QED BY <1>1, <1>3, <1>8, <1>10, <2>3, <2>4, <3>2 DEF Standard!Endif, Standard!Next
  <2>5. CASE w \in {"elif", "else"}
    <3>1. nest' = nest
      BY <1>2, <1>10, <2>5 DEF Skip, Opening
    <3>2. Groups' = <<Head(Groups)>> \o Tail(Groups)
      BY <1>6, <2>3, <3>1
    <3>3. Standard!Section(Head(Groups))
      BY <1>1, <1>3, <3>2 DEF Standard!Section
    <3>4. CASE w = "elif"
      BY <1>1, <1>5, <1>8, <1>10, <2>1, <2>3, <3>3, <3>4 DEF Standard!Elif, Standard!Next
    <3>5. CASE w = "else"
      BY <1>1, <1>5, <1>8, <1>10, <2>1, <2>3, <3>3, <3>5 DEF Standard!Else, Standard!Next
    <3> QED BY <2>5, <3>4, <3>5
  <2> QED BY <1>10, <2>4, <2>5 DEF Resuming
<1>11. CASE Head(todo).hash /\ w \in {"define", "undef", "include", "error", ""}
  <2>1. nest' = nest
    BY <1>2, <1>11 DEF Skip, Opening
  <2>2. Groups' = Groups
    BY <1>6, <2>1
  <2>3. CASE w \in {"define", "undef"}
    BY <1>1, <1>3, <1>5, <1>8, <1>11, <2>2, <2>3 DEF Standard!Define, Standard!Next
  <2>4. CASE w = "include"
    BY <1>1, <1>3, <1>5, <1>8, <1>11, <2>2, <2>4 DEF Standard!Include, Standard!Next
  <2>5. CASE w = "error"
    BY <1>1, <1>3, <1>5, <1>8, <1>11, <2>2, <2>5 DEF Standard!Error, Standard!Next
  <2>6. CASE w = ""
    BY <1>1, <1>3, <1>5, <1>8, <1>11, <2>2, <2>6 DEF Standard!NullDirective, Standard!Next
  <2> QED BY <1>11, <2>3, <2>4, <2>5, <2>6
<1>12. Head(todo).hash \in BOOLEAN
  BY <1>2, HeadTail, LineType DEF RInv
<1> QED BY <1>2, <1>7, <1>9, <1>10, <1>11, <1>12 DEF Opening, Resuming

\* The loop implements the standard's description of groups, for all sources in
\* which the code sees the directives the standard sees: the same lines are kept,
\* the same directives obeyed and the same strays diagnosed, for any nesting and
\* wherever the boundaries of files fall.
THEOREM RefinesStandard == PlainSources => (Spec => ImplementsStandard)
<1> SUFFICES ASSUME PlainSources
             PROVE  Spec => ImplementsStandard
  OBVIOUS
<1>1. Init => RInv /\ Standard!Init
  <2> SUFFICES ASSUME Init
               PROVE  RInv /\ Standard!Init
    OBVIOUS
  <2>1. RInv
    BY InitRInv
  <2>2. Groups = <<>>
    <3>1. status = "running" /\ nest = 0 /\ stack = <<>> /\ TypeOK
      BY <2>1 DEF Init, RInv, IInv
    <3> QED BY <3>1, LiveIs
  <2> QED BY <2>1, <2>2 DEF Init, Standard!Init
<1>2. RInv /\ [Next]_vars => RInv'
  BY RInvStep
<1>3. RInv /\ RInv' /\ [Next]_vars => [Standard!Next]_(Standard!vars)
  <2> SUFFICES ASSUME RInv, RInv', [Next]_vars
               PROVE  Standard!Next \/ UNCHANGED Standard!vars
    OBVIOUS
  <2>1. CASE Text
    BY <2>1, TextStep DEF Standard!Next
  <2>2. CASE If
    BY <2>2, IfStep DEF Standard!Next
  <2>3. CASE Elif
    BY <2>3, ElifStep DEF Standard!Next
  <2>4. CASE Else
    BY <2>4, ElseStep DEF Standard!Next
  <2>5. CASE Endif
    BY <2>5, EndifStep DEF Standard!Next
  <2>6. CASE Skip
    BY <2>6, SkipStep
  <2>7. CASE Define
    BY <2>7, DefineStep DEF Standard!Next
  <2>8. CASE Include
    BY <2>8, IncludeStep DEF Standard!Next
  <2>9. CASE NullDirective
    BY <2>9, NullStep DEF Standard!Next
  <2>10. CASE Error
    BY <2>10, ErrorStep DEF Standard!Next
  <2>11. CASE Finish
    BY <2>11, FinishStep DEF Standard!Next
  <2>12. CASE UNCHANGED vars
    BY <2>12, SameGroups DEF vars, Standard!vars
  <2> QED BY <2>1, <2>2, <2>3, <2>4, <2>5, <2>6, <2>7, <2>8, <2>9, <2>10, <2>11, <2>12 DEF Next
<1> QED BY <1>1, <1>2, <1>3, PTL DEF Spec, ImplementsStandard, Standard!Spec
=============================================================================
