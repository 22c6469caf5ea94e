----------------------------- MODULE Statements -----------------------------
(***************************************************************************)
(* Statements: what stmt makes of them with its thread-local cells         *)
(* (src/src/parse.rs), the code gen_stmt emits (src/src/codegen.rs), and   *)
(* that code running side by side with what C says of the statements.      *)
(*                                                                         *)
(* A statement is a record: its kind k; its place at, which stands for     *)
(* tok_loc, the place of a part being an extension of it; what else is     *)
(* written, x (a name, the bounds of a case, the parts a for has); its     *)
(* expressions e and its statements s.  Of an expression only the          *)
(* statements in it, in ({ ... }), count, which run before it has a value. *)
(***************************************************************************)
EXTENDS Integers, SequencesExt

CONSTANTS
  Bodies,  \* Bodies[n] is the body of a function
  Values,  \* the values a switch may be on
  Bits     \* their width

ASSUME ValuesAssumption == Bits \in Nat \ {0} /\ Values \subseteq -(2^(Bits-1))..(2^(Bits-1) - 1)

VARIABLES
  body,  \* the function's body
  code,  \* the instructions for it
  pc, rax,
  todo,  \* what C has left to do
  ahead  \* how long one of the two has been waiting for the other

vars == <<body, code, pc, rax, todo, ahead>>
None == <<>>

(***************************************************************************)
(* The parser.  The cells hold labels; a label is named here after the     *)
(* place it was made for, where the code counts.  A cell read is empty     *)
(* until it is set again, which break, continue and case do at once.       *)
(***************************************************************************)
NoCells == [brk |-> None, cont |-> None, sw |-> None, gotos |-> {}, labels |-> <<>>, err |-> FALSE]
Label(name, s) == <<name, s.at>>

\* new_node, with the parts parsed.
Node(s, e, sub) ==
  [s EXCEPT !.e = e, !.s = sub] @@
  [brk |-> None, cont |-> None, label |-> None, cases |-> <<>>, default |-> None]

EnterLoop(c, s) == [c EXCEPT !.brk = Label("brk", s), !.cont = Label("cont", s)]

\* Seeded fault: the label of continue is not put back.
LeaveLoopBreakOnly(c, before) == [c EXCEPT !.brk = before.brk]

LeaveLoop(c, before) == [c EXCEPT !.brk = before.brk, !.cont = before.cont]

EnterSwitch(c, s) ==
  [c EXCEPT !.brk = Label("brk", s), !.sw = [cases |-> <<>>, default |-> None]]
LeaveSwitch(c, before) == [c EXCEPT !.brk = before.brk, !.sw = before.sw]

Stray(s, c) ==
  \/ s.k = "break" /\ c.brk = None
  \/ s.k = "continue" /\ c.cont = None
  \/ s.k \in {"case", "default"} /\ c.sw = None

\* The link of a case, put into the cell after the statement behind it.
AddCase(c, s) ==
  LET link == [from |-> s.x[1], to |-> s.x[2], label |-> Label("case", s)] IN
  [c EXCEPT !.sw.cases = <<link>> \o @]

RECURSIVE stmt(_, _), Each(_, _), Exprs(_, _)

\* Statements, or the statements in expressions, in the order they are read.
Each(list, c) ==
  IF list = <<>> THEN [n |-> <<>>, c |-> c]
  ELSE LET first == stmt(Head(list), c)
           rest  == Each(Tail(list), first.c)
       IN  [n |-> <<first.n>> \o rest.n, c |-> rest.c]

Exprs(list, c) ==
  IF list = <<>> THEN [n |-> <<>>, c |-> c]
  ELSE LET first == Each(Head(list), c)
           rest  == Exprs(Tail(list), first.c)
       IN  [n |-> <<first.n>> \o rest.n, c |-> rest.c]

Sub(s, c)  == Each(s.s, c)
Expr(s, c) == Exprs(s.e, c)
Loop(s, e, b) ==
  [Node(s, e.n, b.n) EXCEPT !.brk = Label("brk", s), !.cont = Label("cont", s)]

\* Expression statements, return, if and blocks only hand the cells on.
plain_stmt(s, c) ==
  LET e == Expr(s, c)
      b == Sub(s, e.c)
  IN  [n |-> Node(s, e.n, b.n), c |-> b.c]

\* The condition is read before the labels are there.
while_stmt(s, c) ==
  LET e == Expr(s, c)
      b == Sub(s, EnterLoop(e.c, s))
  IN  [n |-> Loop(s, e, b), c |-> LeaveLoop(b.c, e.c)]

do_stmt(s, c) ==
  LET b == Sub(s, EnterLoop(c, s))
      e == Expr(s, LeaveLoop(b.c, c))
  IN  [n |-> Loop(s, e, b), c |-> e.c]

for_stmt(s, c) ==
  LET e == Expr(s, EnterLoop(c, s))
      b == Sub(s, e.c)
  IN  [n |-> Loop(s, e, b), c |-> LeaveLoop(b.c, c)]

\* The cell has a copy of the node, which the cases are added to.
switch_stmt(s, c) ==
  LET e == Expr(s, c)
      b == Sub(s, EnterSwitch(e.c, s))
  IN  [n |-> [Node(s, e.n, b.n) EXCEPT !.brk = Label("brk", s),
                !.cases = b.c.sw.cases, !.default = b.c.sw.default],
       c |-> LeaveSwitch(b.c, e.c)]

case_stmt(s, c) ==
  LET b == Sub(s, c) IN
  [n |-> [Node(s, <<>>, b.n) EXCEPT !.label = Label("case", s)], c |-> AddCase(b.c, s)]

default_stmt(s, c) ==
  LET b == Sub(s, c) IN
  [n |-> [Node(s, <<>>, b.n) EXCEPT !.label = Label("case", s)],
   c |-> [b.c EXCEPT !.sw.default = Label("case", s)]]

label_stmt(s, c) ==
  LET b == Sub(s, c) IN
  [n |-> [Node(s, <<>>, b.n) EXCEPT !.label = Label("label", s)],
   c |-> [b.c EXCEPT !.labels = <<[name |-> s.x, label |-> Label("label", s)]>> \o @]]

stmt(s, c) ==
  CASE Stray(s, c) -> [n |-> Node(s, <<>>, <<>>), c |-> [c EXCEPT !.err = TRUE]]
    [] ~Stray(s, c) /\ s.k \in {"break", "continue"} ->
         [n |-> [Node(s, <<>>, <<>>) EXCEPT !.label = IF s.k = "break" THEN c.brk ELSE c.cont],
          c |-> c]
    [] s.k = "goto"    -> [n |-> Node(s, <<>>, <<>>), c |-> [c EXCEPT !.gotos = @ \cup {s.x}]]
    [] s.k = "while"   -> while_stmt(s, c)
    [] s.k = "do"      -> do_stmt(s, c)
    [] s.k = "for"     -> for_stmt(s, c)
    [] s.k = "switch"  -> switch_stmt(s, c)
    [] ~Stray(s, c) /\ s.k = "case"    -> case_stmt(s, c)
    [] ~Stray(s, c) /\ s.k = "default" -> default_stmt(s, c)
    [] s.k = "label"   -> label_stmt(s, c)
    [] s.k \in {"expr", "return", "if", "block"} -> plain_stmt(s, c)

\* The first label of a name in the list is the one a goto gets.
Found(name, labels) == {i \in DOMAIN labels : labels[i].name = name}
Undeclared(c) == \E name \in c.gotos : Found(name, c.labels) = {}

RECURSIVE set_unique_label(_, _)
set_unique_label(n, labels) ==
  IF n.k = "goto" THEN [n EXCEPT !.label = labels[Min(Found(n.x, labels))].label]
  ELSE [n EXCEPT
         !.e = [i \in DOMAIN @ |-> [j \in DOMAIN @[i] |-> set_unique_label(@[i][j], labels)]],
         !.s = [j \in DOMAIN @ |-> set_unique_label(@[j], labels)]]

(***************************************************************************)
(* The code generator.  <<"eval", at, i>> stands for the code of the i-th  *)
(* expression of the statement at at, but for the statements in it.        *)
(***************************************************************************)
Set(l)  == <<":", l>>
Jmp(l)  == <<"jmp", l>>
Je(l)   == <<"je", l>>
Jne(l)  == <<"jne", l>>
Epilogue == <<"return">>

gen_if(n, cond, then, els) ==
  cond \o <<Je(Label("else", n))>> \o then \o <<Jmp(Label("end", n)), Set(Label("else", n))>>
       \o els \o <<Set(Label("end", n))>>

\* Seeded fault: without a condition there is no label to break to.
gen_for_brk_with_cond(n, init, cond, then, inc) ==
  init \o <<Set(Label("begin", n))>> \o (IF cond = <<>> THEN <<>> ELSE cond \o <<Je(n.brk)>>)
       \o then \o <<Set(n.cont)>> \o inc \o <<Jmp(Label("begin", n))>>
       \o (IF cond = <<>> THEN <<>> ELSE <<Set(n.brk)>>)

\* Seeded fault: continue skips the increment.
gen_for_cont_late(n, init, cond, then, inc) ==
  init \o <<Set(Label("begin", n))>> \o (IF cond = <<>> THEN <<>> ELSE cond \o <<Je(n.brk)>>)
       \o then \o inc \o <<Set(n.cont), Jmp(Label("begin", n)), Set(n.brk)>>

gen_for(n, init, cond, then, inc) ==
  init \o <<Set(Label("begin", n))>> \o (IF cond = <<>> THEN <<>> ELSE cond \o <<Je(n.brk)>>)
       \o then \o <<Set(n.cont)>> \o inc \o <<Jmp(Label("begin", n)), Set(n.brk)>>

gen_while(n, cond, then) ==
  <<Set(n.cont), Set(Label("begin", n))>> \o cond \o <<Je(n.brk)>> \o then
    \o <<Jmp(Label("begin", n)), Set(n.brk)>>

\* Seeded fault: continue goes to the start of the body.
gen_do_cont_early(n, then, cond) ==
  <<Set(n.cont), Set(Label("begin", n))>> \o then \o cond
    \o <<Jne(Label("begin", n)), Set(n.brk)>>

gen_do(n, then, cond) ==
  <<Set(Label("begin", n))>> \o then \o <<Set(n.cont)>> \o cond
    \o <<Jne(Label("begin", n)), Set(n.brk)>>

gen_switch(n, cond, then) ==
  cond \o [j \in DOMAIN n.cases |-> <<"case", n.cases[j].from, n.cases[j].to, n.cases[j].label>>]
       \o (IF n.default = None THEN <<>> ELSE <<Jmp(n.default)>>)
       \o <<Jmp(n.brk)>> \o then \o <<Set(n.brk)>>

RECURSIVE gen_stmt(_)
gen_stmt(n) ==
  LET each(list) == FlattenSeq([j \in DOMAIN list |-> gen_stmt(list[j])])
      expr(i) == each(n.e[i]) \o <<<<"eval", n.at, i>>>>
      part(name, i) == IF name \in n.x THEN expr(i) ELSE <<>>
  IN
  CASE n.k = "expr"     -> expr(1)
    [] n.k = "return"   -> (IF n.e = <<>> THEN <<>> ELSE expr(1)) \o <<Jmp(Epilogue)>>
    [] n.k = "block"    -> each(n.s)
    [] n.k = "if"       -> gen_if(n, expr(1), gen_stmt(n.s[1]), each(Tail(n.s)))
    [] n.k = "for"      -> gen_for(n, part("init", 1), part("cond", 2), each(n.s), part("inc", 3))
    [] n.k = "while"    -> gen_while(n, expr(1), each(n.s))
    [] n.k = "do"       -> gen_do(n, each(n.s), expr(1))
    [] n.k = "switch"   -> gen_switch(n, expr(1), each(n.s))
    [] n.k \in {"goto", "break", "continue"}   -> <<Jmp(n.label)>>
    [] n.k \in {"case", "default", "label"} -> <<Set(n.label)>> \o each(n.s)

\* function and emit_assembly: no code if the body has an error.
Compiled(b) ==
  LET p == stmt(b, NoCells) IN
  IF p.c.err \/ Undeclared(p.c) THEN None
  ELSE gen_stmt(set_unique_label(p.n, p.c.labels)) \o <<Set(Epilogue)>>

(***************************************************************************)
(* What C says: todo lists what is still to be done, innermost first; a    *)
(* statement to execute, an expression to evaluate, the next turn of a     *)
(* loop whose body has ended, or the end of a switch.                      *)
(***************************************************************************)
Do(list)  == [j \in DOMAIN list |-> [what |-> "stmt", s |-> list[j]]]
Eval(s, i) == Do(s.e[i]) \o <<[what |-> "eval", s |-> s, i |-> i]>>
Again(s)  == <<[what |-> "again", s |-> s]>>
End(s)    == <<[what |-> "end", s |-> s]>>

\* The loop whose body is left and the todo list of its next turn.
Turn(s) ==
  IF s.k = "do" \/ (s.k = "for" /\ "cond" \notin s.x) THEN Do(s.s) \o Again(s)
  ELSE Eval(s, IF s.k = "for" THEN 2 ELSE 1)

NextTurn(s) ==
  CASE s.k = "while" -> Turn(s)
    [] s.k = "do"    -> Eval(s, 1)
    [] s.k = "for"   -> IF "inc" \in s.x THEN Eval(s, 3) ELSE Turn(s)

\* What is left of s when control goes to the part of it at a place.
RECURSIVE From(_, _)
From(s, place) ==
  LET in(list)  == {j \in DOMAIN list : IsPrefix(list[j].at, place)}
      part(list) == From(list[Min(in(list))], place)
      later(list) == Do(SubSeq(list, Min(in(list)) + 1, Len(list)))
  IN  IF s.at = place THEN Do(<<s>>)
      ELSE IF in(s.s) # {} THEN
        part(s.s) \o CASE s.k = "if" -> <<>>
                       [] s.k \in {"while", "do", "for"} -> Again(s)
                       [] s.k = "switch" -> End(s)
                       [] OTHER -> later(s.s)
      ELSE
        LET i == CHOOSE i \in DOMAIN s.e : in(s.e[i]) # {} IN
        part(s.e[i]) \o later(s.e[i]) \o <<[what |-> "eval", s |-> s, i |-> i]>>

\* The statements in s, s included, to which a goto or a switch may lead.
RECURSIVE Parts(_)
Parts(s) ==
  {s} \cup UNION {Parts(s.s[j]) : j \in DOMAIN s.s}
      \cup UNION {UNION {Parts(s.e[i][j]) : j \in DOMAIN s.e[i]} : i \in DOMAIN s.e}

\* The cases of s: those in no switch within it.
CasesOf(s) ==
  LET inner == {t \in Parts(s) : t.k = "switch" /\ t # s} IN
  {t \in Parts(s) : t.k \in {"case", "default"} /\ ~\E u \in inner : IsPrefix(u.at, t.at)}

Chosen(s, v) ==
  LET cases == {t \in CasesOf(s) : t.k = "case" /\ t.x[1] <= v /\ v <= t.x[2]}
      others == {t \in CasesOf(s) : t.k = "default"}
  IN  IF cases # {} THEN cases ELSE others

\* A value being had by the i-th expression of s.
After(s, i, v) ==
  CASE s.k = "expr"   -> <<>>
    [] s.k = "if"     -> IF v # 0 THEN Do(<<s.s[1]>>) ELSE Do(Tail(s.s))
    [] s.k = "while"  -> IF v # 0 THEN Do(s.s) \o Again(s) ELSE <<>>
    [] s.k = "do"     -> IF v # 0 THEN Turn(s) ELSE <<>>
    [] s.k = "for"    -> IF i # 2 THEN Turn(s) ELSE IF v # 0 THEN Do(s.s) \o Again(s) ELSE <<>>
    [] s.k = "switch" -> LET to == Chosen(s, v) IN
                         IF to = {} THEN <<>> ELSE From(s, (CHOOSE t \in to : TRUE).at)

\* The first in the list that break, or continue, is about.
Enclosing(what) == Min({j \in DOMAIN todo : todo[j].what \in what})
Rest == Tail(todo)

\* break, continue and goto find where to go; the others become their parts.
Execute(s) ==
  CASE s.k = "break"    -> SubSeq(Rest, Enclosing({"again", "end"}), Len(Rest))
    [] s.k = "continue" -> SubSeq(todo, Enclosing({"again"}), Len(todo))
    [] s.k = "goto"     -> From(body, (CHOOSE t \in Parts(body) : t.k = "label" /\ t.x = s.x).at)
    [] s.k \in {"block", "label", "case", "default"} -> Do(s.s) \o Rest
    [] s.k = "do" \/ (s.k = "for" /\ "init" \notin s.x) -> Turn(s) \o Rest
    [] s.k = "return" /\ s.e = <<>> -> <<>>
    [] OTHER            -> Eval(s, 1) \o Rest

\* Is the body legal: break and continue in a loop or switch, case in a
\* switch, goto to a label?
Legal(b) ==
  LET parts == Parts(b)
      within(t, kinds) == \E u \in parts : u.k \in kinds /\ u # t /\
                            \E j \in DOMAIN u.s : IsPrefix(u.s[j].at, t.at)
      loops == {"while", "do", "for"}
  IN  \A t \in parts :
        /\ t.k = "break" => within(t, loops \cup {"switch"})
        /\ t.k = "continue" => within(t, loops)
        /\ t.k \in {"case", "default"} => within(t, {"switch"})
        /\ t.k = "goto" => \E u \in parts : u.k = "label" /\ u.x = t.x

(***************************************************************************)
(* Both run, side by side, and take the same values for granted.           *)
(***************************************************************************)
Init ==
  /\ \E n \in DOMAIN Bodies : body = Bodies[n]
  /\ code = Compiled(body)
  /\ pc = 1 /\ rax = 0 /\ ahead = 0
  /\ todo = IF code = None THEN <<>> ELSE Do(<<body>>)

Busy == <<"busy">>

\* Where each of the two stands: before an expression, at the end, or neither.
CodeAt ==
  CASE pc > Len(code) -> <<"end">>
    [] pc <= Len(code) /\ code[pc][1] = "eval" -> <<"eval", code[pc][2], code[pc][3]>>
    [] OTHER -> Busy
TodoAt ==
  CASE todo = <<>> -> <<"end">>
    [] todo # <<>> /\ todo[1].what = "eval" -> <<"eval", todo[1].s.at, todo[1].i>>
    [] OTHER -> Busy

Target(l) == CHOOSE n \in DOMAIN code : code[n] = Set(l)

\* The comparison of a case, on registers of Bits bits.
Equal(from, to) ==
  IF from = to THEN rax = from ELSE (rax - from) % 2^Bits <= to - from

RunCode ==
  pc' = LET i == code[pc]
            jumps == CASE i[1] = ":"    -> FALSE
                       [] i[1] = "jmp"  -> TRUE
                       [] i[1] = "je"   -> rax = 0
                       [] i[1] = "jne"  -> rax # 0
                       [] i[1] = "case" -> Equal(i[2], i[3])
        IN  IF jumps THEN Target(i[Len(i)]) ELSE pc + 1

RunC ==
  todo' = CASE todo[1].what = "stmt"  -> Execute(todo[1].s)
            [] todo[1].what = "again" -> NextTurn(todo[1].s) \o Rest
            [] todo[1].what = "end"   -> Rest

\* A step of each, or of the one that has not arrived yet.
Run ==
  /\ CodeAt = Busy \/ TodoAt = Busy
  /\ IF CodeAt = Busy THEN RunCode ELSE pc' = pc
  /\ IF TodoAt = Busy THEN RunC ELSE todo' = todo
  /\ ahead' = IF (CodeAt = Busy) = (TodoAt = Busy) THEN 0 ELSE ahead + 1
  /\ UNCHANGED <<body, code, rax>>

Outcomes(s, i) ==
  CASE s.k = "switch" -> Values
    [] s.k \in {"if", "while", "do"} \/ (s.k = "for" /\ i = 2) -> {0, 1}
    [] OTHER -> {0}

Evaluate ==
  /\ CodeAt = TodoAt /\ CodeAt[1] = "eval"
  /\ LET s == todo[1].s
         i == todo[1].i
     IN  \E v \in Outcomes(s, i) :
           /\ rax' = v
           /\ todo' = IF s.k = "return" THEN <<>> ELSE After(s, i, v) \o Rest
  /\ pc' = pc + 1 /\ ahead' = 0
  /\ UNCHANGED <<body, code>>

Next == Run \/ Evaluate

Spec == Init /\ [][Next]_vars
-----------------------------------------------------------------------------
(***************************************************************************)
(* Properties.                                                             *)
(***************************************************************************)
\* Every jump has one label to go to, or the assembler would refuse the code or
\* two statements share a label; pc stays in the code.  (Said once, at the start.)
TypeOK ==
  /\ pc \in 1..(Len(code) + 1) /\ rax \in Values \cup {0, 1}
  /\ pc = 1 => \A n \in DOMAIN code : code[n][1] \notin {":", "eval"} =>
       Cardinality({m \in DOMAIN code : code[m] = Set(code[n][Len(code[n])])}) = 1

\* What is refused is what C refuses: break and continue outside of a loop or
\* switch, case outside of a switch, goto to no label.  That is decided by cells
\* that every loop and switch, and every expression with statements in it, must
\* hand on as they were.
RefusesAsC == pc = 1 => (code = None <=> ~Legal(body))

\* The code evaluates the expressions C evaluates, in the same order and to the
\* end: however break, continue, goto, switch and statements in expressions
\* leave the loops they are in, and wherever a goto or a case enters them.
SameExpressions == CodeAt # Busy /\ TodoAt # Busy => CodeAt = TodoAt

\* Neither goes round for ever while the other has arrived: to run more
\* instructions than there are without an evaluation is to meet one again, with
\* nothing changed.
KeepsPace == ahead <= Len(code)
=============================================================================
