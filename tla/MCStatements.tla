---------------------------- MODULE MCStatements ----------------------------
(***************************************************************************)
(* Statements for TLC: all bodies made of a loop, a switch or a statement  *)
(* in an expression around two others, with a label to go to.              *)
(***************************************************************************)
EXTENDS Statements

S(k, x, e, s) == [k |-> k, at |-> <<>>, x |-> x, e |-> e, s |-> s]
Plain     == S("expr", None, <<None>>, <<>>)
In(list)  == S("expr", None, <<list>>, <<>>)  \* ({ list expression; });
Return    == S("return", None, <<>>, <<>>)
Value     == S("return", None, <<None>>, <<>>)  \* return value;
Break     == S("break", None, <<>>, <<>>)
Continue  == S("continue", None, <<>>, <<>>)
Goto      == S("goto", "l", <<>>, <<>>)
Lab(s)    == S("label", "l", <<>>, <<s>>)
Block(l)  == S("block", None, <<>>, l)
While(s)  == S("while", None, <<None>>, <<s>>)
DoWhile(s) == S("do", None, <<None>>, <<s>>)
For(x, s) == S("for", x, <<None, None, None>>, <<s>>)
If(s)     == S("if", None, <<None>>, <<s>>)
IfElse(s, t) == S("if", None, <<None>>, <<s, t>>)
Case(a, b, s) == S("case", <<a, b>>, <<>>, <<s>>)
Default(s) == S("default", None, <<>>, <<s>>)
Switch(s) == S("switch", None, <<None>>, <<s>>)

\* Every statement with its place.
RECURSIVE Placed(_, _)
Placed(s, at) ==
  [s EXCEPT !.at = at,
            !.e = [i \in DOMAIN @ |-> [j \in DOMAIN @[i] |-> Placed(@[i][j], at \o <<0, i, j>>)]],
            !.s = [j \in DOMAIN @ |-> Placed(@[j], Append(at, j))]]

Simple == <<Plain, Return, Break, Continue, Goto>>
Around(n, s, t) ==
  CASE n = 1 -> While(Block(<<s, t>>))
    [] n = 2 -> DoWhile(Block(<<s, t>>))
    [] n = 3 -> For({"init", "cond", "inc"}, Block(<<s, t>>))
    [] n = 4 -> For({}, Block(<<If(s), t>>))
    [] n = 5 -> IfElse(s, t)
    [] n = 6 -> In(<<s, t>>)
    [] n = 7 -> Switch(Block(<<Case(0, 0, s), Default(t)>>))
    [] n = 8 -> Switch(Block(<<s, Case(-1, 1, Case(2, 2, t)), Break>>))
    [] n = 9 -> S("while", None, <<<<s>>>>, <<t>>)
    [] n = 10 -> S("do", None, <<<<s>>>>, <<t>>)
    [] n = 11 -> S("switch", None, <<<<s>>>>, <<Case(1, 1, t)>>)

\* The label is put on one of the two parts of the outer statement, or nowhere.
Built(outer, inner, a, b, c, label) ==
  LET x == Around(inner, Simple[a], Simple[b])
      y == Simple[c]
  IN  CASE label = 0 -> Around(outer, x, y)
        [] label = 1 -> Around(outer, Lab(x), y)
        [] label = 2 -> Around(outer, y, Lab(x))
        [] label = 3 -> Around(outer, x, Lab(y))

MCBodies ==
  [p \in (1..11) \X (1..11) \X (1..5) \X (1..5) \X (1..5) \X (0..3) |->
     Placed(Block(<<Built(p[1], p[2], p[3], p[4], p[5], p[6]), Plain, Value>>), <<>>)]
MCValues == {-2, -1, 0, 1, 2, 3}
=============================================================================
