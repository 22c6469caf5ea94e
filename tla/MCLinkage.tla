----------------------------- MODULE MCLinkage -----------------------------
(***************************************************************************)
(* Linkage for TLC: four vocabularies, so that each question is asked of   *)
(* programs long enough for it.                                            *)
(***************************************************************************)
EXTENDS Linkage

CONSTANTS f, g, main, x

I(op, name, attr, given, with) ==
  [op |-> op, name |-> name, attr |-> attr, given |-> given, with |-> with]
Plain(op, name) == I(op, name, {}, FALSE, {})
StaticInlines(op, n) == I(op, n, {"static", "inline"}, FALSE, {})

\* Static inline functions that call each other, before and after their
\* definitions, from a function that is emitted, from one that is not, and from
\* initializers.
InlineItems ==
  {StaticInlines("prototype", g), StaticInlines("function", f), StaticInlines("function", g),
   Plain("function", main), Plain("mention", f), Plain("mention", g),
   I("variable", x, {}, TRUE, {f}), I("static local", x, {}, TRUE, {g})}

\* The same with declarations that differ: extern inline, static, none.
MixedItems ==
     {I(op, f, a, FALSE, {}) : op \in {"prototype", "function"},
                               a \in {{"inline"}, {"static"}, {"extern", "inline"}}}
  \cup {StaticInlines("function", f), StaticInlines("prototype", f), Plain("prototype", f),
        Plain("function", main), Plain("mention", f)}

\* Names of functions and objects that locals, parameters and typedefs hide.
ScopeItems ==
     {Plain(op, n) : op \in {"local", "typedef", "mention"}, n \in {f, x}}
  \cup {I("function", f, {"static"}, FALSE, p) : p \in {{}, {x}, {f}}}
  \cup {Plain("prototype", f), Plain("block", f), I("variable", x, {"extern"}, FALSE, {}),
        I("static local", x, {}, TRUE, {f}), I("static local", f, {}, FALSE, {})}

\* One object declared over and over.
ObjectItems ==
     {I("variable", x, a, given, {}) :
        a \in {{}, {"static"}, {"tls"}}, given \in BOOLEAN}
  \cup {I("variable", x, {"extern"}, FALSE, {}), I("variable", x, {"extern", "tls"}, FALSE, {}),
        I("variable", x, {}, TRUE, {x}), Plain("function", g), Plain("mention", x)}

MCItems ==
  [d \in {"inline", "mixed", "scopes", "objects"} |->
     CASE d = "inline"  -> InlineItems
       [] d = "mixed"   -> MixedItems
       [] d = "scopes"  -> ScopeItems
       [] d = "objects" -> ObjectItems]

Lengths == [d \in DOMAIN MCItems |-> IF d = "inline" THEN 7 ELSE IF d = "scopes" THEN 6 ELSE 5]
=============================================================================
